------------------------- MODULE LinkManagerProofs -------------------------
(***************************************************************************)
(* Proofs about LinkManager, for any devices, any number of connections,   *)
(* any path speeds and any bounds.                                         *)
(***************************************************************************)
EXTENDS LinkManager, TLAPS

LEMMA PeerIsDev == \A d \in Dev : Peer(d) \in Dev
  BY DEF Peer, Dev

LEMMA NoneIsNoConn == None \notin Conns
  BY ConnAssumption

(***************************************************************************)
(* better never makes the two sides disagree: it is a strict partial order *)
(* that orders any two links that differ in route, speed or dialer.        *)
(***************************************************************************)
LEMMA BetterIsOrder ==
  ASSUME TypeOK, NEW a \in Conns, NEW b \in Conns, NEW c \in Conns
  PROVE  /\ ~(Better(a, b) /\ Better(b, a))
         /\ Better(a, b) /\ Better(b, c) => Better(a, c)
         /\ \/ Better(a, b) \/ Better(b, a)
            \/ /\ conn[a].route = conn[b].route
               /\ conn[a].prio = conn[b].prio
               /\ conn[a].dialer = conn[b].dialer
<1>1. /\ conn[a] \in ConnInfo /\ conn[b] \in ConnInfo /\ conn[c] \in ConnInfo
  BY DEF TypeOK
<1>2. \A x \in ConnInfo : /\ x.route \in {"direct", "relay"}
                          /\ x.prio \in Nat /\ x.dialer \in {Low, High}
  BY DEF ConnInfo, Routes, Dev
<1> QED
  BY <1>1, <1>2, DevAssumption DEF Better

(***************************************************************************)
(* The invariant behind OneOpenLink and RefusedForALink: the registered    *)
(* link and every link that is being probed was served.                    *)
(***************************************************************************)
LinkWasServed ==
  \A d \in Dev : links[d] # None => end[d][links[d]] \in {"open", "closed"}

ProbedWasServed ==
  \A d \in Dev :
    /\ \A c \in Conns :
         /\ probe[d][c].old # None => end[d][probe[d][c].old] \in {"open", "closed"}
         /\ end[d][c] = "probing" => probe[d][c].old # None
    /\ check[d].old # None => end[d][check[d].old] \in {"open", "closed"}

DialedAlone ==
  \A d \in Dev, c \in Conns : end[d][c] = "dialing" => end[Peer(d)][c] = "none"

IInv == TypeOK /\ OneOpenLink /\ LinkWasServed /\ ProbedWasServed /\ DialedAlone

LEMMA InitIInv == Init => IInv
  BY ConnAssumption, DevAssumption
  DEF Init, IInv, TypeOK, OneOpenLink, LinkWasServed, ProbedWasServed, DialedAlone, Dev,
      ConnInfo, ProbeInfo, NoProbe, Phases, Packets, Routes, Tries
LEMMA CurrentIsOpen ==
  ASSUME TypeOK, LinkWasServed, NEW d \in Dev
  PROVE  /\ Current(d) \in Conns \union {None}
         /\ Current(d) # None => Current(d) = links[d] /\ end[d][Current(d)] = "open"
  BY NoneIsNoConn DEF Current, TypeOK, LinkWasServed

LEMMA SentType ==
  ASSUME TypeOK, NEW d \in Dev, NEW c \in Conns, NEW p \in Packets
  PROVE  Sent(d, c, p) \in [Dev -> [Conns -> SUBSET Packets]]
  BY DEF Sent, TypeOK

LEMMA NoProbeType == NoProbe \in ProbeInfo
  BY DEF NoProbe, ProbeInfo

LEMMA LateType ==
  ASSUME NEW r \in ProbeInfo
  PROVE  /\ [r EXCEPT !.late = TRUE] \in ProbeInfo
         /\ [r EXCEPT !.late = TRUE].old = r.old
  BY DEF ProbeInfo

LEMMA ProbeEndsType ==
  ASSUME TypeOK, NEW d \in Dev, NEW c \in Conns, probe' = [probe EXCEPT ![d][c] = NoProbe]
  PROVE  /\ probe' \in [Dev -> [Conns -> ProbeInfo]]
         /\ probe'[d][c].old = None
         /\ \A e \in Dev, x \in Conns : e # d \/ x # c => probe'[e][x] = probe[e][x]
<1>1. NoProbe.old = None
  BY DEF NoProbe
<1> QED
  BY <1>1, NoProbeType DEF TypeOK

LEMMA ProbeEndsKeeps ==
  ASSUME TypeOK, NEW d \in Dev, NEW c \in Conns, probe' = [probe EXCEPT ![d][c] = NoProbe],
         end'[d][c] # "probing"
  PROVE  \A e \in Dev, x \in Conns :
           \/ probe'[e][x].old = probe[e][x].old
           \/ probe'[e][x].old = None /\ end'[e][x] # "probing"
<1> SUFFICES ASSUME NEW e \in Dev, NEW x \in Conns
             PROVE  \/ probe'[e][x].old = probe[e][x].old
                    \/ probe'[e][x].old = None /\ end'[e][x] # "probing"
  OBVIOUS
<1>1. CASE e = d /\ x = c
  BY <1>1, ProbeEndsType
<1>2. CASE e # d \/ x # c
  <2>1. probe'[e][x] = probe[e][x]
    BY <1>2 DEF TypeOK
  <2> QED
    BY <2>1
<1> QED
  BY <1>1, <1>2

(* Ends that were never used stay so, and no dial begins. *)
LEMMA DialedAloneKept ==
  ASSUME IInv,
         \A e \in Dev, x \in Conns :
           \/ end'[e][x] = end[e][x]
           \/ end[e][x] # "none" /\ end'[e][x] # "dialing"
  PROVE  DialedAlone'
  BY PeerIsDev DEF IInv, DialedAlone

LEMMA TickStep ==
  ASSUME IInv, NEW d \in Dev, Tick(d)
  PROVE  IInv'
<1>1. \A t \in Options(d) : t \in Tries
  <2>1. \A q \in (IF d \in Phones THEN {0} ELSE Prios) : q \in Nat
    BY PrioAssumption
  <2>2. \A t \in Options(d) :
          \/ t = [route |-> "relay", prio |-> 0]
          \/ t \in [route : {"direct"}, prio : Nat]
    BY <2>1 DEF Options
  <2>3. [route |-> "relay", prio |-> 0] \in Tries
    BY DEF Tries, Routes
  <2>4. \A t \in [route : {"direct"}, prio : Nat] : t \in Tries
    BY DEF Tries, Routes
  <2> QED
    BY <2>2, <2>3, <2>4
<1>2. plan' \in [Dev -> SUBSET Tries]
  BY <1>1 DEF Tick, IInv, TypeOK
<1> QED
  BY <1>2 DEF Tick, IInv, TypeOK, OneOpenLink, LinkWasServed, ProbedWasServed, DialedAlone

LEMMA NewConnStep ==
  ASSUME IInv, NEW d \in Dev, NEW c \in Conns, NEW t \in Tries,
         NEW who \in {"connector", "user"}, NewConn(d, c, t, who),
         end[Low][c] = "none", end[High][c] = "none",
         plan' \in [Dev -> SUBSET Tries]
  PROVE  IInv'
<1>1. conn' \in [Conns -> ConnInfo]
  BY DEF NewConn, IInv, TypeOK, ConnInfo, Tries
<1>2. \A e \in Dev : end[e][c] = "none"
  BY DEF Dev
<1>3. /\ end' \in [Dev -> [Conns -> Phases]]
      /\ end' = [end EXCEPT ![d][c] = "dialing"]
  BY DEF NewConn, IInv, TypeOK, Phases
<1>4. DialedAlone'
  BY <1>2, <1>3, PeerIsDev, DevAssumption DEF IInv, TypeOK, DialedAlone, Peer, Dev
<1> QED
  BY <1>1, <1>2, <1>3, <1>4
  DEF NewConn, IInv, TypeOK, OneOpenLink, LinkWasServed, ProbedWasServed

LEMMA DialStep ==
  ASSUME IInv, NEW d \in Dev, NEW c \in Conns, Dial(d, c)
  PROVE  IInv'
<1>0. end[Low][c] = "none" /\ end[High][c] = "none"
  BY DEF Dial
<1>1. CASE ConnectorDials(d, c)
  <2>1. PICK t \in plan[d] : /\ NewConn(d, c, t, "connector")
                             /\ plan' = [plan EXCEPT ![d] = @ \ {t}]
    BY <1>1 DEF ConnectorDials
  <2>2. t \in Tries /\ plan' \in [Dev -> SUBSET Tries]
    BY <2>1 DEF IInv, TypeOK
  <2> QED
    BY <1>0, <2>1, <2>2, NewConnStep
<1>2. CASE UserConnects(d, c)
  <2>1. PICK p \in Prios : NewConn(d, c, [route |-> "direct", prio |-> p], "user")
    BY <1>2 DEF UserConnects
  <2>2. [route |-> "direct", prio |-> p] \in Tries
    BY PrioAssumption DEF Tries, Routes
  <2>3. plan' \in [Dev -> SUBSET Tries]
    BY <1>2 DEF UserConnects, IInv, TypeOK
  <2> QED
    BY <1>0, <2>1, <2>2, <2>3, NewConnStep
<1> QED
  BY <1>1, <1>2 DEF Dial
(* What taking a link does to the ends, spelled out. *)
LEMMA TakeEnds ==
  ASSUME TypeOK, NEW d \in Dev, NEW c \in Conns, NEW old, Take(d, c, old)
  PROVE  /\ plan' \in [Dev -> SUBSET Tries]
         /\ links' \in [Dev -> Conns \union {None}]
         /\ end' \in [Dev -> [Conns -> Phases]]
         /\ links'[d] = c /\ end'[d][c] = "open"
         /\ \A x \in Conns : x # c /\ x = old => end'[d][x] = "closed"
         /\ \A x \in Conns : x # c /\ x # old => end'[d][x] = end[d][x]
         /\ \A e \in Dev : e # d => end'[e] = end[e] /\ links'[e] = links[e]
<1>1. plan' \in [Dev -> SUBSET Tries]
  BY DEF Take, TypeOK
<1>2. links' \in [Dev -> Conns \union {None}] /\ links' = [links EXCEPT ![d] = c]
  BY DEF Take, TypeOK
<1>3. DEFINE row == [x \in Conns |->
                      IF x = c THEN "open" ELSE IF x = old THEN "closed" ELSE end[d][x]]
<1>4. end' = [end EXCEPT ![d] = row]
  BY DEF Take
<1>5. row \in [Conns -> Phases]
  BY DEF TypeOK, Phases
<1>6. end' \in [Dev -> [Conns -> Phases]] /\ end'[d] = row
  BY <1>4, <1>5 DEF TypeOK
<1>7. \A e \in Dev : e # d => end'[e] = end[e] /\ links'[e] = links[e]
  BY <1>2, <1>4 DEF TypeOK
<1> QED
  BY <1>1, <1>2, <1>6, <1>7 DEF TypeOK

(* Taking a link keeps the invariant when the only other open one is closed. *)
LEMMA TakeKeeps ==
  ASSUME IInv, NEW d \in Dev, NEW c \in Conns, NEW old \in Conns \union {None},
         Take(d, c, old),
         \/ links[d] = None \/ links[d] = old
         \/ end[d][links[d]] = "closed",
         end[d][c] \in {"hello", "probing"},
         old # None => end[d][old] \in {"open", "closed"},
         probe'[d][c] = NoProbe \/ end[d][c] = "hello",
         \A e \in Dev, x \in Conns :
           e # d \/ x # c => probe'[e][x].old = probe[e][x].old,
         \A e \in Dev : check'[e].old = check[e].old,
         probe' \in [Dev -> [Conns -> ProbeInfo]],
         end[d][c] = "hello" => probe'[d][c] = probe[d][c]
  PROVE  OneOpenLink' /\ LinkWasServed' /\ ProbedWasServed' /\ DialedAlone'
<1>0. /\ TypeOK
      /\ links'[d] = c /\ end'[d][c] = "open"
      /\ \A x \in Conns : x # c /\ x = old => end'[d][x] = "closed"
      /\ \A x \in Conns : x # c /\ x # old => end'[d][x] = end[d][x]
      /\ \A e \in Dev : e # d => end'[e] = end[e] /\ links'[e] = links[e]
  BY TakeEnds DEF IInv
<1>1. OneOpenLink'
  BY <1>0, NoneIsNoConn DEF IInv, OneOpenLink
<1>2. LinkWasServed'
  BY <1>0 DEF IInv, LinkWasServed
<1>3. \A e \in Dev, x \in Conns :
        end[e][x] \in {"open", "closed"} => end'[e][x] \in {"open", "closed"}
  BY <1>0
<1>4. \A e \in Dev, x \in Conns :
        probe'[e][x].old # None => probe'[e][x].old = probe[e][x].old
  BY DEF NoProbe
<1>5. \A e \in Dev, x \in Conns :
        end'[e][x] = "probing" => end[e][x] = "probing" /\ (e # d \/ x # c)
  BY <1>0
<1>6. /\ \A e \in Dev, x \in Conns : probe[e][x].old \in Conns \union {None}
      /\ \A e \in Dev : check[e].old \in Conns \union {None}
  BY DEF IInv, TypeOK, ProbeInfo
<1>7. ProbedWasServed
  BY DEF IInv
<1>8. ASSUME NEW e \in Dev, NEW x \in Conns, probe'[e][x].old # None
      PROVE  end'[e][probe'[e][x].old] \in {"open", "closed"}
  <2>1. probe[e][x].old \in Conns /\ end[e][probe[e][x].old] \in {"open", "closed"}
    BY <1>4, <1>6, <1>7, <1>8 DEF ProbedWasServed
  <2> QED
    BY <1>3, <1>4, <1>8, <2>1
<1>9. ASSUME NEW e \in Dev, NEW x \in Conns, end'[e][x] = "probing"
      PROVE  probe'[e][x].old # None
  BY <1>5, <1>7, <1>9 DEF ProbedWasServed
<1>10. ASSUME NEW e \in Dev, check'[e].old # None
       PROVE  end'[e][check'[e].old] \in {"open", "closed"}
  <2>1. check[e].old \in Conns /\ end[e][check[e].old] \in {"open", "closed"}
    BY <1>6, <1>7, <1>10 DEF ProbedWasServed
  <2> QED
    BY <1>3, <2>1
<1>11. ProbedWasServed'
  BY <1>8, <1>9, <1>10 DEF ProbedWasServed
<1>12. \A e \in Dev, x \in Conns :
         \/ end'[e][x] = end[e][x]
         \/ end[e][x] # "none" /\ end'[e][x] # "dialing"
  BY <1>0, NoneIsNoConn
<1>13. DialedAlone'
  BY <1>12, DialedAloneKept
<1> QED
  BY <1>1, <1>2, <1>11, <1>13

LEMMA RegisterBetterStep ==
  ASSUME IInv, NEW d \in Dev, NEW c \in Conns, RegisterBetter(d, c)
  PROVE  IInv'
<1>1. Current(d) \in Conns \union {None}
  BY CurrentIsOpen DEF IInv
<1>2. Take(d, c, Current(d)) /\ TypeOK
  BY DEF RegisterBetter, IInv
<1>3. TypeOK'
  BY <1>2, TakeEnds DEF RegisterBetter, TypeOK
<1>4. links[d] = None \/ links[d] = Current(d) \/ end[d][links[d]] = "closed"
  BY DEF Current
<1>5. OneOpenLink' /\ LinkWasServed' /\ ProbedWasServed' /\ DialedAlone'
  <2>1. probe' = probe /\ check' = check /\ end[d][c] = "hello"
    BY DEF RegisterBetter
  <2>2. Current(d) # None => end[d][Current(d)] \in {"open", "closed"}
    BY CurrentIsOpen DEF IInv
  <2>3. probe' \in [Dev -> [Conns -> ProbeInfo]]
    BY <1>3 DEF TypeOK
  <2> QED
    BY <1>1, <1>2, <1>4, <2>1, <2>2, <2>3, TakeKeeps
<1> QED
  BY <1>3, <1>5 DEF IInv

LEMMA RegisterProbesStep ==
  ASSUME IInv, NEW d \in Dev, NEW c \in Conns, RegisterProbes(d, c)
  PROVE  IInv'
<1>1. Current(d) \in Conns /\ end[d][Current(d)] = "open"
  BY CurrentIsOpen DEF RegisterProbes, IInv
<1>2. Sent(Peer(d), Current(d), "ping") \in [Dev -> [Conns -> SUBSET Packets]]
  BY <1>1, SentType, PeerIsDev DEF IInv, Packets
<1>3. TypeOK'
  BY <1>1, <1>2 DEF RegisterProbes, IInv, TypeOK, Phases, ProbeInfo, Probing
<1>4. Current(d) # c
  BY <1>1 DEF RegisterProbes
<1>5. OneOpenLink' /\ LinkWasServed' /\ ProbedWasServed'
  BY <1>1, <1>4, NoneIsNoConn
  DEF RegisterProbes, IInv, TypeOK, OneOpenLink, LinkWasServed, ProbedWasServed, Probing
<1>6. DialedAlone'
  BY DialedAloneKept DEF RegisterProbes, IInv, TypeOK
<1> QED
  BY <1>3, <1>5, <1>6 DEF IInv
(* The steps that serve no new link: ends move on or close, a link leaves  *)
(* the map when none is open, probes end, a check begins on an open link.  *)
LEMMA NoNewLinkKeeps ==
  ASSUME IInv,
         \A e \in Dev, x \in Conns :
           \/ end'[e][x] = end[e][x] \/ end'[e][x] = "closed"
           \/ end[e][x] \notin {"open", "closed"} /\ end'[e][x] = "hello",
         \A e \in Dev :
           \/ links'[e] = links[e]
           \/ links'[e] = None /\ \A x \in Conns : end'[e][x] # "open",
         \A e \in Dev, x \in Conns :
           \/ probe'[e][x].old = probe[e][x].old
           \/ probe'[e][x].old = None /\ end'[e][x] # "probing",
         \A e \in Dev :
           \/ check'[e].old = check[e].old \/ check'[e].old = None
           \/ check'[e].old \in Conns /\ end'[e][check'[e].old] = "open"
  PROVE  OneOpenLink' /\ LinkWasServed' /\ ProbedWasServed'
<1>1. /\ \A e \in Dev : links[e] \in Conns \union {None}
      /\ \A e \in Dev, x \in Conns : probe[e][x].old \in Conns \union {None}
      /\ \A e \in Dev : check[e].old \in Conns \union {None}
  BY DEF IInv, TypeOK, ProbeInfo
<1>2. OneOpenLink'
  BY DEF IInv, OneOpenLink
<1>3. \A e \in Dev, x \in Conns :
        end[e][x] \in {"open", "closed"} => end'[e][x] \in {"open", "closed"}
  OBVIOUS
<1>4. LinkWasServed'
  BY <1>1, <1>3 DEF IInv, LinkWasServed
<1>5. ProbedWasServed
  BY DEF IInv
<1>6. ASSUME NEW e \in Dev, NEW x \in Conns, probe'[e][x].old # None
      PROVE  end'[e][probe'[e][x].old] \in {"open", "closed"}
  <2>1. probe'[e][x].old = probe[e][x].old
    BY <1>6
  <2>2. probe[e][x].old \in Conns /\ end[e][probe[e][x].old] \in {"open", "closed"}
    BY <1>1, <1>5, <1>6, <2>1 DEF ProbedWasServed
  <2> QED
    BY <1>3, <2>1, <2>2
<1>7. ASSUME NEW e \in Dev, NEW x \in Conns, end'[e][x] = "probing"
      PROVE  probe'[e][x].old # None
  BY <1>5, <1>7 DEF ProbedWasServed
<1>8. ASSUME NEW e \in Dev, check'[e].old # None
      PROVE  end'[e][check'[e].old] \in {"open", "closed"}
  <2>1. CASE check'[e].old = check[e].old
    <3>1. check[e].old \in Conns /\ end[e][check[e].old] \in {"open", "closed"}
      BY <1>1, <1>5, <1>8, <2>1 DEF ProbedWasServed
    <3> QED
      BY <1>3, <2>1, <3>1
  <2> QED
    BY <1>8, <2>1
<1>9. ProbedWasServed'
  BY <1>6, <1>7, <1>8 DEF ProbedWasServed
<1> QED
  BY <1>2, <1>4, <1>9

LEMMA AcceptedStep ==
  ASSUME IInv, NEW d \in Dev, NEW c \in Conns, Accepted(d, c)
  PROVE  IInv'
<1>1. TypeOK'
  BY PeerIsDev DEF Accepted, IInv, TypeOK, Phases, Packets
<1>2. end[Peer(d)][c] = "none"
  BY DEF Accepted, IInv, DialedAlone
<1>3. OneOpenLink' /\ LinkWasServed' /\ ProbedWasServed'
  BY <1>2, PeerIsDev, NoNewLinkKeeps DEF Accepted, IInv, TypeOK
<1>4. Dev = {d, Peer(d)}
  BY DevAssumption DEF Dev, Peer
<1>5. end'[d][c] = "hello" /\ end'[Peer(d)][c] = "hello"
  BY PeerIsDev DEF Accepted, IInv, TypeOK
<1>6. \A e \in Dev, x \in Conns : x # c => end'[e][x] = end[e][x]
  BY PeerIsDev DEF Accepted, IInv, TypeOK
<1>7. DialedAlone'
  BY <1>4, <1>5, <1>6, PeerIsDev DEF IInv, DialedAlone
<1> QED
  BY <1>1, <1>3, <1>7 DEF IInv

(* The steps that only close ends of a device. *)
LEMMA CloseStep ==
  ASSUME IInv, NEW d \in Dev, NEW c \in Conns,
         \/ DialFails(d, c) \/ HelloFails(d, c) \/ ProbeAnswered(d, c) \/ ReadFails(d, c)
  PROVE  IInv'
<1>1. /\ end' = [end EXCEPT ![d][c] = "closed"] /\ end[d][c] # "none"
      /\ UNCHANGED <<plan, conn, net, check, path, checks>>
  BY DEF DialFails, HelloFails, ProbeAnswered, Refuse, ReadFails
<1>2. links' \in [Dev -> Conns \union {None}]
  BY DEF DialFails, HelloFails, ProbeAnswered, Refuse, ReadFails, IInv, TypeOK
<1>3. end'[d][c] = "closed"
  BY <1>1 DEF IInv, TypeOK
<1>4. \/ probe' = probe
      \/ probe' = [probe EXCEPT ![d][c] = NoProbe]
  BY DEF DialFails, HelloFails, ProbeAnswered, ReadFails
<1>5. probe' \in [Dev -> [Conns -> ProbeInfo]]
  <2>1. CASE probe' = probe
    BY <2>1 DEF IInv, TypeOK
  <2>2. CASE probe' = [probe EXCEPT ![d][c] = NoProbe]
    BY <2>2, ProbeEndsType DEF IInv
  <2> QED
    BY <1>4, <2>1, <2>2
<1>6. \A e \in Dev, x \in Conns :
        \/ probe'[e][x].old = probe[e][x].old
        \/ probe'[e][x].old = None /\ end'[e][x] # "probing"
  <2>1. CASE probe' = probe
    BY <2>1
  <2>2. CASE probe' = [probe EXCEPT ![d][c] = NoProbe]
    <3>1. end'[d][c] # "probing"
      BY <1>3
    <3> QED
      BY <2>2, <3>1, ProbeEndsKeeps DEF IInv
  <2> QED
    BY <1>4, <2>1, <2>2
<1>7. \A e \in Dev :
        \/ links'[e] = links[e]
        \/ links'[e] = None /\ \A x \in Conns : end'[e][x] # "open"
  BY <1>1 DEF DialFails, HelloFails, ProbeAnswered, Refuse, ReadFails, IInv, TypeOK, OneOpenLink
<1>8. \A e \in Dev, x \in Conns :
        \/ end'[e][x] = end[e][x]
        \/ end[e][x] # "none" /\ end'[e][x] = "closed"
  BY <1>1 DEF IInv, TypeOK
<1>9. DialedAlone'
  BY <1>8, DialedAloneKept
<1>10. OneOpenLink' /\ LinkWasServed' /\ ProbedWasServed'
  BY <1>1, <1>6, <1>7, <1>8, NoNewLinkKeeps
<1>11. TypeOK'
  BY <1>1, <1>2, <1>5 DEF IInv, TypeOK, Phases
<1> QED
  BY <1>9, <1>10, <1>11 DEF IInv

(* After a probe without an answer, on a computer and on a phone. *)
LEMMA ProbeUnansweredStep ==
  ASSUME IInv, NEW d \in Dev, NEW c \in Conns,
         ProbeUnanswered(d, c) \/ PhoneProbeUnanswered(d, c)
  PROVE  IInv'
<1> DEFINE old == probe[d][c].old
<1>1. /\ end[d][c] = "probing" /\ UNCHANGED <<conn, net, check, path, checks>>
      /\ \/ Take(d, c, old) /\ ServedLate(d, c) /\ links[d] \in {None, old}
         \/ /\ \/ end' = [end EXCEPT ![d][c] = "closed", ![d][old] = "closed"]
               \/ end' = [end EXCEPT ![d][c] = "closed"]
            /\ probe' = [probe EXCEPT ![d][c] = NoProbe]
            /\ UNCHANGED <<plan, links>>
  BY DEF ProbeUnanswered, PhoneProbeUnanswered, Refuse
<1>2. old \in Conns /\ end[d][old] \in {"open", "closed"}
  BY <1>1 DEF IInv, TypeOK, ProbeInfo, ProbedWasServed
<1>3. CASE Take(d, c, old) /\ ServedLate(d, c) /\ links[d] \in {None, old}
  <2>1. probe' \in [Dev -> [Conns -> ProbeInfo]]
    <3>1. \A x \in Conns : [probe[Peer(d)][x] EXCEPT !.late = TRUE] \in ProbeInfo
      BY PeerIsDev, LateType DEF IInv, TypeOK
    <3> QED
      BY <1>3, <3>1, NoProbeType, PeerIsDev DEF ServedLate, IInv, TypeOK
  <2>2. probe'[d][c] = NoProbe
    BY <1>3, DevAssumption, PeerIsDev DEF ServedLate, IInv, TypeOK, Peer, Dev
  <2>3. \A e \in Dev, x \in Conns :
          e # d \/ x # c => probe'[e][x].old = probe[e][x].old
    <3>1. \A x \in Conns :
            [probe[Peer(d)][x] EXCEPT !.late = TRUE].old = probe[Peer(d)][x].old
      BY PeerIsDev, LateType DEF IInv, TypeOK
    <3> QED
      BY <1>3, <3>1, PeerIsDev, DevAssumption DEF ServedLate, IInv, TypeOK, Peer, Dev
  <2>4. TypeOK'
    BY <1>1, <1>3, <2>1, TakeEnds DEF IInv, TypeOK
  <2>5. OneOpenLink' /\ LinkWasServed' /\ ProbedWasServed' /\ DialedAlone'
    BY <1>1, <1>2, <1>3, <2>1, <2>2, <2>3, TakeKeeps
  <2> QED
    BY <2>4, <2>5 DEF IInv
<1>4. CASE /\ \/ end' = [end EXCEPT ![d][c] = "closed", ![d][old] = "closed"]
              \/ end' = [end EXCEPT ![d][c] = "closed"]
           /\ probe' = [probe EXCEPT ![d][c] = NoProbe]
           /\ UNCHANGED <<plan, links>>
  <2>1. /\ end' \in [Dev -> [Conns -> Phases]]
        /\ end'[d][c] = "closed"
        /\ \A e \in Dev, x \in Conns :
             \/ end'[e][x] = end[e][x]
             \/ end[e][x] # "none" /\ end'[e][x] = "closed"
    <3>1. CASE end' = [end EXCEPT ![d][c] = "closed", ![d][old] = "closed"]
      <4>1. end \in [Dev -> [Conns -> Phases]] /\ "closed" \in Phases
        BY DEF IInv, TypeOK, Phases
      <4>2. end' \in [Dev -> [Conns -> Phases]] /\ end'[d][c] = "closed"
        BY <1>2, <3>1, <4>1
      <4>3. \A e \in Dev, x \in Conns :
              end'[e][x] = IF e = d /\ x \in {c, old} THEN "closed" ELSE end[e][x]
        BY <1>2, <3>1, <4>1
      <4>4. end[d][c] # "none" /\ end[d][old] # "none"
        BY <1>1, <1>2
      <4> HIDE DEF old
      <4> QED
        BY <4>2, <4>3, <4>4
    <3>2. CASE end' = [end EXCEPT ![d][c] = "closed"]
      BY <1>1, <3>2 DEF IInv, TypeOK, Phases
    <3> QED
      BY <1>4, <3>1, <3>2
  <2>2. TypeOK'
    BY <1>1, <1>4, <2>1, ProbeEndsType DEF IInv, TypeOK
  <2>3. \A e \in Dev, x \in Conns :
          \/ probe'[e][x].old = probe[e][x].old
          \/ probe'[e][x].old = None /\ end'[e][x] # "probing"
    <3>1. end'[d][c] # "probing"
      BY <2>1
    <3> QED
      BY <1>4, <3>1, ProbeEndsKeeps DEF IInv
  <2>4. DialedAlone'
    BY <2>1, DialedAloneKept
  <2>5. OneOpenLink' /\ LinkWasServed' /\ ProbedWasServed'
    BY <1>1, <1>4, <2>1, <2>3, NoNewLinkKeeps
  <2> QED
    BY <2>2, <2>4, <2>5 DEF IInv
<1> QED
  BY <1>1, <1>3, <1>4
LEMMA ReceiveStep ==
  ASSUME IInv, NEW d \in Dev, NEW c \in Conns, NEW p \in Packets, Receive(d, c, p)
  PROVE  IInv'
<1> DEFINE got == IF p = "ping" THEN Sent(Peer(d), c, "pong") ELSE net
           Hear(r) == IF r.old = c THEN [r EXCEPT !.heard = TRUE] ELSE r
<1>1. got \in [Dev -> [Conns -> SUBSET Packets]]
  BY SentType, PeerIsDev DEF IInv, TypeOK, Packets
<1>2. net' = [got EXCEPT ![d][c] = @ \ {p}]
  BY DEF Receive
<1>3. net' \in [Dev -> [Conns -> SUBSET Packets]]
  <2> HIDE DEF got
  <2> QED
    BY <1>1, <1>2
<1>4. \A r \in ProbeInfo : Hear(r) \in ProbeInfo /\ Hear(r).old = r.old
  BY DEF ProbeInfo
<1>5. /\ probe' = [probe EXCEPT ![d] = [x \in Conns |-> Hear(probe[d][x])]]
      /\ check' = check \/ check' = [check EXCEPT ![d] = Hear(check[d])]
  <2>1. probe' = [probe EXCEPT ![d] = [x \in Conns |-> Hear(probe[d][x])]]
    BY DEF Receive
  <2>2. check[d].old = c => [check[d] EXCEPT !.heard = TRUE] = Hear(check[d])
    OBVIOUS
  <2>3. check' = check \/ check' = [check EXCEPT ![d] = Hear(check[d])]
    BY <2>2 DEF Receive
  <2> QED
    BY <2>1, <2>3
<1>6. /\ probe' \in [Dev -> [Conns -> ProbeInfo]]
      /\ check' \in [Dev -> ProbeInfo]
      /\ \A e \in Dev, x \in Conns : probe'[e][x].old = probe[e][x].old
      /\ \A e \in Dev : check'[e].old = check[e].old
  <2> DEFINE row == [x \in Conns |-> Hear(probe[d][x])]
  <2>1. /\ row \in [Conns -> ProbeInfo]
        /\ \A x \in Conns : row[x].old = probe[d][x].old
    <3> HIDE DEF Hear
    <3> QED
      BY <1>4 DEF IInv, TypeOK
  <2>2. probe' = [probe EXCEPT ![d] = row]
    BY <1>5
  <2>3. Hear(check[d]) \in ProbeInfo /\ Hear(check[d]).old = check[d].old
    <3> HIDE DEF Hear
    <3> QED
      BY <1>4 DEF IInv, TypeOK
  <2> HIDE DEF Hear, row
  <2>4. /\ probe' \in [Dev -> [Conns -> ProbeInfo]]
        /\ \A e \in Dev, x \in Conns : probe'[e][x].old = probe[e][x].old
    <3>1. probe \in [Dev -> [Conns -> ProbeInfo]]
      BY DEF IInv, TypeOK
    <3>2. \A e \in Dev : probe'[e] = IF e = d THEN row ELSE probe[e]
      BY <2>2, <3>1
    <3> QED
      BY <2>1, <2>2, <3>1, <3>2
  <2>5. /\ check' \in [Dev -> ProbeInfo]
        /\ \A e \in Dev : check'[e].old = check[e].old
    BY <1>5, <2>3 DEF IInv, TypeOK
  <2> QED
    BY <2>4, <2>5
<1>7. UNCHANGED <<plan, conn, end, links, path, checks>>
  BY DEF Receive
<1>8. OneOpenLink' /\ LinkWasServed' /\ ProbedWasServed'
  BY <1>6, <1>7, NoNewLinkKeeps
<1> QED
  BY <1>3, <1>6, <1>7, <1>8 DEF IInv, TypeOK, DialedAlone

LEMMA UnregisterStep ==
  ASSUME IInv, NEW d \in Dev, Unregister(d)
  PROVE  IInv'
<1>1. \A x \in Conns : end[d][x] # "open"
  BY DEF Unregister, IInv, OneOpenLink
<1>2. \A e \in Dev :
        \/ links'[e] = links[e]
        \/ links'[e] = None /\ \A x \in Conns : end'[e][x] # "open"
  BY <1>1 DEF Unregister, IInv, TypeOK
<1>3. UNCHANGED <<plan, conn, end, net, probe, check, path, checks>>
  BY DEF Unregister
<1>4. OneOpenLink' /\ LinkWasServed' /\ ProbedWasServed'
  BY <1>2, <1>3, NoNewLinkKeeps
<1>5. TypeOK' /\ DialedAlone'
  BY <1>3 DEF Unregister, IInv, TypeOK, DialedAlone
<1> QED
  BY <1>4, <1>5 DEF IInv

LEMMA CheckStep ==
  ASSUME IInv, NEW d \in Dev, CheckLink(d) \/ CheckAnswered(d) \/ CheckUnanswered(d)
  PROVE  IInv'
<1>1. CASE CheckLink(d)
  <2>1. Current(d) \in Conns /\ end[d][Current(d)] = "open"
    BY <1>1, CurrentIsOpen DEF CheckLink, IInv
  <2>2. Probing(Current(d)) \in ProbeInfo /\ Probing(Current(d)).old = Current(d)
    BY <2>1 DEF Probing, ProbeInfo
  <2>3. net' \in [Dev -> [Conns -> SUBSET Packets]]
    BY <1>1, <2>1, SentType, PeerIsDev DEF CheckLink, IInv, Packets
  <2>4. check' = [check EXCEPT ![d] = Probing(Current(d))]
    BY <1>1 DEF CheckLink
  <2>5. UNCHANGED <<plan, conn, end, links, probe, path>> /\ checks' = checks + 1
    BY <1>1 DEF CheckLink
  <2>6. TypeOK'
    BY <2>2, <2>3, <2>4, <2>5 DEF IInv, TypeOK
  <2>7. \A e \in Dev :
          \/ check'[e].old = check[e].old
          \/ check'[e].old \in Conns /\ end'[e][check'[e].old] = "open"
    BY <2>1, <2>2, <2>4, <2>5 DEF IInv, TypeOK
  <2>8. OneOpenLink' /\ LinkWasServed' /\ ProbedWasServed'
    BY <2>5, <2>7, NoNewLinkKeeps
  <2> QED
    BY <2>5, <2>6, <2>8 DEF IInv, DialedAlone
<1>2. CASE CheckAnswered(d) \/ CheckUnanswered(d)
  <2>1. /\ check' = [check EXCEPT ![d] = NoProbe]
        /\ UNCHANGED <<plan, conn, links, net, probe, path, checks>>
        /\ end' = end \/ end' = [end EXCEPT ![d][check[d].old] = "closed"]
        /\ check[d].old # None
    BY <1>2 DEF CheckAnswered, CheckUnanswered
  <2>2. check[d].old \in Conns /\ end[d][check[d].old] \in {"open", "closed"}
    BY <2>1 DEF IInv, TypeOK, ProbeInfo, ProbedWasServed
  <2>3. /\ end' \in [Dev -> [Conns -> Phases]]
        /\ \A e \in Dev, x \in Conns :
             \/ end'[e][x] = end[e][x]
             \/ end[e][x] # "none" /\ end'[e][x] = "closed"
    <3>1. CASE end' = end
      BY <3>1 DEF IInv, TypeOK
    <3>2. CASE end' = [end EXCEPT ![d][check[d].old] = "closed"]
      BY <2>2, <3>2 DEF IInv, TypeOK, Phases
    <3> QED
      BY <2>1, <3>1, <3>2
  <2>4. NoProbe.old = None
    BY DEF NoProbe
  <2>5. /\ check' \in [Dev -> ProbeInfo]
        /\ \A e \in Dev : check'[e].old = check[e].old \/ check'[e].old = None
    BY <2>1, <2>4, NoProbeType DEF IInv, TypeOK
  <2>6. OneOpenLink' /\ LinkWasServed' /\ ProbedWasServed'
    BY <2>1, <2>3, <2>5, NoNewLinkKeeps
  <2>7. DialedAlone'
    BY <2>3, DialedAloneKept
  <2> QED
    BY <2>1, <2>3, <2>5, <2>6, <2>7 DEF IInv, TypeOK
<1> QED
  BY <1>1, <1>2

LEMMA PathDiesStep ==
  ASSUME IInv, NEW c \in Conns, PathDies(c)
  PROVE  IInv'
<1>1. /\ path' \in [Conns -> BOOLEAN]
      /\ net' \in [Dev -> [Conns -> SUBSET Packets]]
  BY DEF PathDies, IInv, TypeOK
<1> QED
  BY <1>1
  DEF PathDies, IInv, TypeOK, OneOpenLink, LinkWasServed, ProbedWasServed, DialedAlone

LEMMA NextKeepsIInv == IInv /\ [Next]_vars => IInv'
<1> SUFFICES ASSUME IInv, [Next]_vars PROVE IInv'
  OBVIOUS
<1>1. ASSUME NEW d \in Dev, NEW c \in Conns, Step(d, c) PROVE IInv'
  BY <1>1, AcceptedStep, RegisterBetterStep, RegisterProbesStep, CloseStep,
     ProbeUnansweredStep, ReceiveStep DEF Step
<1>2. ASSUME NEW d \in Dev, DeviceStep(d) PROVE IInv'
  BY <1>1, <1>2, UnregisterStep, CheckStep DEF DeviceStep
<1>3. CASE UNCHANGED vars
  BY <1>3 DEF vars, IInv, TypeOK, OneOpenLink, LinkWasServed, ProbedWasServed, DialedAlone
<1> QED
  BY <1>2, <1>3, DialStep, TickStep, CheckStep, PathDiesStep DEF Next

(* Every variable of the two managers keeps its type. *)
THEOREM TypeCorrect == Spec => []TypeOK
<1>1. IInv => TypeOK
  BY DEF IInv
<1> QED
  BY <1>1, InitIInv, NextKeepsIInv, PTL DEF Spec

(* A device never has an open link to its peer besides the registered one  *)
(* (link.go register and serve).                                           *)
THEOREM AtMostOneOpenLink == Spec => []OneOpenLink
<1>1. IInv => OneOpenLink
  BY DEF IInv
<1> QED
  BY <1>1, InitIInv, NextKeepsIInv, PTL DEF Spec

(* The step in which a computer refuses a connection it probed for. *)
LEMMA RefusalStep ==
  ASSUME IInv, [Next]_vars, NEW d \in Dev \ Phones, NEW c \in Conns,
         end[d][c] = "probing", end'[d][c] = "closed"
  PROVE  probe[d][c].heard \/ links'[d] \notin {None, probe[d][c].old}
<1>0. TypeOK
  BY DEF IInv
<1>1. ASSUME NEW e \in Dev, NEW x \in Conns, Dial(e, x) PROVE FALSE
  <2>1. end' = [end EXCEPT ![e][x] = "dialing"]
    BY <1>1 DEF Dial, ConnectorDials, UserConnects, NewConn
  <2> QED
    BY <2>1 DEF IInv, TypeOK
<1>2. ASSUME NEW e \in Dev, NEW x \in Conns, Accepted(e, x) PROVE FALSE
  BY <1>2, PeerIsDev DEF Accepted, IInv, TypeOK
<1>3. ASSUME NEW e \in Dev, NEW x \in Conns,
             DialFails(e, x) \/ HelloFails(e, x) \/ ReadFails(e, x)
      PROVE  FALSE
  <2>1. end' = [end EXCEPT ![e][x] = "closed"] /\ end[e][x] # "probing"
    BY <1>3 DEF DialFails, HelloFails, ReadFails
  <2> QED
    BY <2>1 DEF IInv, TypeOK
<1>4. ASSUME NEW e \in Dev, NEW x \in Conns, RegisterBetter(e, x) PROVE FALSE
  <2>1. /\ Take(e, x, Current(e))
        /\ Current(e) # None => end[e][Current(e)] = "open"
    BY <1>4, CurrentIsOpen DEF RegisterBetter, IInv
  <2> QED
    BY <1>0, <2>1, TakeEnds, NoneIsNoConn
<1>5. ASSUME NEW e \in Dev, NEW x \in Conns, RegisterProbes(e, x) PROVE FALSE
  BY <1>5 DEF RegisterProbes, IInv, TypeOK
<1>6. ASSUME NEW e \in Dev, NEW x \in Conns, ProbeAnswered(e, x)
      PROVE  probe[d][c].heard
  BY <1>6 DEF ProbeAnswered, Refuse, IInv, TypeOK
<1>7. ASSUME NEW e \in Dev, NEW x \in Conns, ProbeUnanswered(e, x)
      PROVE  links'[d] \notin {None, probe[d][c].old}
  <2> DEFINE old == probe[e][x].old
  <2>1. old \in Conns /\ end[e][old] \in {"open", "closed"}
    BY <1>7 DEF ProbeUnanswered, IInv, TypeOK, ProbeInfo, ProbedWasServed
  <2>2. CASE Take(e, x, old)
    BY <1>0, <2>1, <2>2, TakeEnds
  <2>3. CASE /\ end' = [end EXCEPT ![e][x] = "closed", ![e][old] = "closed"]
             /\ links' = links /\ links[e] \notin {None, old}
    <3>1. d = e /\ c = x
      BY <2>1, <2>3 DEF IInv, TypeOK
    <3> QED
      BY <2>3, <3>1
  <2> QED
    BY <1>7, <2>2, <2>3 DEF ProbeUnanswered
<1>8. ASSUME NEW e \in Dev, Tick(e) \/ Unregister(e) \/ CheckLink(e) \/ CheckAnswered(e)
      PROVE  FALSE
  BY <1>8 DEF Tick, Unregister, CheckLink, CheckAnswered
<1>9. ASSUME NEW e \in Dev, CheckUnanswered(e) PROVE FALSE
  <2>1. /\ end' = [end EXCEPT ![e][check[e].old] = "closed"]
        /\ check[e].old \in Conns /\ end[e][check[e].old] \in {"open", "closed"}
    BY <1>9 DEF CheckUnanswered, IInv, TypeOK, ProbeInfo, ProbedWasServed
  <2> QED
    BY <2>1 DEF IInv, TypeOK
<1>10. ASSUME NEW e \in Dev, NEW x \in Conns, NEW p \in Packets, Receive(e, x, p)
       PROVE  FALSE
  BY <1>10 DEF Receive
<1>11. ASSUME NEW x \in Conns, PathDies(x) PROVE FALSE
  BY <1>11 DEF PathDies
<1>12. CASE UNCHANGED vars
  BY <1>12 DEF vars
<1>13. ASSUME NEW e \in Dev, NEW x \in Conns, PhoneProbeUnanswered(e, x)
       PROVE  FALSE
  <2>1. d # e
    BY <1>13 DEF PhoneProbeUnanswered
  <2>2. end'[d] = end[d]
    BY <1>13, <2>1 DEF PhoneProbeUnanswered, Take, Refuse, IInv, TypeOK
  <2> QED
    BY <2>2
<1>14. ASSUME NEW e \in Dev, NEW x \in Conns, Step(e, x)
       PROVE  probe[d][c].heard \/ links'[d] \notin {None, probe[d][c].old}
  BY <1>2, <1>3, <1>4, <1>5, <1>6, <1>7, <1>10, <1>13, <1>14 DEF Step
<1> QED
  BY <1>1, <1>8, <1>9, <1>11, <1>12, <1>14 DEF Next, DeviceStep

(* On a computer, register refuses a connection only for a link that was   *)
(* heard from or that took the place of the one it probed: never when that *)
(* would leave the device without a link.                                  *)
THEOREM ComputersRefuseForALink == Spec => ComputersRefuse
<1>1. IInv /\ [Next]_vars => [\A d \in Dev \ Phones, c \in Conns : RefusesForALink(d, c)]_vars
  BY RefusalStep DEF RefusesForALink
<1> QED
  BY <1>1, InitIInv, NextKeepsIInv, PTL DEF Spec, ComputersRefuse

-----------------------------------------------------------------------------
(***************************************************************************)
(* One channel.  As long as it is calm, every connection that one of the   *)
(* devices has decided about is shared, or there is a better one that is.  *)
(***************************************************************************)
LEMMA TwoDevices ==
  \A d \in Dev : Peer(d) \in Dev /\ Peer(d) # d /\ Peer(Peer(d)) = d /\ Dev = {d, Peer(d)}
  BY DevAssumption DEF Peer, Dev

Decided(c) ==
  /\ \A d \in Dev : end[d][c] \notin {"none", "dialing"}
  /\ \E d \in Dev : end[d][c] # "hello"

Ranked ==
  \A c \in Conns : Decided(c) => Shared(c) \/ \E b \in Conns : Shared(b) /\ Better(b, c)

(* Two links tie only when one device dialed both over paths alike, and it *)
(* gives the first one up before it dials the second.                      *)
Alike(s, t) == s.route = t.route /\ s.prio = t.prio
Live(d, c) == end[d][c] \in {"dialing", "hello", "probing", "open"}

OneOfAKind ==
  \A c, b \in Conns :
    /\ c # b /\ conn[c].dialer = conn[b].dialer
    /\ Live(conn[c].dialer, c) /\ Live(conn[c].dialer, b)
    => ~Alike(conn[c], conn[b])

PlansNew ==
  \A d \in Dev, c \in Conns :
    conn[c].dialer = d /\ end[d][c] = "open" => \A t \in plan[d] : ~Alike(t, conn[c])

(* A connection the peer served late is one this device has given up.      *)
LateIsGone ==
  \A d \in Dev, c \in Conns :
    probe[d][c].late => probe[d][c].old # None /\ end[d][probe[d][c].old] = "closed"

(* Both have entered a connection or neither has, and its dialer dials it. *)
Met ==
  \A d \in Dev, c \in Conns :
    /\ end[d][c] \notin {"none", "dialing"} => end[Peer(d)][c] \notin {"none", "dialing"}
    /\ end[d][c] = "dialing" => conn[c].dialer = d

OneWay == Ranked /\ OneOfAKind /\ PlansNew /\ LateIsGone /\ Met

LEMMA Weaker ==
  ASSUME TypeOK, NEW a \in Conns, NEW b \in Conns, NEW c \in Conns,
         Better(a, b), ~Better(c, b)
  PROVE  Better(a, c)
<1>1. /\ conn[a] \in ConnInfo /\ conn[b] \in ConnInfo /\ conn[c] \in ConnInfo
  BY DEF TypeOK
<1>2. \A x \in ConnInfo : /\ x.route \in {"direct", "relay"}
                          /\ x.prio \in Nat /\ x.dialer \in {Low, High}
  BY DEF ConnInfo, Routes, Dev
<1> QED
  BY <1>1, <1>2, DevAssumption DEF Better

LEMMA OrderFacts ==
  ASSUME TypeOK
  PROVE  /\ \A a, b \in Conns : ~(Better(a, b) /\ Better(b, a))
         /\ \A a \in Conns : ~Better(a, a)
         /\ \A a, b, c \in Conns : Better(a, b) /\ Better(b, c) => Better(a, c)
         /\ \A a, b, c \in Conns : Better(a, b) /\ ~Better(c, b) => Better(a, c)
  BY BetterIsOrder, Weaker

LEMMA SharedDiffer ==
  ASSUME TypeOK, OneOfAKind, NEW a \in Conns, NEW b \in Conns, a # b,
         \A d \in Dev : Live(d, a) /\ Live(d, b)
  PROVE  Better(a, b) \/ Better(b, a)
<1>1. conn[a].dialer \in Dev
  BY DEF TypeOK, ConnInfo
<1>2. CASE Alike(conn[a], conn[b]) /\ conn[a].dialer = conn[b].dialer
  BY <1>1, <1>2 DEF OneOfAKind
<1> QED
  BY <1>2, BetterIsOrder DEF Alike

LEMMA SharedIsLive ==
  ASSUME NEW c \in Conns, Shared(c), NEW d \in Dev
  PROVE  Live(d, c) /\ end[d][c] \in {"hello", "open"} /\ Decided(c)
  BY DEF Shared, Live, Decided

(* What is shared is only lost to something better that is shared.         *)
LEMMA RankedKept ==
  ASSUME TypeOK, Ranked, conn' = conn,
         \A x \in Conns : Decided(x)' =>
           Decided(x) \/ Shared(x)' \/ \E b \in Conns : Shared(b)' /\ Better(b, x),
         \A x \in Conns : Shared(x) =>
           Shared(x)' \/ \E b \in Conns : Shared(b)' /\ Better(b, x)
  PROVE  Ranked'
<1> SUFFICES ASSUME NEW x \in Conns, Decided(x)'
             PROVE  Shared(x)' \/ \E b \in Conns : Shared(b)' /\ Better(b, x)'
  BY DEF Ranked
<1>0. \A b \in Conns : Better(b, x)' <=> Better(b, x)
  BY DEF Better
<1>1. CASE Decided(x)
  <2>1. CASE Shared(x)
    BY <1>0, <2>1
  <2>2. CASE \E b \in Conns : Shared(b) /\ Better(b, x)
    <3>1. PICK b \in Conns : Shared(b) /\ Better(b, x)
      BY <2>2
    <3>2. Shared(b)' \/ \E a \in Conns : Shared(a)' /\ Better(a, b)
      BY <3>1
    <3> QED
      BY <1>0, <3>1, <3>2, OrderFacts
  <2> QED
    BY <1>1, <2>1, <2>2 DEF Ranked
<1> QED
  BY <1>0, <1>1

(* Steps that give up nothing that is shared.                              *)
LEMMA ClosingKeeps ==
  ASSUME IInv, OneWay, UNCHANGED <<conn, plan>>,
         \A e \in Dev, x \in Conns :
           \/ end'[e][x] = end[e][x]
           \/ end'[e][x] = "closed" /\ Decided(x) /\ ~Shared(x),
         \A e \in Dev, x \in Conns :
           probe'[e][x].late => probe[e][x].late /\ probe'[e][x].old = probe[e][x].old
  PROVE  OneWay'
<1>0. TypeOK
  BY DEF IInv
<1>1. \A x \in Conns : Decided(x)' => Decided(x)
  BY DEF Decided
<1>2. \A x \in Conns : Shared(x) => Shared(x)'
  BY DEF Shared
<1>3. Ranked'
  BY <1>0, <1>1, <1>2, RankedKept DEF OneWay
<1>4. \A c \in Conns : conn[c].dialer \in Dev
  BY <1>0 DEF TypeOK, ConnInfo
<1>5. OneOfAKind'
  BY <1>4 DEF OneWay, OneOfAKind, Live, Alike
<1>6. PlansNew'
  BY DEF OneWay, PlansNew, Alike
<1>7. LateIsGone'
  <2> SUFFICES ASSUME NEW e \in Dev, NEW x \in Conns, probe'[e][x].late
               PROVE  probe'[e][x].old # None /\ end'[e][probe'[e][x].old] = "closed"
    BY DEF LateIsGone
  <2>1. probe[e][x].old # None /\ end[e][probe[e][x].old] = "closed"
        /\ probe'[e][x].old = probe[e][x].old
    BY DEF OneWay, LateIsGone
  <2>2. probe[e][x].old \in Conns
    BY <1>0, <2>1 DEF TypeOK, ProbeInfo
  <2> QED
    BY <2>1, <2>2
<1>8. Met'
  <2>1. Met /\ conn' = conn
    BY DEF OneWay
  <2>2. \A e \in Dev, x \in Conns :
          /\ end'[e][x] \in {"none", "dialing"} <=> end[e][x] \in {"none", "dialing"}
          /\ end'[e][x] = "dialing" => end[e][x] = "dialing"
    BY DEF Decided
  <2> QED
    BY <2>1, <2>2, PeerIsDev DEF Met
<1> QED
  BY <1>3, <1>5, <1>6, <1>7, <1>8 DEF OneWay

(* A probe stays unanswered only when the probed link is not shared.       *)
LEMMA UnansweredIsGone ==
  ASSUME IInv, OneWay, Calm, NEW d \in Dev, NEW c \in Conns,
         end[d][c] = "probing", Unanswered(d, probe[d][c])
  PROVE  /\ probe[d][c].old \in Conns /\ probe[d][c].old # c
         /\ end[d][probe[d][c].old] \in {"open", "closed"}
         /\ ~Shared(probe[d][c].old)
<1> DEFINE old == probe[d][c].old
<1>1. old \in Conns /\ end[d][old] \in {"open", "closed"}
  BY DEF IInv, TypeOK, ProbeInfo, ProbedWasServed
<1>2. probe[d][c].late => end[d][old] = "closed"
  BY DEF OneWay, LateIsGone
<1>3. path[old]
  BY <1>1 DEF Calm
<1>4. ~Shared(old)
  BY <1>1, <1>2, <1>3, PeerIsDev DEF Unanswered, CanTimeOut, Shared
<1> QED
  BY <1>1, <1>4

(* Nor then does the peer serve the connection that takes its place.       *)
LEMMA NotTakenWhileServed ==
  ASSUME IInv, OneWay, Calm, NEW d \in Dev, NEW c \in Conns,
         end[d][c] = "probing", Unanswered(d, probe[d][c]),
         links[d] \in {None, probe[d][c].old}
  PROVE  end[Peer(d)][c] # "open"
<1> SUFFICES ASSUME end[Peer(d)][c] = "open"
             PROVE  FALSE
  OBVIOUS
<1>0. TypeOK /\ OneOpenLink
  BY DEF IInv
<1>1. Decided(c) /\ ~Shared(c)
  BY TwoDevices DEF Decided, Shared
<1>2. PICK b \in Conns : Shared(b) /\ Better(b, c)
  BY <1>1 DEF OneWay, Ranked
<1>3. b # c
  BY <1>1, <1>2
<1>4. end[Peer(d)][b] # "open"
  BY <1>0, <1>3, TwoDevices DEF OneOpenLink
<1>5. end[d][b] = "open"
  BY <1>2, <1>4, TwoDevices DEF Shared
<1>6. links[d] = b
  BY <1>0, <1>5 DEF OneOpenLink
<1>7. b = probe[d][c].old
  BY <1>6, NoneIsNoConn
<1> QED
  BY <1>2, <1>7, UnansweredIsGone

(* Serving a link: the one it replaces was not shared, or it is better.    *)
LEMMA TakingKeeps ==
  ASSUME IInv, OneWay, Calm, conn' = conn,
         NEW d \in Dev, NEW c \in Conns, NEW old \in Conns \union {None}, Take(d, c, old),
         end[d][c] \in {"hello", "probing"},
         old # None => old # c /\ end[d][old] \in {"open", "closed"},
         old # None /\ Shared(old) => Better(c, old),
         LateIsGone'
  PROVE  OneWay'
<1>0. /\ TypeOK
      /\ end'[d][c] = "open"
      /\ \A x \in Conns : x # c /\ x = old => end'[d][x] = "closed"
      /\ \A x \in Conns : x # c /\ x # old => end'[d][x] = end[d][x]
      /\ \A e \in Dev : e # d => end'[e] = end[e]
  BY TakeEnds DEF IInv
<1>1. Met'
  <2>1. \A e \in Dev, x \in Conns :
          /\ end'[e][x] \in {"none", "dialing"} <=> end[e][x] \in {"none", "dialing"}
          /\ end'[e][x] = "dialing" => end[e][x] = "dialing"
    BY <1>0, NoneIsNoConn
  <2>2. Met
    BY DEF OneWay
  <2> QED
    BY <2>1, <2>2, PeerIsDev DEF Met
<1>2. \A x \in Conns : Decided(x)' => Decided(x) \/ Shared(x)'
  <2> SUFFICES ASSUME NEW x \in Conns, Decided(x)', ~Decided(x)
               PROVE  Shared(x)'
    OBVIOUS
  <2>1. \A e \in Dev : end[e][x] \notin {"none", "dialing"}
    BY <1>0, NoneIsNoConn DEF Decided
  <2>2. \A e \in Dev : end[e][x] = "hello"
    BY <2>1 DEF Decided
  <2>3. x = c
    BY <1>0, <2>2, NoneIsNoConn DEF Decided
  <2> QED
    BY <1>0, <2>2, <2>3, TwoDevices DEF Shared
<1>3. \A x \in Conns : x \notin {c, old} => (Shared(x)' <=> Shared(x))
  BY <1>0 DEF Shared
<1>4. Shared(c) => Shared(c)'
  BY <1>0 DEF Shared
<1>5. ASSUME old # None, Shared(old), ~Shared(c)'
      PROVE  \E b \in Conns : Shared(b)' /\ Better(b, old)
  <2>1. Better(c, old)
    BY <1>5
  <2>2. \A e \in Dev : end[e][c] \notin {"none", "dialing"}
    BY TwoDevices DEF OneWay, Met
  <2>3. end[Peer(d)][c] \notin {"hello", "open"}
    BY <1>0, <1>5, TwoDevices DEF Shared
  <2>4. Decided(c) /\ ~Shared(c)
    BY <2>2, <2>3, TwoDevices DEF Decided, Shared
  <2>5. PICK b \in Conns : Shared(b) /\ Better(b, c)
    BY <2>4 DEF OneWay, Ranked
  <2>6. old \in Conns
    BY <1>5
  <2>7. b # c /\ b # old /\ Better(b, old)
    BY <1>0, <2>1, <2>5, <2>6, OrderFacts
  <2> QED
    BY <1>3, <2>5, <2>7
<1>6. \A x \in Conns : Shared(x) => Shared(x)' \/ \E b \in Conns : Shared(b)' /\ Better(b, x)
  BY <1>3, <1>4, <1>5, NoneIsNoConn
<1>7. Ranked'
  BY <1>0, <1>2, <1>6, RankedKept DEF OneWay
<1>8. \A x \in Conns : conn[x].dialer \in Dev /\ conn[x].by = "connector"
  BY <1>0 DEF TypeOK, ConnInfo, Calm
<1>9. OneOfAKind'
  <2>1. \A e \in Dev, x \in Conns : Live(e, x)' => Live(e, x)
    BY <1>0, NoneIsNoConn DEF Live
  <2> QED
    BY <1>8, <2>1 DEF OneWay, OneOfAKind, Alike
<1>10. PlansNew'
  <2> SUFFICES ASSUME NEW e \in Dev, NEW x \in Conns, conn[x].dialer = e, end'[e][x] = "open",
                      NEW t \in plan'[e]
               PROVE  ~Alike(t, conn[x])
    BY DEF PlansNew
  <2>1. CASE e = d /\ x = c
    <3>1. plan' = [plan EXCEPT ![d] = {}]
      BY <1>8, <2>1 DEF Take
    <3> QED
      BY <1>0, <2>1, <3>1 DEF TypeOK
  <2>2. CASE ~(e = d /\ x = c)
    <3>1. end[e][x] = "open"
      BY <1>0, <2>2, NoneIsNoConn
    <3>2. t \in plan[e]
      BY <1>0 DEF Take, TypeOK
    <3> QED
      BY <3>1, <3>2 DEF OneWay, PlansNew
  <2> QED
    BY <2>1, <2>2
<1> QED
  BY <1>1, <1>7, <1>9, <1>10 DEF OneWay

LEMMA AcceptedByBoth ==
  ASSUME OneWay, NEW d \in Dev, NEW c \in Conns,
         \/ end[d][c] \in {"probing", "open", "closed"}
         \/ end[d][c] = "hello" /\ end[Peer(d)][c] = "closed"
  PROVE  Decided(c)
  BY TwoDevices DEF OneWay, Met, Decided

(* The steps that close one end, and those that close none.                *)
LEMMA CloseOneKeeps ==
  ASSUME IInv, OneWay, Calm, NEW d \in Dev, NEW c \in Conns,
         \/ HelloFails(d, c) \/ ProbeAnswered(d, c) \/ ReadFails(d, c) \/ DialFails(d, c)
  PROVE  OneWay'
<1>0. TypeOK
  BY DEF IInv
<1>1. ~DialFails(d, c)
  BY DEF DialFails, Calm
<1>2. /\ end' = [end EXCEPT ![d][c] = "closed"] /\ UNCHANGED conn
      /\ end[d][c] \in {"hello", "probing", "open"}
      /\ end[d][c] = "probing" \/ end[Peer(d)][c] = "closed"
  BY <1>1 DEF HelloFails, ProbeAnswered, ReadFails, Refuse, Calm
<1>3. plan' = plan
  BY <1>1 DEF HelloFails, ProbeAnswered, ReadFails, Refuse
<1>4. Decided(c) /\ ~Shared(c)
  BY <1>2, AcceptedByBoth, TwoDevices DEF Shared
<1>5. \A e \in Dev, x \in Conns :
        \/ end'[e][x] = end[e][x]
        \/ end'[e][x] = "closed" /\ Decided(x) /\ ~Shared(x)
  BY <1>0, <1>2, <1>4 DEF TypeOK
<1>6. probe' = probe \/ probe' = [probe EXCEPT ![d][c] = NoProbe]
  BY <1>1 DEF HelloFails, ProbeAnswered, ReadFails
<1>7. ~NoProbe.late
  BY DEF NoProbe
<1>8. \A e \in Dev, x \in Conns :
        probe'[e][x].late => probe[e][x].late /\ probe'[e][x].old = probe[e][x].old
  <2>1. CASE probe' = probe
    BY <2>1
  <2>2. CASE probe' = [probe EXCEPT ![d][c] = NoProbe]
    BY <1>0, <1>7, <2>2 DEF TypeOK
  <2> QED
    BY <1>6, <2>1, <2>2
<1> QED
  BY <1>2, <1>3, <1>5, <1>8, ClosingKeeps

LEMMA CloseNoneKeeps ==
  ASSUME IInv, OneWay, NEW d \in Dev,
         \/ \E c \in Conns, p \in Packets : Receive(d, c, p)
         \/ Unregister(d) \/ CheckLink(d) \/ CheckAnswered(d)
         \/ UNCHANGED vars
  PROVE  OneWay'
<1>0. TypeOK
  BY DEF IInv
<1>1. UNCHANGED <<conn, plan, end>>
  BY DEF Receive, Unregister, CheckLink, CheckAnswered, vars
<1>2. \A e \in Dev, x \in Conns :
        probe'[e][x].late => probe[e][x].late /\ probe'[e][x].old = probe[e][x].old
  <2>1. CASE probe' = probe
    BY <2>1
  <2>2. ASSUME NEW c \in Conns, NEW p \in Packets, Receive(d, c, p)
        PROVE  \A e \in Dev, x \in Conns :
                 probe'[e][x].late = probe[e][x].late /\ probe'[e][x].old = probe[e][x].old
    <3>1. \A r \in ProbeInfo : /\ [r EXCEPT !.heard = TRUE].late = r.late
                               /\ [r EXCEPT !.heard = TRUE].old = r.old
      BY DEF ProbeInfo
    <3>2. \A x \in Conns : probe[d][x] \in ProbeInfo
      BY <1>0 DEF TypeOK
    <3>3. probe' = [probe EXCEPT ![d] = [x \in Conns |->
                      IF probe[d][x].old = c THEN [probe[d][x] EXCEPT !.heard = TRUE]
                      ELSE probe[d][x]]]
      BY <2>2 DEF Receive
    <3> QED
      BY <1>0, <3>1, <3>2, <3>3 DEF TypeOK
  <2> QED
    BY <2>1, <2>2 DEF Unregister, CheckLink, CheckAnswered, vars
<1> QED
  BY <1>1, <1>2, ClosingKeeps

LEMMA CheckUnansweredKeeps ==
  ASSUME IInv, OneWay, Calm, NEW d \in Dev, CheckUnanswered(d)
  PROVE  OneWay'
<1> DEFINE c == check[d].old
<1>0. TypeOK
  BY DEF IInv
<1>1. c \in Conns /\ end[d][c] \in {"open", "closed"}
  BY DEF CheckUnanswered, IInv, TypeOK, ProbeInfo, ProbedWasServed
<1>2. end[d][c] = "closed" \/ end[Peer(d)][c] = "closed"
  BY <1>1 DEF CheckUnanswered, Calm
<1>3. Decided(c) /\ ~Shared(c)
  BY <1>1, <1>2, AcceptedByBoth, TwoDevices DEF Shared
<1>4. end' = [end EXCEPT ![d][c] = "closed"] /\ UNCHANGED <<conn, plan, probe>>
  BY DEF CheckUnanswered
<1>5. \A e \in Dev, x \in Conns :
        \/ end'[e][x] = end[e][x]
        \/ end'[e][x] = "closed" /\ Decided(x) /\ ~Shared(x)
  BY <1>0, <1>1, <1>3, <1>4 DEF TypeOK
<1> QED
  BY <1>4, <1>5, ClosingKeeps

LEMMA UnansweredKeeps ==
  ASSUME IInv, OneWay, Calm, NEW d \in Dev, NEW c \in Conns,
         ProbeUnanswered(d, c) \/ PhoneProbeUnanswered(d, c)
  PROVE  OneWay'
<1> DEFINE old == probe[d][c].old
<1>0. TypeOK
  BY DEF IInv
<1>1. end[d][c] = "probing" /\ Unanswered(d, probe[d][c]) /\ conn' = conn
  BY DEF ProbeUnanswered, PhoneProbeUnanswered
<1>2. old \in Conns /\ old # c /\ end[d][old] \in {"open", "closed"} /\ ~Shared(old)
  BY <1>1, UnansweredIsGone
<1>3. ~NoProbe.late
  BY DEF NoProbe
<1>4. CASE Take(d, c, old) /\ ServedLate(d, c) /\ links[d] \in {None, old}
  <2>1. end[Peer(d)][c] # "open"
    BY <1>1, <1>4, NotTakenWhileServed
  <2>2. \A e \in Dev, x \in Conns : end[e][x] = "closed" => end'[e][x] = "closed"
    BY <1>0, <1>1, <1>4, TakeEnds
  <2>3. end'[Peer(d)] = end[Peer(d)]
    BY <1>0, <1>4, TwoDevices, TakeEnds
  <2>4. LateIsGone'
    <3> SUFFICES ASSUME NEW e \in Dev, NEW x \in Conns, probe'[e][x].late
                 PROVE  probe'[e][x].old # None /\ end'[e][probe'[e][x].old] = "closed"
      BY DEF LateIsGone
    <3>1. probe' = [probe EXCEPT
             ![d][c] = NoProbe,
             ![Peer(d)] = [y \in Conns |-> IF probe[Peer(d)][y].old = c
                             THEN [probe[Peer(d)][y] EXCEPT !.late = TRUE]
                             ELSE probe[Peer(d)][y]]]
      BY <1>0, <1>4, TwoDevices DEF ServedLate, TypeOK
    <3>2. CASE e = Peer(d) /\ probe[e][x].old = c
      <4>1. probe'[e][x] = [probe[e][x] EXCEPT !.late = TRUE]
        BY <1>0, <3>1, <3>2, TwoDevices DEF TypeOK
      <4>2. probe'[e][x].old = c
        BY <1>0, <3>2, <4>1, LateType DEF TypeOK
      <4>3. end[e][c] \in {"open", "closed"}
        BY <3>2, NoneIsNoConn DEF IInv, ProbedWasServed
      <4> QED
        BY <2>1, <2>3, <3>2, <4>2, <4>3, NoneIsNoConn
    <3>3. CASE ~(e = Peer(d) /\ probe[e][x].old = c)
      <4>1. probe'[e][x] = probe[e][x]
        BY <1>0, <1>3, <3>1, <3>3, TwoDevices DEF TypeOK
      <4>2. probe[e][x].old # None /\ end[e][probe[e][x].old] = "closed"
        BY <4>1 DEF OneWay, LateIsGone
      <4>3. probe[e][x].old \in Conns
        BY <1>0, <4>2 DEF TypeOK, ProbeInfo
      <4> QED
        BY <2>2, <4>1, <4>2, <4>3
    <3> QED
      BY <3>2, <3>3
  <2> QED
    BY <1>1, <1>2, <1>4, <2>4, TakingKeeps
<1>5. CASE /\ \/ end' = [end EXCEPT ![d][c] = "closed", ![d][old] = "closed"]
              \/ end' = [end EXCEPT ![d][c] = "closed"]
           /\ probe' = [probe EXCEPT ![d][c] = NoProbe]
           /\ plan' = plan
  <2>1. Decided(c) /\ ~Shared(c) /\ Decided(old)
    BY <1>1, <1>2, AcceptedByBoth DEF Shared
  <2>2. \A e \in Dev, x \in Conns :
          \/ end'[e][x] = end[e][x]
          \/ end'[e][x] = "closed" /\ x \in {c, old}
    BY <1>0, <1>2, <1>5 DEF TypeOK
  <2>3. \A e \in Dev, x \in Conns :
          probe'[e][x].late => probe[e][x].late /\ probe'[e][x].old = probe[e][x].old
    BY <1>0, <1>3, <1>5 DEF TypeOK
  <2> QED
    BY <1>1, <1>2, <1>5, <2>1, <2>2, <2>3, ClosingKeeps
<1> QED
  BY <1>4, <1>5 DEF ProbeUnanswered, PhoneProbeUnanswered, Refuse

LEMMA RegisterBetterKeeps ==
  ASSUME IInv, OneWay, Calm, NEW d \in Dev, NEW c \in Conns, RegisterBetter(d, c)
  PROVE  OneWay'
<1>0. TypeOK
  BY DEF IInv
<1>1. /\ Take(d, c, Current(d)) /\ end[d][c] = "hello" /\ UNCHANGED <<conn, probe>>
      /\ Current(d) # None => Better(c, Current(d))
  BY DEF RegisterBetter
<1>2. /\ Current(d) \in Conns \union {None}
      /\ Current(d) # None => Current(d) # c /\ end[d][Current(d)] = "open"
  BY <1>1, CurrentIsOpen DEF IInv
<1>3. ASSUME NEW e \in Dev, NEW x \in Conns, end[e][x] = "closed"
      PROVE  end'[e][x] = "closed"
  <2>1. CASE e # d
    BY <1>0, <1>1, <1>3, <2>1, TakeEnds
  <2>2. CASE e = d
    <3>1. x # c
      BY <1>1, <1>3, <2>2
    <3>2. x = Current(d) => end'[d][x] = "closed"
      BY <1>0, <1>1, <3>1, TakeEnds
    <3>3. x # Current(d) => end'[d][x] = end[d][x]
      BY <1>0, <1>1, <3>1, TakeEnds
    <3> QED
      BY <1>3, <2>2, <3>2, <3>3
  <2> QED
    BY <2>1, <2>2
<1>4. LateIsGone'
  <2>1. \A e \in Dev, x \in Conns : probe[e][x].old # None => probe[e][x].old \in Conns
    BY <1>0 DEF TypeOK, ProbeInfo
  <2> QED
    BY <1>1, <1>3, <2>1 DEF OneWay, LateIsGone
<1> QED
  BY <1>1, <1>2, <1>4, TakingKeeps

(* A connection that is probed for is not as good as the link.             *)
LEMMA RegisterProbesKeeps ==
  ASSUME IInv, OneWay, NEW d \in Dev, NEW c \in Conns, RegisterProbes(d, c)
  PROVE  OneWay'
<1> DEFINE o == Current(d)
<1>0. TypeOK
  BY DEF IInv
<1>1. /\ end' = [end EXCEPT ![d][c] = "probing"] /\ end[d][c] = "hello"
      /\ probe' = [probe EXCEPT ![d][c] = Probing(o)]
      /\ UNCHANGED <<plan, conn, links>> /\ ~Better(c, o)
  BY DEF RegisterProbes
<1>2. o \in Conns /\ o # c /\ end[d][o] = "open" /\ Decided(o)
  BY <1>1, CurrentIsOpen, AcceptedByBoth DEF RegisterProbes, IInv
<1>3. /\ end'[d][c] = "probing"
      /\ \A e \in Dev, x \in Conns : e # d \/ x # c => end'[e][x] = end[e][x]
  BY <1>0, <1>1 DEF TypeOK
<1>4. \A x \in Conns : x # c => (Shared(x)' <=> Shared(x)) /\ (Decided(x)' <=> Decided(x))
  BY <1>3 DEF Shared, Decided
<1>5. Shared(c) \/ ~Decided(c) => \E b \in Conns : Shared(b)' /\ Better(b, c)
  <2> SUFFICES ASSUME Shared(c) \/ ~Decided(c)
               PROVE  \E b \in Conns : b # c /\ Shared(b) /\ Better(b, c)
    BY <1>4
  <2>1. CASE Shared(o)
    <3>1. \A e \in Dev : Live(e, c)
      <4>1. CASE Shared(c)
        BY <4>1, SharedIsLive
      <4>2. CASE ~Decided(c)
        <5>1. \A e \in Dev : end[e][c] \notin {"none", "dialing"}
          BY <1>1, TwoDevices DEF OneWay, Met
        <5> QED
          BY <4>2, <5>1 DEF Decided, Live
      <4> QED
        BY <4>1, <4>2
    <3>2. Better(o, c)
      BY <1>0, <1>1, <1>2, <2>1, <3>1, SharedIsLive, SharedDiffer DEF OneWay
    <3> QED
      BY <1>2, <2>1, <3>2
  <2>2. CASE \E b \in Conns : Shared(b) /\ Better(b, o)
    <3>1. PICK b \in Conns : Shared(b) /\ Better(b, o)
      BY <2>2
    <3>2. Better(b, c)
      BY <1>0, <1>1, <1>2, <3>1, OrderFacts
    <3> QED
      BY <1>0, <3>1, <3>2, OrderFacts
  <2> QED
    BY <1>2, <2>1, <2>2 DEF OneWay, Ranked
<1>6. \A x \in Conns : Decided(x)' =>
        Decided(x) \/ Shared(x)' \/ \E b \in Conns : Shared(b)' /\ Better(b, x)
  BY <1>4, <1>5
<1>7. \A x \in Conns : Shared(x) => Shared(x)' \/ \E b \in Conns : Shared(b)' /\ Better(b, x)
  BY <1>4, <1>5
<1>8. Ranked'
  BY <1>0, <1>1, <1>6, <1>7, RankedKept DEF OneWay
<1>9. \A x \in Conns : conn[x].dialer \in Dev
  BY <1>0 DEF TypeOK, ConnInfo
<1>10. OneOfAKind' /\ PlansNew'
  <2>1. \A e \in Dev, x \in Conns : Live(e, x)' => Live(e, x)
    BY <1>1, <1>3 DEF Live
  <2>2. \A e \in Dev, x \in Conns : end'[e][x] = "open" => end[e][x] = "open"
    BY <1>3
  <2> QED
    BY <1>1, <1>9, <2>1, <2>2 DEF OneWay, OneOfAKind, PlansNew, Alike
<1>11. LateIsGone'
  <2>1. ~Probing(o).late
    BY DEF Probing
  <2>2. \A e \in Dev, x \in Conns :
          probe'[e][x].late => probe'[e][x] = probe[e][x]
    BY <1>0, <1>1, <2>1 DEF TypeOK
  <2>3. \A e \in Dev, x \in Conns : probe[e][x].old # None => probe[e][x].old \in Conns
    BY <1>0 DEF TypeOK, ProbeInfo
  <2>4. \A e \in Dev, x \in Conns : end[e][x] = "closed" => end'[e][x] = "closed"
    BY <1>1, <1>3
  <2> QED
    BY <2>2, <2>3, <2>4 DEF OneWay, LateIsGone
<1>12. Met'
  <2>1. \A e \in Dev, x \in Conns :
          /\ end'[e][x] \in {"none", "dialing"} <=> end[e][x] \in {"none", "dialing"}
          /\ end'[e][x] = "dialing" => end[e][x] = "dialing"
    BY <1>1, <1>3
  <2>2. Met
    BY DEF OneWay
  <2> QED
    BY <1>1, <2>1, <2>2, PeerIsDev DEF Met
<1> QED
  BY <1>8, <1>10, <1>11, <1>12 DEF OneWay

(* A connection nobody used yet is as Init left it, and a path stays dead. *)
Plain ==
  \A c \in Conns : end[Low][c] = "none" /\ end[High][c] = "none" => conn[c].by = "connector"

(* The next attempt tries no path like that of a link there is.            *)
LEMMA TickKeepsOneWay ==
  ASSUME IInv, OneWay, NEW d \in Dev, Tick(d)
  PROVE  OneWay'
<1>0. TypeOK /\ OneOpenLink
  BY DEF IInv
<1>1. UNCHANGED <<conn, end, links, net, probe>>
  BY DEF Tick
<1>2. Ranked' /\ OneOfAKind' /\ LateIsGone' /\ Met'
  BY <1>1 DEF OneWay, Ranked, OneOfAKind, LateIsGone, Met, Decided, Shared, Better, Live, Alike
<1>3. PlansNew'
  <2> SUFFICES ASSUME NEW e \in Dev, NEW c \in Conns, conn[c].dialer = e, end[e][c] = "open",
                      NEW t \in plan'[e]
               PROVE  ~Alike(t, conn[c])
    BY <1>1 DEF PlansNew, Alike
  <2>1. CASE e # d
    <3>1. t \in plan[e]
      BY <1>0, <2>1 DEF Tick, TypeOK
    <3> QED
      BY <3>1 DEF OneWay, PlansNew
  <2>2. CASE e = d
    <3>1. links[d] = c /\ c # None
      BY <1>0, <2>2, NoneIsNoConn DEF OneOpenLink
    <3>2. t \in Options(d)
      BY <1>0, <2>2 DEF Tick, TypeOK
    <3>3. /\ t.route = "direct"
          /\ \/ conn[c].route = "relay"
             \/ t.prio \in Prios /\ t.prio > conn[c].prio
      BY <3>1, <3>2 DEF Options
    <3>4. conn[c].prio \in Nat
      BY <1>0 DEF TypeOK, ConnInfo
    <3> QED
      BY <3>3, <3>4, PrioAssumption DEF Alike
  <2> QED
    BY <2>1, <2>2
<1> QED
  BY <1>2, <1>3 DEF OneWay

(* The connector dials one path at a time, and none it has a link on.      *)
LEMMA DialKeepsOneWay ==
  ASSUME IInv, OneWay, Calm, NEW d \in Dev, NEW c \in Conns,
         end[Low][c] = "none", end[High][c] = "none", ConnectorDials(d, c)
  PROVE  OneWay'
<1>0. TypeOK
  BY DEF IInv
<1>1. PICK t \in plan[d] : /\ NewConn(d, c, t, "connector")
                           /\ plan' = [plan EXCEPT ![d] = @ \ {t}]
  BY DEF ConnectorDials
<1>2. /\ conn'[c] = [dialer |-> d, route |-> t.route, prio |-> t.prio, by |-> "connector"]
      /\ \A x \in Conns : x # c => conn'[x] = conn[x]
      /\ end'[d][c] = "dialing"
      /\ \A e \in Dev, x \in Conns : e # d \/ x # c => end'[e][x] = end[e][x]
      /\ UNCHANGED probe
  BY <1>0, <1>1 DEF NewConn, TypeOK
<1>3. \A e \in Dev : end[e][c] = "none"
  BY DEF Dev
<1>4. ~Decided(c) /\ ~Decided(c)' /\ ~Shared(c) /\ ~Shared(c)'
  BY <1>2, <1>3, TwoDevices DEF Decided, Shared
<1>5. \A x \in Conns : (Decided(x)' <=> Decided(x)) /\ (Shared(x)' <=> Shared(x))
  BY <1>2, <1>4 DEF Decided, Shared
<1>6. \A x, y \in Conns : x # c /\ y # c => (Better(x, y)' <=> Better(x, y))
  BY <1>2 DEF Better
<1>7. Ranked'
  BY <1>4, <1>5, <1>6 DEF OneWay, Ranked
<1>8. \A x \in Conns : x # c /\ conn[x].dialer = d /\ Live(d, x) => ~Alike(t, conn[x])
  <2> SUFFICES ASSUME NEW x \in Conns, x # c, conn[x].dialer = d, Live(d, x)
               PROVE  ~Alike(t, conn[x])
    OBVIOUS
  <2>1. conn[x].by = "connector"
    BY DEF Calm
  <2>2. ~Pending(d, x)
    BY <2>1 DEF ConnectorDials
  <2>3. end[d][x] = "open"
    BY <2>2 DEF Live, Pending
  <2> QED
    BY <1>1, <2>3 DEF OneWay, PlansNew
<1>9. OneOfAKind'
  <2> SUFFICES ASSUME NEW x \in Conns, NEW y \in Conns, x # y,
                      conn'[x].dialer = conn'[y].dialer,
                      Live(conn[x].dialer, x)', Live(conn[x].dialer, y)'
               PROVE  ~Alike(conn'[x], conn'[y])
    BY DEF OneOfAKind, Alike
  <2>0. \A z \in Conns : conn[z].dialer \in Dev
    BY <1>0 DEF TypeOK, ConnInfo
  <2>1. \A e \in Dev, z \in Conns : z # c /\ Live(e, z)' => Live(e, z)
    BY <1>2 DEF Live
  <2>2. CASE x # c /\ y # c
    BY <1>2, <2>0, <2>1, <2>2 DEF OneWay, OneOfAKind
  <2>3. CASE x = c
    <3>1. y # c /\ conn[y].dialer = d /\ Live(d, y)
      BY <1>2, <2>1, <2>3
    <3>2. ~Alike(t, conn[y])
      BY <1>8, <3>1
    <3> QED
      BY <1>2, <2>3, <3>1, <3>2 DEF Alike
  <2>4. CASE y = c
    <3>1. x # c /\ conn[x].dialer = d /\ Live(d, x)
      BY <1>2, <2>1, <2>4
    <3>2. ~Alike(t, conn[x])
      BY <1>8, <3>1
    <3> QED
      BY <1>2, <2>4, <3>1, <3>2 DEF Alike
  <2> QED
    BY <2>2, <2>3, <2>4
<1>10. PlansNew'
  <2> SUFFICES ASSUME NEW e \in Dev, NEW x \in Conns, conn'[x].dialer = e,
                      end'[e][x] = "open", NEW u \in plan'[e]
               PROVE  ~Alike(u, conn'[x])
    BY DEF PlansNew, Alike
  <2>1. x # c /\ end[e][x] = "open" /\ conn'[x] = conn[x]
    BY <1>2, <1>3
  <2>2. u \in plan[e]
    BY <1>0, <1>1 DEF TypeOK
  <2> QED
    BY <2>1, <2>2 DEF OneWay, PlansNew
<1>11. LateIsGone'
  <2>1. \A e \in Dev, x \in Conns : end[e][x] = "closed" => end'[e][x] = "closed"
    BY <1>2, <1>3
  <2>2. \A e \in Dev, x \in Conns : probe[e][x].old # None => probe[e][x].old \in Conns
    BY <1>0 DEF TypeOK, ProbeInfo
  <2> QED
    BY <1>2, <2>1, <2>2 DEF OneWay, LateIsGone
<1>12. Met'
  <2> SUFFICES ASSUME NEW e \in Dev, NEW x \in Conns
               PROVE  /\ end'[e][x] \notin {"none", "dialing"}
                           => end'[Peer(e)][x] \notin {"none", "dialing"}
                      /\ end'[e][x] = "dialing" => conn'[x].dialer = e
    BY DEF Met
  <2>1. CASE x = c
    BY <1>2, <1>3, <2>1, TwoDevices
  <2>2. CASE x # c
    BY <1>2, <2>2, TwoDevices DEF OneWay, Met
  <2> QED
    BY <2>1, <2>2
<1> QED
  BY <1>7, <1>9, <1>10, <1>11, <1>12 DEF OneWay

LEMMA AcceptedKeepsOneWay ==
  ASSUME IInv, OneWay, NEW d \in Dev, NEW c \in Conns, Accepted(d, c)
  PROVE  OneWay'
<1>0. TypeOK
  BY DEF IInv
<1>1. /\ \A e \in Dev : end'[e][c] = "hello"
      /\ \A e \in Dev, x \in Conns : x # c => end'[e][x] = end[e][x]
      /\ UNCHANGED <<plan, conn, probe>>
  BY <1>0, TwoDevices DEF Accepted, TypeOK
<1>2. end[d][c] = "dialing" /\ end[Peer(d)][c] = "none"
  BY DEF Accepted, IInv, DialedAlone
<1>3. ~Decided(c) /\ ~Decided(c)' /\ ~Shared(c)
  BY <1>1, <1>2 DEF Decided, Shared
<1>4. \A x \in Conns : x # c => (Decided(x)' <=> Decided(x)) /\ (Shared(x)' <=> Shared(x))
  BY <1>1 DEF Decided, Shared
<1>5. Ranked'
  BY <1>0, <1>1, <1>3, <1>4, RankedKept DEF OneWay
<1>6. \A x \in Conns : conn[x].dialer \in Dev
  BY <1>0 DEF TypeOK, ConnInfo
<1>7. conn[c].dialer = d
  BY <1>2 DEF OneWay, Met
<1>8. \A x \in Conns : Live(conn[x].dialer, x)' => Live(conn[x].dialer, x)
  BY <1>1, <1>2, <1>6, <1>7 DEF Live
<1>9. \A x, y \in Conns : conn[x].dialer = conn[y].dialer /\ Live(conn[x].dialer, y)'
                            => Live(conn[x].dialer, y)
  BY <1>1, <1>8
<1>10. OneOfAKind'
  BY <1>1, <1>8, <1>9 DEF OneWay, OneOfAKind, Alike
<1>11. PlansNew'
  BY <1>1 DEF OneWay, PlansNew, Alike
<1>12. LateIsGone'
  <2>1. \A e \in Dev, x \in Conns : end[e][x] = "closed" => end'[e][x] = "closed"
    BY <1>1, <1>2, TwoDevices
  <2>2. \A e \in Dev, x \in Conns : probe[e][x].old # None => probe[e][x].old \in Conns
    BY <1>0 DEF TypeOK, ProbeInfo
  <2> QED
    BY <1>1, <2>1, <2>2 DEF OneWay, LateIsGone
<1>13. Met'
  <2>1. Met
    BY DEF OneWay
  <2> QED
    BY <1>1, <2>1, PeerIsDev DEF Met
<1> QED
  BY <1>5, <1>10, <1>11, <1>12, <1>13 DEF OneWay

(* Every step but a dial and a path that dies leaves those alone.          *)
StaysUsed == \A e \in Dev, x \in Conns : end'[e][x] = "none" => end[e][x] = "none"

LEMMA StepStaysUsed ==
  ASSUME IInv, NEW d \in Dev, NEW c \in Conns, Step(d, c)
  PROVE  UNCHANGED <<conn, path>> /\ StaysUsed
<1>0. TypeOK
  BY DEF IInv
<1>1. CASE Accepted(d, c)
  BY <1>0, <1>1, PeerIsDev DEF Accepted, StaysUsed, TypeOK
<1>2. CASE DialFails(d, c) \/ HelloFails(d, c) \/ ProbeAnswered(d, c) \/ ReadFails(d, c)
  <2>1. end' = [end EXCEPT ![d][c] = "closed"] /\ UNCHANGED <<conn, path>>
    BY <1>2 DEF DialFails, HelloFails, ProbeAnswered, Refuse, ReadFails
  <2> QED
    BY <1>0, <2>1 DEF StaysUsed, TypeOK
<1>3. CASE RegisterBetter(d, c)
  BY <1>0, <1>3, TakeEnds DEF RegisterBetter, StaysUsed
<1>4. CASE RegisterProbes(d, c)
  BY <1>0, <1>4 DEF RegisterProbes, StaysUsed, TypeOK
<1>5. CASE ProbeUnanswered(d, c) \/ PhoneProbeUnanswered(d, c)
  <2> DEFINE old == probe[d][c].old
  <2>1. CASE Take(d, c, old)
    BY <1>0, <1>5, <2>1, TakeEnds DEF ProbeUnanswered, PhoneProbeUnanswered, StaysUsed
  <2>2. CASE \/ end' = [end EXCEPT ![d][c] = "closed", ![d][old] = "closed"]
             \/ end' = [end EXCEPT ![d][c] = "closed"]
    <3>1. UNCHANGED <<conn, path>>
      BY <1>5 DEF ProbeUnanswered, PhoneProbeUnanswered
    <3>2. \A e \in Dev, x \in Conns : end'[e][x] \in {end[e][x], "closed"}
      <4>1. CASE end' = [end EXCEPT ![d][c] = "closed"]
        BY <1>0, <4>1 DEF TypeOK
      <4>2. CASE end' = [end EXCEPT ![d][c] = "closed", ![d][old] = "closed"]
        BY <1>0, <4>2 DEF TypeOK
      <4> QED
        BY <2>2, <4>1, <4>2
    <3> QED
      BY <3>1, <3>2 DEF StaysUsed
  <2> QED
    BY <1>5, <2>1, <2>2 DEF ProbeUnanswered, PhoneProbeUnanswered, Refuse
<1>6. CASE \E p \in Packets : Receive(d, c, p)
  BY <1>6 DEF Receive, StaysUsed
<1> QED
  BY <1>1, <1>2, <1>3, <1>4, <1>5, <1>6 DEF Step

LEMMA OthersStayUsed ==
  ASSUME IInv, [Next]_vars,
         \A d \in Dev, c \in Conns : ~Dial(d, c),
         \A c \in Conns : ~PathDies(c)
  PROVE  UNCHANGED <<conn, path>> /\ StaysUsed
<1>0. TypeOK
  BY DEF IInv
<1>1. ASSUME NEW d \in Dev, Tick(d) \/ Unregister(d) \/ CheckLink(d) \/ CheckAnswered(d)
      PROVE  UNCHANGED <<conn, path>> /\ StaysUsed
  BY <1>1 DEF Tick, Unregister, CheckLink, CheckAnswered, StaysUsed
<1>2. ASSUME NEW d \in Dev, CheckUnanswered(d)
      PROVE  UNCHANGED <<conn, path>> /\ StaysUsed
  BY <1>0, <1>2 DEF CheckUnanswered, StaysUsed, TypeOK
<1>3. CASE UNCHANGED vars
  BY <1>3 DEF vars, StaysUsed
<1> QED
  BY <1>1, <1>2, <1>3, StepStaysUsed DEF Next, DeviceStep

LEMMA DialIsNew ==
  ASSUME IInv, NEW d \in Dev, NEW c \in Conns, Dial(d, c)
  PROVE  /\ path' = path /\ end[Low][c] = "none" /\ end[High][c] = "none"
         /\ end'[d][c] = "dialing" /\ links' = links
         /\ \A x \in Conns : x # c => conn'[x] = conn[x]
         /\ \A e \in Dev, x \in Conns : e # d \/ x # c => end'[e][x] = end[e][x]
<1>1. PICK t, who : NewConn(d, c, t, who)
  BY DEF Dial, ConnectorDials, UserConnects
<1> QED
  BY <1>1 DEF Dial, NewConn, IInv, TypeOK

(* It is never calm again. *)
LEMMA CalmBefore ==
  ASSUME IInv, Plain, [Next]_vars, Calm'
  PROVE  Calm
<1>1. ASSUME NEW d \in Dev, NEW c \in Conns, Dial(d, c)
      PROVE  Calm
  <2>1. conn[c].by = "connector"
    BY <1>1 DEF Dial, Plain
  <2> QED
    BY <1>1, <2>1, DialIsNew DEF Calm
<1>2. ASSUME NEW c \in Conns, PathDies(c)
      PROVE  Calm
  BY <1>2 DEF PathDies, Calm, IInv, TypeOK
<1>3. CASE UNCHANGED <<conn, path>>
  BY <1>3 DEF Calm
<1> QED
  BY <1>1, <1>2, <1>3, OthersStayUsed

LEMMA PlainKept ==
  ASSUME IInv, Plain, [Next]_vars
  PROVE  Plain'
<1>0. Low \in Dev /\ High \in Dev
  BY DEF Dev
<1>1. ASSUME NEW d \in Dev, NEW c \in Conns, Dial(d, c)
      PROVE  Plain'
  <2>1. \A x \in Conns : end'[Low][x] = "none" /\ end'[High][x] = "none" => x # c
    BY <1>1, DialIsNew DEF Dev
  <2>2. \A e \in Dev, x \in Conns : x # c => end'[e][x] = end[e][x]
    BY <1>1, DialIsNew
  <2>3. \A x \in Conns : x # c => conn'[x] = conn[x]
    BY <1>1, DialIsNew
  <2> QED
    BY <1>0, <2>1, <2>2, <2>3 DEF Plain
<1>2. CASE UNCHANGED conn /\ StaysUsed
  BY <1>0, <1>2 DEF Plain, StaysUsed
<1>3. ASSUME NEW c \in Conns, PathDies(c)
      PROVE  Plain'
  BY <1>3 DEF PathDies, Plain
<1> QED
  BY <1>1, <1>2, <1>3, OthersStayUsed

(* The inductive invariant. *)
CInv == IInv /\ Plain /\ (Calm => OneWay)

LEMMA InitCInv == Init => CInv
<1> SUFFICES ASSUME Init PROVE CInv
  OBVIOUS
<1>1. \A e \in Dev, x \in Conns : end[e][x] = "none" /\ ~probe[e][x].late
  BY DEF Init, NoProbe
<1>2. \A x \in Conns : conn[x].by = "connector"
  BY DEF Init
<1>3. Plain
  BY <1>2 DEF Plain
<1>4. \A x \in Conns : conn[x].dialer \in Dev
  BY DEF Init, Dev
<1>5. \A x \in Conns : ~Decided(x)
  BY <1>1 DEF Decided, Dev
<1>6. OneWay
  BY <1>1, <1>4, <1>5 DEF OneWay, Ranked, OneOfAKind, PlansNew, LateIsGone, Met, Live
<1> QED
  BY <1>3, <1>6, InitIInv DEF CInv

LEMMA NextKeepsOneWay ==
  ASSUME IInv, Plain, OneWay, Calm, [Next]_vars, Calm'
  PROVE  OneWay'
<1>1. ASSUME NEW d \in Dev, NEW c \in Conns, Dial(d, c)
      PROVE  OneWay'
  <2>1. ~UserConnects(d, c)
    BY DEF UserConnects, NewConn, Calm, IInv, TypeOK
  <2> QED
    BY <1>1, <2>1, DialKeepsOneWay DEF Dial
<1>2. ASSUME NEW d \in Dev, NEW c \in Conns, Step(d, c)
      PROVE  OneWay'
  BY <1>2, AcceptedKeepsOneWay, CloseOneKeeps, RegisterBetterKeeps, RegisterProbesKeeps,
     UnansweredKeeps, CloseNoneKeeps DEF Step
<1>3. ASSUME NEW c \in Conns, PathDies(c)
      PROVE  FALSE
  BY <1>3 DEF PathDies, Calm, IInv, TypeOK
<1>4. CASE UNCHANGED vars
  <2>1. Low \in Dev
    BY DEF Dev
  <2> QED
    BY <1>4, <2>1, CloseNoneKeeps
<1>5. ASSUME NEW d \in Dev, Tick(d) \/ DeviceStep(d) \/ CheckLink(d)
      PROVE  OneWay'
  BY <1>2, <1>5, TickKeepsOneWay, CloseNoneKeeps, CheckUnansweredKeeps DEF DeviceStep
<1> QED
  BY <1>1, <1>3, <1>4, <1>5 DEF Next

LEMMA NextKeepsCInv == CInv /\ [Next]_vars => CInv'
  BY NextKeepsIInv, PlainKept, CalmBefore, NextKeepsOneWay DEF CInv

LEMMA AlwaysOneWay == Spec => []CInv
  BY InitCInv, NextKeepsCInv, PTL DEF Spec

(***************************************************************************)
(* The managers implement OneChannel.                                      *)
(***************************************************************************)
CurrentFacts ==
  /\ \A d \in Dev : Current(d) \in Conns \union {None}
  /\ \A d \in Dev, c \in Conns : Current(d) = c <=> end[d][c] = "open"

LEMMA CurrentIs == IInv => CurrentFacts
  BY NoneIsNoConn DEF Current, IInv, TypeOK, OneOpenLink, LinkWasServed, CurrentFacts

(* The channel is the best of what is shared, and no worse than anything   *)
(* one of the devices has decided about.                                   *)
ChannelFacts ==
  /\ \/ Channel = None /\ \A c \in Conns : ~Shared(c)
     \/ Channel \in Conns /\ Shared(Channel)
  /\ \A c \in Conns : Shared(c) \/ Decided(c) =>
       Channel \in Conns /\ (c = Channel \/ Better(Channel, c))
  /\ \A a, b \in Conns : ~(Better(a, b) /\ Better(b, a))

LEMMA ChannelIs == IInv /\ OneWay => ChannelFacts
<1> SUFFICES ASSUME IInv, OneWay PROVE ChannelFacts
  OBVIOUS
<1>0. TypeOK /\ OneOpenLink
  BY DEF IInv
<1>1. \A a, b \in Conns : ~(Better(a, b) /\ Better(b, a))
  BY <1>0, OrderFacts
<1>2. \A a, b \in Conns : Shared(a) /\ Shared(b) /\ a # b => Better(a, b) \/ Better(b, a)
  BY <1>0, SharedIsLive, SharedDiffer DEF OneWay
<1>3. \A c \in Conns : Shared(c) => c \in {links[Low], links[High]}
  BY <1>0 DEF Shared, OneOpenLink, Dev
<1>4. ASSUME NEW a \in Conns, Shared(a)
      PROVE  \E c \in Conns : IsBest(c)
  <2>1. CASE \A b \in Conns : Shared(b) => b = a
    BY <1>4, <2>1 DEF IsBest
  <2>2. CASE \E b \in Conns : Shared(b) /\ b # a
    <3>1. PICK b \in Conns : Shared(b) /\ b # a
      BY <2>2
    <3>2. \A x \in Conns : Shared(x) => x \in {a, b}
      BY <1>3, <1>4, <3>1
    <3>3. Better(a, b) \/ Better(b, a)
      BY <1>2, <1>4, <3>1
    <3>4. CASE Better(a, b)
      BY <1>4, <3>2, <3>4 DEF IsBest
    <3>5. CASE Better(b, a)
      BY <3>1, <3>2, <3>5 DEF IsBest
    <3> QED
      BY <3>3, <3>4, <3>5
  <2> QED
    BY <2>1, <2>2
<1>5. (\E c \in Conns : IsBest(c)) => Channel \in Conns /\ IsBest(Channel)
  BY DEF Channel
<1>6. ASSUME NEW c \in Conns, Shared(c)
      PROVE  Channel \in Conns /\ Shared(Channel) /\ (c = Channel \/ Better(Channel, c))
  <2>1. Channel \in Conns /\ IsBest(Channel)
    BY <1>4, <1>5, <1>6
  <2> QED
    BY <1>6, <2>1 DEF IsBest
<1>7. ASSUME NEW c \in Conns, Decided(c)
      PROVE  Channel \in Conns /\ (c = Channel \/ Better(Channel, c))
  <2>1. CASE Shared(c)
    BY <1>6, <2>1
  <2>2. CASE \E b \in Conns : Shared(b) /\ Better(b, c)
    <3>1. PICK b \in Conns : Shared(b) /\ Better(b, c)
      BY <2>2
    <3>2. Channel \in Conns /\ (b = Channel \/ Better(Channel, b))
      BY <1>6, <3>1
    <3> QED
      BY <1>0, <3>1, <3>2, OrderFacts
  <2> QED
    BY <1>7, <2>1, <2>2 DEF OneWay, Ranked
<1>8. \/ Channel = None /\ \A c \in Conns : ~Shared(c)
      \/ Channel \in Conns /\ Shared(Channel)
  <2>1. CASE \E c \in Conns : Shared(c)
    BY <1>6, <2>1
  <2>2. CASE \A c \in Conns : ~Shared(c)
    BY <2>2 DEF Channel, IsBest
  <2> QED
    BY <2>1, <2>2
<1> QED
  BY <1>1, <1>6, <1>7, <1>8 DEF ChannelFacts

LEMMA CurrentIsNext == IInv' => CurrentFacts'
  BY CurrentIs, PTL
LEMMA ChannelIsNext == IInv' /\ OneWay' => ChannelFacts'
  BY ChannelIs, PTL

(* The channel stays while the best that is shared stays shared.           *)
LEMMA SameChannel ==
  ASSUME ChannelFacts, ChannelFacts',
         \A x \in Conns : Shared(x)' => Shared(x),
         \A x \in Conns : x = Channel => Shared(x)',
         \A x, y \in Conns : Shared(x) /\ Shared(y) => (Better(x, y)' <=> Better(x, y))
  PROVE  Channel' = Channel
<1>1. CASE Channel = None /\ \A c \in Conns : ~Shared(c)
  BY <1>1 DEF ChannelFacts
<1>2. CASE Channel \in Conns /\ Shared(Channel)
  <2>1. PICK o \in Conns : o = Channel
    BY <1>2
  <2>2. Shared(o) /\ Shared(o)'
    BY <1>2, <2>1
  <2>3. Channel' \in Conns /\ (o = Channel' \/ Better(Channel, o)')
    BY <2>2 DEF ChannelFacts
  <2>4. PICK n \in Conns : n = Channel'
    BY <2>3
  <2>5. Shared(n)' /\ (o = n \/ Better(n, o)')
    BY <2>2, <2>3, <2>4, NoneIsNoConn DEF ChannelFacts
  <2>6. Shared(n) /\ (n = o \/ Better(o, n))
    BY <2>1, <2>5 DEF ChannelFacts
  <2>7. o = n \/ Better(n, o)
    BY <2>2, <2>5, <2>6
  <2> QED
    BY <2>1, <2>4, <2>6, <2>7 DEF ChannelFacts
<1> QED
  BY <1>1, <1>2 DEF ChannelFacts

Using == [d \in Dev |-> Current(d)]
Gone  == [d \in Dev |-> {c \in Conns : end[d][c] = "closed"}]

LEMMA UsingIs ==
  ASSUME CurrentFacts, CurrentFacts', NEW d \in Dev, NEW c \in Conns \union {None},
         Current(d)' = c,
         \A e \in Dev, x \in Conns : e # d => (end'[e][x] = "open" <=> end[e][x] = "open")
  PROVE  Using' = [Using EXCEPT ![d] = c]
<1>1. \A e \in Dev : e # d => Current(e)' = Current(e)
  BY NoneIsNoConn DEF CurrentFacts
<1> QED
  BY <1>1 DEF Using

(* The first to serve a better connection moves the channel, the other     *)
(* follows.                                                                *)
LEMMA TakeServes ==
  ASSUME IInv, OneWay, Calm, IInv', OneWay', UNCHANGED <<conn, path>>,
         NEW d \in Dev, NEW c \in Conns, NEW old \in Conns \union {None}, Take(d, c, old),
         end[d][c] \in {"hello", "probing"},
         old # None => old # c /\ end[d][old] \in {"open", "closed"},
         Current(d) \in {None, old}
  PROVE  Promise!Serve(d, c)
<1>0. /\ TypeOK
      /\ CurrentFacts /\ CurrentFacts' /\ ChannelFacts /\ ChannelFacts'
  BY CurrentIs, CurrentIsNext, ChannelIs, ChannelIsNext DEF IInv
<1>1. /\ end'[d][c] = "open"
      /\ \A x \in Conns : x # c /\ x = old => end'[d][x] = "closed"
      /\ \A x \in Conns : x # c /\ x # old => end'[d][x] = end[d][x]
      /\ \A e \in Dev : e # d => end'[e] = end[e]
  BY <1>0, TakeEnds
<1>2. \A a, b \in Conns : Better(a, b)' <=> Better(a, b)
  BY DEF Better
<1>3. \A x \in Conns : Decided(x) => Decided(x)'
  BY <1>1, NoneIsNoConn DEF Decided
<1>4. \A e \in Dev : end'[e][c] \notin {"none", "dialing"}
  BY <1>1, TwoDevices DEF OneWay, Met
<1>5. Decided(c)'
  BY <1>1, <1>4 DEF Decided
<1>6. Channel' \in Conns /\ (c = Channel' \/ Better(Channel, c)')
  BY <1>0, <1>5 DEF ChannelFacts
<1>7. PICK n \in Conns : n = Channel'
  BY <1>6
<1>8. Shared(n)' /\ (c = n \/ Better(n, c))
  BY <1>0, <1>2, <1>6, <1>7, NoneIsNoConn DEF ChannelFacts
<1>9. \A x \in Conns : Decided(x) \/ Shared(x) => n = x \/ Better(n, x)
  <2>1. \A x \in Conns : Shared(x) => Decided(x)
    BY DEF Shared, Decided
  <2> QED
    BY <1>0, <1>2, <1>3, <1>7, <2>1 DEF ChannelFacts
<1>10. Current(d) # c /\ end[d][c] # "closed"
  BY <1>0 DEF CurrentFacts
<1>11. Channel = None \/ (Channel \in Conns /\ Shared(Channel))
  BY <1>0 DEF ChannelFacts
<1>12. \/ /\ n = c /\ \A e \in Dev : end[e][c] # "closed"
          /\ Channel # None => Better(c, Channel)
       \/ n = Channel /\ Channel # None /\ (c = Channel \/ Better(Channel, c))
  <2>1. CASE n = c
    <3>1. \A e \in Dev : end[e][c] # "closed"
      BY <1>1, <1>8, <1>10, <2>1 DEF Shared
    <3>2. Channel # None => Channel = c \/ Better(c, Channel)
      BY <1>9, <1>11, <2>1
    <3> QED
      BY <2>1, <3>1, <3>2, NoneIsNoConn
  <2>2. CASE n # c
    <3>1. n # old
      BY <1>1, <1>8, <2>2 DEF Shared
    <3>2. Shared(n)
      BY <1>1, <1>8, <2>2, <3>1 DEF Shared
    <3>3. Channel \in Conns /\ (n = Channel \/ Better(Channel, n))
      BY <1>0, <3>2 DEF ChannelFacts
    <3>4. n = Channel
      BY <1>0, <1>9, <1>11, <3>3, NoneIsNoConn DEF ChannelFacts
    <3> QED
      BY <1>8, <2>2, <3>3, <3>4, NoneIsNoConn
  <2> QED
    BY <2>1, <2>2
<1>13. Current(d) # None => Current(d) \in Conns /\ Better(n, Current(d))
  <2> SUFFICES ASSUME Current(d) # None
               PROVE  Current(d) \in Conns /\ Better(n, Current(d))
    OBVIOUS
  <2>1. PICK o \in Conns : o = Current(d)
    BY <1>0 DEF CurrentFacts
  <2>2. end[d][o] = "open" /\ o = old /\ o # c
    BY <1>0, <1>10, <2>1 DEF CurrentFacts
  <2>3. end'[d][o] = "closed"
    BY <1>1, <2>2
  <2>4. n # o
    BY <1>8, <2>3 DEF Shared
  <2>5. Decided(o)
    BY <2>2, AcceptedByBoth
  <2> QED
    BY <1>9, <2>1, <2>4, <2>5
<1>14. Using' = [Using EXCEPT ![d] = c]
  <2>1. Current(d)' = c
    BY <1>0, <1>1 DEF CurrentFacts
  <2> QED
    BY <1>0, <1>1, <2>1, UsingIs
<1>15. Gone' = [Gone EXCEPT ![d] = @ \union ({Current(d)} \ {None})]
  <2>1. \A e \in Dev : e # d => Gone'[e] = Gone[e]
    BY <1>1 DEF Gone
  <2>2. \A x \in Conns : end'[d][x] = "closed" <=> end[d][x] = "closed" \/ x = Current(d)
    BY <1>0, <1>1, <1>10, NoneIsNoConn DEF CurrentFacts
  <2>3. Gone'[d] = Gone[d] \union ({Current(d)} \ {None})
    BY <1>0, <2>2, NoneIsNoConn DEF Gone, CurrentFacts
  <2> QED
    BY <2>1, <2>3 DEF Gone
<1>16. Calm' <=> Calm
  BY DEF Calm
<1>17. Using[d] = Current(d) /\ \A e \in Dev : Gone[e] = {x \in Conns : end[e][x] = "closed"}
  BY DEF Using, Gone
<1> QED
  BY <1>7, <1>10, <1>11, <1>12, <1>13, <1>14, <1>15, <1>16, <1>17
  DEF Promise!Serve, Using, Gone

(* A device gives up only what has a better channel.                       *)
LEMMA ClosingGivesUp ==
  ASSUME IInv, OneWay, Calm, IInv', OneWay', UNCHANGED <<conn, path>>,
         NEW d \in Dev, NEW c \in Conns, Decided(c), ~Shared(c), end[d][c] # "closed",
         end' = [end EXCEPT ![d][c] = "closed"]
  PROVE  Promise!GiveUp(d, c)
<1>0. /\ TypeOK /\ OneOpenLink
      /\ CurrentFacts /\ CurrentFacts' /\ ChannelFacts /\ ChannelFacts'
  BY CurrentIs, CurrentIsNext, ChannelIs, ChannelIsNext DEF IInv
<1>1. /\ end'[d][c] = "closed"
      /\ \A e \in Dev, x \in Conns : e # d \/ x # c => end'[e][x] = end[e][x]
  BY <1>0 DEF TypeOK
<1>2. Channel' = Channel
  <2>1. ~Shared(c)'
    BY <1>1 DEF Shared
  <2>2. \A x \in Conns : Shared(x)' <=> Shared(x)
    BY <1>1, <2>1 DEF Shared
  <2>3. \A x, y \in Conns : Better(x, y)' <=> Better(x, y)
    BY DEF Better
  <2>4. \A x \in Conns : x = Channel => Shared(x)
    BY <1>0, NoneIsNoConn DEF ChannelFacts
  <2> QED
    BY <1>0, <2>2, <2>3, <2>4, SameChannel
<1>3. Channel \in Conns /\ Better(Channel, c)
  BY <1>0, NoneIsNoConn DEF ChannelFacts
<1>4. Using' = IF Current(d) = c THEN [Using EXCEPT ![d] = None] ELSE Using
  <2>1. CASE Current(d) = c
    <3>1. \A x \in Conns : end'[d][x] # "open"
      BY <1>0, <1>1, <2>1 DEF CurrentFacts, OneOpenLink
    <3>2. Current(d)' = None
      BY <1>0, <3>1 DEF CurrentFacts
    <3>3. Using' = [Using EXCEPT ![d] = None]
      BY <1>0, <1>1, <3>2, UsingIs
    <3> QED
      BY <2>1, <3>3
  <2>2. CASE Current(d) # c
    <3>1. \A e \in Dev, x \in Conns : end'[e][x] = "open" <=> end[e][x] = "open"
      BY <1>0, <1>1, <2>2 DEF CurrentFacts
    <3>2. \A e \in Dev : Current(e)' = Current(e)
      BY <1>0, <3>1, NoneIsNoConn DEF CurrentFacts
    <3> QED
      BY <2>2, <3>2 DEF Using
  <2> QED
    BY <2>1, <2>2
<1>5. Gone' = [Gone EXCEPT ![d] = @ \union {c}]
  <2>1. \A e \in Dev : e # d => Gone'[e] = Gone[e]
    BY <1>1 DEF Gone
  <2>2. Gone'[d] = Gone[d] \union {c}
    BY <1>1 DEF Gone
  <2> QED
    BY <2>1, <2>2 DEF Gone
<1>6. Calm' <=> Calm
  BY DEF Calm
<1>7. Using[d] = Current(d) /\ \A e \in Dev : Gone[e] = {x \in Conns : end[e][x] = "closed"}
  BY DEF Using, Gone
<1> QED
  BY <1>2, <1>3, <1>4, <1>5, <1>6, <1>7 DEF Promise!GiveUp, Using, Gone

(* Nothing but a register and a close is seen.                             *)
LEMMA Stutters ==
  ASSUME IInv, IInv', Calm, Calm', Channel' = Channel,
         \A e \in Dev, x \in Conns :
           /\ end'[e][x] = "open" <=> end[e][x] = "open"
           /\ end'[e][x] = "closed" <=> end[e][x] = "closed"
  PROVE  UNCHANGED Promise!channelVars
<1>0. CurrentFacts /\ CurrentFacts'
  BY CurrentIs, CurrentIsNext
<1>1. \A e \in Dev : Current(e)' = Current(e)
  BY <1>0, NoneIsNoConn DEF CurrentFacts
<1>2. Using' = Using
  BY <1>1 DEF Using
<1>3. Gone' = Gone
  BY DEF Gone
<1>4. Calm' <=> Calm
  OBVIOUS
<1> QED
  BY <1>2, <1>3, <1>4 DEF Promise!channelVars, Using, Gone

LEMMA IdleStutters ==
  ASSUME IInv, OneWay, Calm, IInv', OneWay', Calm', UNCHANGED <<conn, end>>
  PROVE  UNCHANGED Promise!channelVars
<1>0. ChannelFacts /\ ChannelFacts'
  BY ChannelIs, ChannelIsNext
<1>1. \A x \in Conns : Shared(x)' <=> Shared(x)
  BY DEF Shared
<1>2. \A x, y \in Conns : Better(x, y)' <=> Better(x, y)
  BY DEF Better
<1>3. \A x \in Conns : x = Channel => Shared(x)
  BY <1>0, NoneIsNoConn DEF ChannelFacts
<1>4. Channel' = Channel
  BY <1>0, <1>1, <1>2, <1>3, SameChannel
<1> QED
  BY <1>4, Stutters

(* A connection that is dialed, accepted or probed for is not the channel. *)
LEMMA EnteringStutters ==
  ASSUME IInv, OneWay, Calm, IInv', OneWay', Calm', NEW c \in Conns,
         \A x \in Conns : x # c => conn'[x] = conn[x],
         \A e \in Dev, x \in Conns : x # c => end'[e][x] = end[e][x],
         \A e \in Dev : /\ end'[e][c] = "open" <=> end[e][c] = "open"
                        /\ end'[e][c] = "closed" <=> end[e][c] = "closed",
         ~Shared(c)',
         Shared(c) => Decided(c)' /\ conn' = conn
  PROVE  UNCHANGED Promise!channelVars
<1>0. ChannelFacts /\ ChannelFacts'
  BY ChannelIs, ChannelIsNext
<1>1. \A x \in Conns : x # c => (Shared(x)' <=> Shared(x))
  BY DEF Shared
<1>2. ASSUME Shared(c), Channel = c
      PROVE  FALSE
  <2>1. Channel' \in Conns /\ Shared(Channel)' /\ Better(Channel, c)'
    BY <1>0, <1>2, NoneIsNoConn DEF ChannelFacts
  <2>2. PICK n \in Conns : n = Channel'
    BY <2>1
  <2>3. n # c /\ Shared(n)' /\ Better(n, c)'
    BY <2>1, <2>2
  <2>4. Shared(n) /\ Better(n, c)
    BY <1>1, <1>2, <2>3 DEF Better
  <2> QED
    BY <1>0, <1>2, <2>3, <2>4 DEF ChannelFacts
<1>3. \A x \in Conns : x = Channel => Shared(x)'
  BY <1>0, <1>1, <1>2, NoneIsNoConn DEF ChannelFacts
<1>4. \A x, y \in Conns : Shared(x) /\ Shared(y) => (Better(x, y)' <=> Better(x, y))
  BY DEF Better
<1>5. Channel' = Channel
  BY <1>0, <1>1, <1>3, <1>4, SameChannel
<1> QED
  BY <1>5, Stutters

(* The states before and after a step while it is calm.                    *)
CalmStep == /\ IInv /\ OneWay /\ Calm /\ IInv' /\ OneWay' /\ Calm'
OneStep  == [Promise!Next]_(Promise!channelVars)

LEMMA DialMaps ==
  ASSUME CalmStep, NEW d \in Dev, NEW c \in Conns, Dial(d, c)
  PROVE  OneStep
<1>1. /\ \A x \in Conns : x # c => conn'[x] = conn[x]
      /\ \A e \in Dev, x \in Conns : x # c => end'[e][x] = end[e][x]
      /\ \A e \in Dev : end[e][c] = "none" /\ end'[e][c] \in {"none", "dialing"}
  BY DialIsNew DEF CalmStep, Dev
<1>2. ~Shared(c) /\ ~Shared(c)'
  BY <1>1, TwoDevices DEF Shared
<1>3. \A e \in Dev : /\ end'[e][c] = "open" <=> end[e][c] = "open"
                     /\ end'[e][c] = "closed" <=> end[e][c] = "closed"
  BY <1>1
<1>4. UNCHANGED Promise!channelVars
  BY <1>1, <1>2, <1>3, EnteringStutters DEF CalmStep
<1> QED
  BY <1>4 DEF OneStep

LEMMA AcceptedMaps ==
  ASSUME CalmStep, NEW d \in Dev, NEW c \in Conns, Accepted(d, c)
  PROVE  OneStep
<1>0. TypeOK
  BY DEF CalmStep, IInv
<1>1. /\ \A e \in Dev : end'[e][c] = "hello"
      /\ \A e \in Dev, x \in Conns : x # c => end'[e][x] = end[e][x]
      /\ conn' = conn
  BY <1>0, TwoDevices DEF Accepted, TypeOK
<1>2. \A e \in Dev : end[e][c] \in {"none", "dialing"}
  BY TwoDevices DEF CalmStep, Accepted, IInv, DialedAlone
<1>3. ~Shared(c) /\ ~Shared(c)'
  BY <1>1, <1>2, TwoDevices DEF Shared
<1>4. \A e \in Dev : /\ end'[e][c] = "open" <=> end[e][c] = "open"
                     /\ end'[e][c] = "closed" <=> end[e][c] = "closed"
  BY <1>1, <1>2
<1>5. UNCHANGED Promise!channelVars
  BY <1>1, <1>3, <1>4, EnteringStutters DEF CalmStep
<1> QED
  BY <1>5 DEF OneStep

LEMMA RegisterProbesMaps ==
  ASSUME CalmStep, NEW d \in Dev, NEW c \in Conns, RegisterProbes(d, c)
  PROVE  OneStep
<1>1. /\ end[d][c] = "hello" /\ end'[d][c] = "probing" /\ conn' = conn
      /\ \A e \in Dev, x \in Conns : e # d \/ x # c => end'[e][x] = end[e][x]
  BY DEF CalmStep, IInv, TypeOK, RegisterProbes
<1>2. ~Shared(c)'
  BY <1>1 DEF Shared
<1>3. Shared(c) => Decided(c)'
  BY <1>1 DEF Shared, Decided
<1>4. \A e \in Dev : /\ end'[e][c] = "open" <=> end[e][c] = "open"
                     /\ end'[e][c] = "closed" <=> end[e][c] = "closed"
  BY <1>1
<1>5. UNCHANGED Promise!channelVars
  BY <1>1, <1>2, <1>3, <1>4, EnteringStutters DEF CalmStep
<1> QED
  BY <1>5 DEF OneStep

LEMMA CloseOneMaps ==
  ASSUME CalmStep, NEW d \in Dev, NEW c \in Conns,
         HelloFails(d, c) \/ ProbeAnswered(d, c) \/ ReadFails(d, c)
  PROVE  OneStep
<1>1. /\ end' = [end EXCEPT ![d][c] = "closed"] /\ UNCHANGED <<conn, path>>
      /\ end[d][c] \in {"hello", "probing", "open"}
      /\ end[d][c] = "probing" \/ end[Peer(d)][c] = "closed"
  BY DEF CalmStep, Calm, HelloFails, ProbeAnswered, ReadFails, Refuse
<1>2. Decided(c) /\ ~Shared(c)
  BY <1>1, AcceptedByBoth, TwoDevices DEF Shared, CalmStep
<1>3. Promise!GiveUp(d, c)
  BY <1>1, <1>2, ClosingGivesUp DEF CalmStep
<1> QED
  BY <1>3 DEF OneStep, Promise!Next

LEMMA UnansweredMaps ==
  ASSUME CalmStep, NEW d \in Dev, NEW c \in Conns,
         ProbeUnanswered(d, c) \/ PhoneProbeUnanswered(d, c)
  PROVE  OneStep
<1> DEFINE old == probe[d][c].old
<1>0. TypeOK /\ OneOpenLink /\ CurrentFacts
  BY CurrentIs DEF CalmStep, IInv
<1>1. end[d][c] = "probing" /\ Unanswered(d, probe[d][c]) /\ UNCHANGED <<conn, path>>
  BY DEF ProbeUnanswered, PhoneProbeUnanswered
<1>2. old \in Conns /\ old # c /\ end[d][old] \in {"open", "closed"}
  BY <1>1, UnansweredIsGone DEF CalmStep
<1>3. CASE Take(d, c, old) /\ links[d] \in {None, old}
  <2>1. Current(d) \in {None, old}
    BY <1>3 DEF Current
  <2>2. Promise!Serve(d, c)
    BY <1>1, <1>2, <1>3, <2>1, TakeServes DEF CalmStep
  <2> QED
    BY <2>2 DEF OneStep, Promise!Next
<1>4. CASE end' = [end EXCEPT ![d][c] = "closed"]
  <2>1. Decided(c) /\ ~Shared(c)
    BY <1>1, AcceptedByBoth DEF Shared, CalmStep
  <2>2. Promise!GiveUp(d, c)
    BY <1>1, <1>4, <2>1, ClosingGivesUp DEF CalmStep
  <2> QED
    BY <2>2 DEF OneStep, Promise!Next
<1>5. CASE end' = [end EXCEPT ![d][c] = "closed", ![d][old] = "closed"] /\ links[d] # old
  <2>1. end[d][old] = "closed"
    BY <1>0, <1>2, <1>5 DEF OneOpenLink
  <2>2. [end EXCEPT ![d][c] = "closed", ![d][old] = "closed"] = [end EXCEPT ![d][c] = "closed"]
    BY <1>0, <1>2, <2>1 DEF TypeOK
  <2> QED
    BY <1>4, <1>5, <2>2
<1> QED
  BY <1>3, <1>4, <1>5 DEF ProbeUnanswered, PhoneProbeUnanswered, Refuse

LEMMA StepMaps ==
  ASSUME CalmStep, NEW d \in Dev, NEW c \in Conns, Step(d, c)
  PROVE  OneStep
<1>1. CASE RegisterBetter(d, c)
  <2>1. /\ Take(d, c, Current(d)) /\ end[d][c] = "hello" /\ UNCHANGED <<conn, path>>
        /\ Current(d) \in Conns \union {None}
        /\ Current(d) # None => end[d][Current(d)] = "open" /\ Current(d) # c
    BY <1>1, CurrentIsOpen DEF RegisterBetter, CalmStep, IInv
  <2>2. Promise!Serve(d, c)
    BY <2>1, TakeServes DEF CalmStep
  <2> QED
    BY <2>2 DEF OneStep, Promise!Next
<1>2. CASE \E p \in Packets : Receive(d, c, p)
  <2>1. UNCHANGED <<conn, end>>
    BY <1>2 DEF Receive
  <2> QED
    BY <2>1, IdleStutters DEF CalmStep, OneStep
<1>3. ~DialFails(d, c)
  BY DEF CalmStep, Calm, DialFails
<1> QED
  BY <1>1, <1>2, <1>3, AcceptedMaps, RegisterProbesMaps, CloseOneMaps, UnansweredMaps DEF Step

LEMMA DeviceMaps ==
  ASSUME CalmStep, NEW d \in Dev, Tick(d) \/ DeviceStep(d) \/ CheckLink(d)
  PROVE  OneStep
<1>1. CASE Tick(d) \/ Unregister(d) \/ CheckLink(d) \/ CheckAnswered(d)
  <2>1. UNCHANGED <<conn, end>>
    BY <1>1 DEF Tick, Unregister, CheckLink, CheckAnswered
  <2> QED
    BY <2>1, IdleStutters DEF CalmStep, OneStep
<1>2. CASE CheckUnanswered(d)
  <2>0. PICK c \in Conns : c = check[d].old
    BY <1>2 DEF CheckUnanswered, CalmStep, IInv, TypeOK, ProbeInfo
  <2>1. end[d][c] \in {"open", "closed"} /\ UNCHANGED <<conn, path>>
    BY <1>2, <2>0, NoneIsNoConn DEF CheckUnanswered, CalmStep, IInv, ProbedWasServed
  <2>2. end' = [end EXCEPT ![d][c] = "closed"]
    BY <1>2, <2>0 DEF CheckUnanswered
  <2>3. CASE end[d][c] = "closed"
    <3>1. end' = end
      BY <2>1, <2>2, <2>3 DEF CalmStep, IInv, TypeOK
    <3> QED
      BY <2>1, <3>1, IdleStutters DEF CalmStep, OneStep
  <2>4. CASE end[d][c] = "open"
    <3>1. end[Peer(d)][c] = "closed"
      BY <1>2, <2>0, <2>4 DEF CheckUnanswered, CalmStep, Calm
    <3>2. Decided(c) /\ ~Shared(c)
      BY <2>1, <2>4, <3>1, AcceptedByBoth, TwoDevices DEF Shared, CalmStep
    <3>3. Promise!GiveUp(d, c)
      BY <2>1, <2>2, <2>4, <3>2, ClosingGivesUp DEF CalmStep
    <3> QED
      BY <2>1, <3>3 DEF OneStep, Promise!Next
  <2> QED
    BY <2>1, <2>3, <2>4
<1>3. ASSUME NEW c \in Conns, Step(d, c)
      PROVE  OneStep
  BY <1>3, StepMaps
<1> QED
  BY <1>1, <1>2, <1>3 DEF DeviceStep

LEMMA NextMaps ==
  ASSUME CInv, CInv', [Next]_vars
  PROVE  OneStep
<1>1. CASE Calm'
  <2>1. CalmStep
    BY <1>1, CalmBefore DEF CInv, CalmStep
  <2>2. CASE UNCHANGED vars
    <3>1. UNCHANGED <<conn, end>>
      BY <2>2 DEF vars
    <3> QED
      BY <2>1, <3>1, IdleStutters DEF CalmStep, OneStep
  <2>3. ASSUME NEW c \in Conns, PathDies(c)
        PROVE  FALSE
    BY <1>1, <2>3 DEF PathDies, Calm, CInv, IInv, TypeOK
  <2> QED
    BY <2>1, <2>2, <2>3, DialMaps, DeviceMaps DEF Next
<1>2. CASE ~Calm'
  <2>1. Calm' = FALSE
    BY <1>2
  <2>2. Promise!Disturbed
    BY <2>1 DEF Promise!Disturbed
  <2> QED
    BY <2>2 DEF OneStep, Promise!Next
<1> QED
  BY <1>1, <1>2

LEMMA InitMaps == Init => Promise!Init
<1> SUFFICES ASSUME Init PROVE Promise!Init
  OBVIOUS
<1>1. \A d \in Dev : /\ links[d] = None
                     /\ \A c \in Conns : end[d][c] = "none"
  BY DEF Init
<1>2. \A c \in Conns : ~IsBest(c)
  BY <1>1 DEF IsBest, Shared
<1>3. Channel = None
  BY <1>2 DEF Channel
<1>4. \A d \in Dev : Current(d) = None /\ {c \in Conns : end[d][c] = "closed"} = {}
  BY <1>1 DEF Current
<1>5. Calm = TRUE
  BY DEF Init, Calm
<1> QED
  BY <1>3, <1>4, <1>5 DEF Promise!Init

(* link.go: until a path dies or a user dials, the two devices keep one    *)
(* channel, whatever the order in which they dial, register and probe.     *)
THEOREM LinksAreOneChannel == Spec => IsOneChannel
<1>1. CInv /\ CInv' /\ [Next]_vars => [Promise!Next]_(Promise!channelVars)
  BY NextMaps DEF OneStep
<1> QED
  BY <1>1, AlwaysOneWay, InitMaps, PTL DEF Spec, IsOneChannel, Promise!Spec

(* What both serve is the channel. *)
LEMMA BothOpenIsChannel ==
  ASSUME IInv, OneWay, NEW c \in Conns, BothOpen(c)
  PROVE  Channel = c
<1>0. ChannelFacts /\ OneOpenLink
  BY ChannelIs DEF IInv
<1>1. Shared(c)
  BY TwoDevices DEF BothOpen, Shared, Dev
<1>2. Channel \in Conns /\ Shared(Channel)
  BY <1>0, <1>1 DEF ChannelFacts
<1>3. PICK d \in Dev : end[d][Channel] = "open"
  BY <1>2 DEF Shared
<1> QED
  BY <1>0, <1>2, <1>3 DEF OneOpenLink, BothOpen

LEMMA WorkingLinkStep ==
  ASSUME CInv, CInv', [Next]_vars, Calm, NEW c \in Conns, BothOpen(c), ~BothOpen(c)'
  PROVE  \E d \in Dev : end[d][c]' = "closed" /\ links'[d] # c /\ Better(links'[d], c)
<1>0. /\ TypeOK /\ OneOpenLink /\ OneOpenLink' /\ OneWay /\ IInv /\ IInv'
      /\ CurrentFacts /\ CurrentFacts'
  BY CurrentIs, CurrentIsNext DEF CInv, IInv
<1>1. Channel = c /\ ~Better(c, c)
  BY <1>0, BothOpenIsChannel, OrderFacts
<1>2. \A d \in Dev : Current(d) = c
  BY <1>0 DEF BothOpen, CurrentFacts
<1>3. \E d \in Dev : Current(d)' # c
  BY <1>0 DEF BothOpen, CurrentFacts, OneOpenLink
<1>4. Using[Low] = c /\ Using[High] = c
  BY <1>2 DEF Using, Dev
<1>5. CASE Calm'
  <2>1. ~UNCHANGED Promise!channelVars
    <3>1. UNCHANGED Promise!channelVars => Using' = Using
      BY DEF Promise!channelVars, Using
    <3> QED
      BY <1>2, <1>3, <3>1 DEF Using
  <2>2. PICK d \in Dev, x \in Conns : Promise!Serve(d, x) \/ Promise!GiveUp(d, x)
    BY <1>5, <2>1, NextMaps DEF OneStep, Promise!Next, Promise!Disturbed
  <2>3. ~Promise!GiveUp(d, x)
    <3> SUFFICES ASSUME Promise!GiveUp(d, x)
                 PROVE  FALSE
      OBVIOUS
    <3>1. x # c
      BY <1>1 DEF Promise!GiveUp
    <3>2. Using' = Using
      BY <1>2, <3>1 DEF Promise!GiveUp, Using
    <3> QED
      BY <1>2, <1>3, <3>2 DEF Using
  <2>4. Promise!Serve(d, x)
    BY <2>2, <2>3
  <2>5. /\ x # c /\ Using' = [Using EXCEPT ![d] = x]
        /\ Gone' = [Gone EXCEPT ![d] = @ \union ({c} \ {None})]
    BY <1>2, <2>4 DEF Promise!Serve, Using, Gone
  <2>6. Better(x, c)
    BY <1>1, <1>2, <2>4, NoneIsNoConn DEF Promise!Serve
  <2>7. Current(d)' = x
    BY <2>5 DEF Using
  <2>8. end'[d][x] = "open" /\ links'[d] = x
    BY <1>0, <2>7 DEF CurrentFacts, OneOpenLink
  <2>9. c \in Gone'[d]
    BY <2>5, NoneIsNoConn DEF Gone
  <2>10. end'[d][c] = "closed"
    BY <2>9 DEF Gone
  <2> QED
    BY <2>5, <2>6, <2>8, <2>10
<1>6. CASE ~Calm'
  <2>1. \/ \E d \in Dev, x \in Conns : Dial(d, x)
        \/ \E x \in Conns : PathDies(x)
    BY <1>0, <1>6, OthersStayUsed DEF Calm
  <2>2. ASSUME NEW d \in Dev, NEW x \in Conns, Dial(d, x)
        PROVE  FALSE
    <3>1. x # c
      BY <1>0, <2>2, DialIsNew DEF BothOpen, Dev
    <3> QED
      BY <1>0, <2>2, <3>1, DialIsNew DEF BothOpen
  <2>3. ASSUME NEW x \in Conns, PathDies(x)
        PROVE  FALSE
    BY <2>3 DEF PathDies, BothOpen
  <2> QED
    BY <2>1, <2>2, <2>3
<1> QED
  BY <1>5, <1>6

(* link.go register: as long as no path has died, a link both ends serve   *)
(* is given up only by a device that has a better one; no probe, no check  *)
(* after a network change and no order of registers kills it.              *)
THEOREM WorkingLinkStays == Spec => WorkingLinkKept
<1>1. CInv /\ CInv' /\ [Next]_vars
        => [Calm => \A c \in Conns : GivenUpForBetter(c)]_vars
  BY WorkingLinkStep DEF GivenUpForBetter
<1> QED
  BY <1>1, AlwaysOneWay, PTL DEF Spec, WorkingLinkKept

LEMMA QuietIsFastest == CInv => QuietOnTheFastest
<1> SUFFICES ASSUME CInv, Calm, Quiet
             PROVE  DialingPaysOff /\ OnTheFastest
  BY DEF QuietOnTheFastest
<1>0. TypeOK /\ OneOpenLink /\ OneWay /\ IInv /\ ChannelFacts
  BY ChannelIs DEF CInv, IInv
<1>1. ASSUME NEW c \in Conns, Accepting(c)
      PROVE  /\ Channel \in Conns /\ BothOpen(Channel)
             /\ c = Channel \/ Better(Channel, c)
  <2>1. \A d \in Dev : end[d][c] \in {"open", "closed"}
    BY <1>0, <1>1 DEF Accepting, Quiet, TypeOK, Phases
  <2>2. Decided(c)
    BY <2>1 DEF Decided, Dev
  <2>3. PICK b \in Conns : b = Channel
    BY <1>0, <2>2 DEF ChannelFacts
  <2>4. Shared(b) /\ (c = b \/ Better(b, c))
    BY <1>0, <2>2, <2>3, NoneIsNoConn DEF ChannelFacts
  <2>5. BothOpen(b)
    BY <1>0, <2>4 DEF Shared, Quiet, BothOpen, OneOpenLink
  <2> QED
    BY <2>3, <2>4, <2>5
<1>2. DialingPaysOff
  BY <1>1 DEF DialingPaysOff
<1>3. OnTheFastest
  <2> SUFFICES ASSUME NEW c \in Conns, NEW b \in Conns, Accepting(c), BothOpen(b)
               PROVE  /\ conn[c].route = "direct" => conn[b].route = "direct"
                      /\ conn[c].route = conn[b].route => conn[b].prio >= conn[c].prio
    BY DEF OnTheFastest
  <2>1. c = b \/ Better(b, c)
    BY <1>0, <1>1, BothOpenIsChannel
  <2>2. /\ conn[c].prio \in Nat /\ conn[b].prio \in Nat
        /\ conn[c].route \in {"direct", "relay"} /\ conn[b].route \in {"direct", "relay"}
    BY <1>0 DEF TypeOK, ConnInfo, Routes
  <2> QED
    BY <2>1, <2>2 DEF Better
<1> QED
  BY <1>2, <1>3

(* ... and whenever no dial and no register is under way, both are on the  *)
(* fastest of all connections they accepted.                               *)
THEOREM QuietAgrees == Spec => []QuietOnTheFastest
  BY AlwaysOneWay, QuietIsFastest, PTL
=============================================================================
