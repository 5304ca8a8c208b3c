-------------------------- MODULE LinkTrafficProofs -------------------------
(***************************************************************************)
(* What runs over links, for any bounds.  Requests of two ends: what one   *)
(* takes is the reply to it or, between two computers, the other's request *)
(* with its number, and no other is lost on an open link.  Contacts: a     *)
(* book is of one version and whole.                                       *)
(* Clipboards of any number of computers: a text copied reaches everyone   *)
(* and comes back to no one.  Captures and ringing that phones start: any  *)
(* number of packets about them, and what goes on can be ended and will be.*)
(***************************************************************************)
EXTENDS LinkRequests, Contacts, Clipboard, Limits, FiniteSetTheorems, SequenceTheorems, TLAPS

(* Every variable has its type, the queues are sequences.                  *)
RTyped ==
  /\ open \subseteq Ends /\ letter \in Letters
  /\ asked \in [Ends -> {0} \union Numbers] /\ pings \in 0 .. MaxPings
  /\ state \in [Ends -> [Numbers -> {"none", "waiting", "answered", "failed"}]]
  /\ box \in [Ends -> [Numbers -> SUBSET Packets]]
  /\ toEnd \in [Ends -> Seq(Packets)]
  /\ jobs \in [Ends -> SUBSET Numbers] /\ handled \in [Ends -> SUBSET Numbers]

(* A channel takes one packet. *)
One(b) == b = {} \/ \E p : b = {p}
Channels == \A e \in Ends, n \in Numbers : One(box[e][n])

(* What is under way to an end: a request of the other one, a reply to one *)
(* of its own that was handled (done has the numbers), or neither, without *)
(* an id.                                                                  *)
AsRequest(e, p) == \E n \in Numbers : p = Packet("request", Id(Other(e), n), Other(e), n)
AsReply(e, p, done) == \E n \in done : p = Packet("reply", Id(e, n), e, n)
FromPeer(e, p, done) ==
  \/ AsRequest(e, p)
  \/ AsReply(e, p, done)
  \/ p.id = NoId /\ p.t \in {"ping", "pong"}

AllFrom(e, s, done) == \A i \in DOMAIN s : FromPeer(e, s[i], done)

Underway == \A e \in Ends : AllFrom(e, toEnd[e], handled[Other(e)])

JobsHandled == \A e \in Ends : jobs[e] \subseteq handled[e]

(* What a request may take: the reply to it, when it was handled (done has *)
(* the numbers), or between two computers the other one's request with the *)
(* same number.                                                            *)
Takes(e, n, p, done) ==
  \/ p.t = "reply" /\ p.end = e /\ p.n = n /\ n \in done
  \/ Alike /\ p.t = "request" /\ p.end = Other(e) /\ p.n = n

(* A channel holds nothing else ...                                        *)
Boxes ==
  \A e \in Ends, n \in Numbers : \A p \in box[e][n] : Takes(e, n, p, handled[Other(e)])

(* ... and an answered request found one.                                  *)
Found == \A e \in Ends, n \in Numbers : state[e][n] = "answered" => box[e][n] # {}

(* A request that was sent is on its way, was handled, or was taken for a  *)
(* reply to the other computer's request of that number.                   *)
Has(s, n) == \E i \in DOMAIN s : s[i].t = "request" /\ s[i].n = n
Kept(d, n) == Has(toEnd[d], n) \/ (Alike /\ box[d][n] # {})
NotLost ==
  \A e \in Ends, n \in Numbers :
    asked[e] >= n /\ n \notin handled[Other(e)] /\ open = Ends => Kept(Other(e), n)

RInv == RTyped /\ Channels /\ Underway /\ JobsHandled /\ Boxes /\ Found /\ NotLost

-----------------------------------------------------------------------------
(* The two ends, packets and queues. *)

LEMMA TwoEnds ==
  ASSUME NEW e \in Ends
  PROVE  /\ Other(e) \in Ends /\ Other(e) # e /\ Other(Other(e)) = e
         /\ \A d \in Ends : d = e \/ d = Other(e)
<1>1. PICK a \in Ends, b \in Ends : a # b /\ Ends = {a, b}
  BY RequestsAssumption
<1>2. \A d \in Ends : \E o \in Ends : o # d
  BY <1>1
<1>3. \A d \in Ends : Other(d) \in Ends /\ Other(d) # d
  BY <1>2 DEF Other
<1> QED
  BY <1>1, <1>3, RequestsAssumption

LEMMA LettersKnown ==
  ASSUME RTyped, NEW e \in Ends
  PROVE  letter[e] \in {"r", "p"}
<1>1. letter \in [Ends -> {"r", "p"}]
  BY RequestsAssumption DEF RTyped
<1> QED
  BY <1>1

\* Ends whose ids begin with the same letter are alike.
LEMMA SameLetter ==
  ASSUME NEW e \in Ends, letter[e] = letter[Other(e)]
  PROVE  Alike
<1>1. \A d \in Ends : d = e \/ d = Other(e)
  BY TwoEnds
<1> QED
  BY <1>1 DEF Alike

LEMMA NumbersNat == Numbers \subseteq Nat \ {0}
<1>1. SUFFICES ASSUME NEW e \in Ends, NEW n \in 1 .. MaxRequests[e] PROVE n \in Nat \ {0}
  BY DEF Numbers
<1>2. MaxRequests[e] \in Nat
  BY RequestsAssumption
<1> QED
  BY <1>2

LEMMA BoundsNat == MaxPings \in Nat /\ 0 \in 0 .. MaxPings /\ \A e \in Ends : MaxRequests[e] \in Nat
<1>1. MaxPings \in Nat /\ \A e \in Ends : MaxRequests[e] \in Nat
  BY RequestsAssumption
<1> QED
  BY <1>1

LEMMA AskedNat ==
  ASSUME RTyped, NEW e \in Ends
  PROVE  asked[e] \in Nat
<1>1. asked[e] \in {0} \union Numbers
  BY DEF RTyped
<1>2. asked[e] \in Numbers => asked[e] \in Nat
  BY NumbersNat
<1> QED
  BY <1>1, <1>2

LEMMA PacketKnown ==
  ASSUME RTyped, NEW e \in Ends, NEW n \in Numbers, NEW t \in {"request", "reply"}
  PROVE  Packet(t, Id(e, n), e, n) \in Packets
<1>1. Id(e, n) \in {"r", "p"} \X Numbers
  BY LettersKnown DEF Id
<1> QED
  BY <1>1 DEF Packet, Packets

LEMMA PingKnown ==
  ASSUME NEW e \in Ends, NEW t \in {"ping", "pong"}
  PROVE  Packet(t, NoId, e, 0) \in Packets
  BY DEF Packet, Packets

LEMMA NoIdDiffers ==
  ASSUME RTyped, NEW e \in Ends, NEW n
  PROVE  Id(e, n) # NoId
<1>1. letter[e] # ""
  BY LettersKnown
<1> QED
  BY <1>1 DEF Id, NoId

\* Only its reply has the id of a request of the end that reads it, or the
\* request of the same number when the ends are alike.
LEMMA OnlyReplies ==
  ASSUME RTyped, NEW e \in Ends, NEW p, NEW done, FromPeer(e, p, done),
         NEW n \in Numbers, Id(e, n) = p.id
  PROVE  Takes(e, n, p, done)
<1>1. ~(p.id = NoId)
  BY NoIdDiffers
<1>2. ASSUME NEW k \in Numbers, p = Packet("request", Id(Other(e), k), Other(e), k)
      PROVE  Takes(e, n, p, done)
  <2>1. letter[e] = letter[Other(e)] /\ k = n
    BY <1>2 DEF Packet, Id
  <2> QED
    BY <1>2, <2>1, SameLetter DEF Packet, Takes
<1>3. ASSUME NEW k \in done, p = Packet("reply", Id(e, k), e, k)
      PROVE  Takes(e, n, p, done)
  <2>1. k = n
    BY <1>3 DEF Packet, Id
  <2> QED
    BY <1>3, <2>1 DEF Packet, Takes
<1> QED
  BY <1>1, <1>2, <1>3 DEF FromPeer, AsRequest, AsReply

LEMMA AppendFrom ==
  ASSUME NEW e, NEW s \in Seq(Packets), NEW p \in Packets, NEW done,
         AllFrom(e, s, done), FromPeer(e, p, done)
  PROVE  AllFrom(e, Append(s, p), done)
<1>1. ASSUME NEW i \in DOMAIN Append(s, p)
      PROVE  Append(s, p)[i] = p \/ (i \in DOMAIN s /\ Append(s, p)[i] = s[i])
  <2>1. /\ Len(Append(s, p)) = Len(s) + 1 /\ Append(s, p)[Len(s) + 1] = p
        /\ \A j \in 1 .. Len(s) : Append(s, p)[j] = s[j]
        /\ DOMAIN Append(s, p) = 1 .. Len(Append(s, p))
    BY AppendProperties, LenProperties
  <2>2. DOMAIN s = 1 .. Len(s) /\ Len(s) \in Nat
    BY LenProperties
  <2>3. i \in 1 .. Len(s) \/ i = Len(s) + 1
    BY <2>1, <2>2
  <2> QED
    BY <2>1, <2>2, <2>3
<1> QED
  BY <1>1 DEF AllFrom

LEMMA TailFrom ==
  ASSUME NEW e, NEW s \in Seq(Packets), s # <<>>, NEW done, AllFrom(e, s, done)
  PROVE  AllFrom(e, Tail(s), done) /\ FromPeer(e, Head(s), done)
<1>1. \A i \in DOMAIN Tail(s) : i + 1 \in DOMAIN s /\ Tail(s)[i] = s[i + 1]
  BY HeadTailProperties
<1>2. 1 \in DOMAIN s /\ Head(s) = s[1]
  BY HeadTailProperties
<1> QED
  BY <1>1, <1>2 DEF AllFrom

LEMMA MoreFrom ==
  ASSUME NEW e, NEW s, NEW done, NEW more, done \subseteq more, AllFrom(e, s, done)
  PROVE  AllFrom(e, s, more)
  BY DEF AllFrom, FromPeer, AsReply

\* The letters never change, so what held of the queues holds of them later.
LEMMA SameRules ==
  ASSUME letter' = letter, \A e \in Ends : AllFrom(e, toEnd'[e], handled'[Other(e)])
  PROVE  Underway'
<1>1. ASSUME NEW e, NEW n PROVE Id(e, n)' = Id(e, n)
  BY DEF Id
<1>2. ASSUME NEW e, NEW p, NEW done, FromPeer(e, p, done)
      PROVE  \/ \E n \in Numbers : p = Packet("request", Id(Other(e), n)', Other(e), n)
             \/ \E n \in done : p = Packet("reply", Id(e, n)', e, n)
             \/ p.id = NoId /\ p.t \in {"ping", "pong"}
  BY <1>1, <1>2 DEF FromPeer, AsRequest, AsReply
<1> QED
  BY <1>2 DEF Underway, AllFrom, FromPeer, AsRequest, AsReply

LEMMA AppendHas ==
  ASSUME NEW s \in Seq(Packets), NEW p \in Packets, NEW n
  PROVE  /\ Has(s, n) => Has(Append(s, p), n)
         /\ p.t = "request" /\ p.n = n => Has(Append(s, p), n)
<1>1. \A i \in DOMAIN s : i \in DOMAIN Append(s, p) /\ Append(s, p)[i] = s[i]
  BY AppendProperties
<1>2. Len(s) + 1 \in DOMAIN Append(s, p) /\ Append(s, p)[Len(s) + 1] = p
  BY AppendProperties
<1> QED
  BY <1>1, <1>2 DEF Has

LEMMA TailHas ==
  ASSUME NEW s \in Seq(Packets), s # <<>>, NEW n, Has(s, n), ~(Head(s).t = "request" /\ Head(s).n = n)
  PROVE  Has(Tail(s), n)
<1>1. PICK i \in DOMAIN s : s[i].t = "request" /\ s[i].n = n
  BY DEF Has
<1>2. i # 1 /\ i - 1 \in DOMAIN Tail(s) /\ Tail(s)[i - 1] = s[i]
  <2>1. /\ Tail(s) \in Seq(Packets) /\ Len(Tail(s)) = Len(s) - 1
        /\ \A j \in 1 .. Len(Tail(s)) : Tail(s)[j] = s[j + 1]
    BY HeadTailProperties
  <2>2. /\ DOMAIN s = 1 .. Len(s) /\ Len(s) \in Nat
        /\ DOMAIN Tail(s) = 1 .. Len(Tail(s))
    BY <2>1, LenProperties
  <2>3. i # 1
    BY <1>1
  <2>4. i - 1 \in 1 .. Len(Tail(s)) /\ (i - 1) + 1 = i
    BY <2>1, <2>2, <2>3
  <2> QED
    BY <2>1, <2>2, <2>3, <2>4
<1> QED
  BY <1>1, <1>2 DEF Has

(* What Sent makes of the queues: the one to the other end may have grown. *)
Grown(e, p, old, new) ==
  /\ new \in [Ends -> Seq(Packets)] /\ new[e] = old[e]
  /\ new[Other(e)] = old[Other(e)] \/ new[Other(e)] = Append(old[Other(e)], p)
  /\ open = Ends => new[Other(e)] = Append(old[Other(e)], p)

LEMMA SentGrows ==
  ASSUME NEW e \in Ends, NEW p \in Packets, NEW old \in [Ends -> Seq(Packets)]
  PROVE  Grown(e, p, old, Sent(e, p, old))
<1>1. Append(old[Other(e)], p) \in Seq(Packets)
  BY TwoEnds, AppendProperties
<1> QED
  BY <1>1, TwoEnds DEF Grown, Sent

-----------------------------------------------------------------------------
LEMMA RequestsStart == RequestsInit => RInv
<1> SUFFICES ASSUME RequestsInit PROVE RInv
  OBVIOUS
<1>1. RTyped
  <2>1. /\ state \in [Ends -> [Numbers -> {"none", "waiting", "answered", "failed"}]]
        /\ box \in [Ends -> [Numbers -> SUBSET Packets]] /\ toEnd \in [Ends -> Seq(Packets)]
    BY DEF RequestsInit
  <2>2. pings \in 0 .. MaxPings
    BY BoundsNat DEF RequestsInit
  <2> QED
    BY <2>1, <2>2 DEF RequestsInit, RTyped
<1>2. NotLost
  <2>1. \A e \in Ends, n \in Numbers : ~(asked[e] >= n)
    BY NumbersNat DEF RequestsInit
  <2> QED
    BY <2>1 DEF NotLost
<1>3. JobsHandled /\ Boxes /\ Found /\ Channels
  BY DEF RequestsInit, JobsHandled, Boxes, Found, Channels, One
<1>4. Underway
  <2>1. \A e \in Ends : toEnd[e] = <<>>
    BY DEF RequestsInit
  <2> QED
    BY <2>1 DEF Underway, AllFrom
<1> QED
  BY <1>1, <1>2, <1>3, <1>4 DEF RInv

\* What is sent from one end keeps to the rules, and nothing gets lost.
LEMMA SendKeeps ==
  ASSUME RTyped, Underway, NEW e \in Ends, NEW p \in Packets, FromPeer(Other(e), p, handled[e]),
         toEnd' = Sent(e, p, toEnd), handled' = handled, letter' = letter
  PROVE  /\ toEnd' \in [Ends -> Seq(Packets)] /\ Underway'
         /\ \A d \in Ends, n \in Numbers : Has(toEnd[d], n) => Has(toEnd'[d], n)
         /\ open = Ends => toEnd'[Other(e)] = Append(toEnd[Other(e)], p)
<1>1. Grown(e, p, toEnd, toEnd')
  BY SentGrows DEF RTyped
<1>2. \A d \in Ends : d = e \/ d = Other(e)
  BY TwoEnds
<1>3. toEnd[Other(e)] \in Seq(Packets) /\ Other(e) \in Ends /\ Other(Other(e)) = e
  BY TwoEnds DEF RTyped
<1>4. AllFrom(e, toEnd'[e], handled'[Other(e)])
  BY <1>1 DEF Grown, Underway
<1>5. AllFrom(Other(e), toEnd'[Other(e)], handled'[e])
  BY <1>1, <1>3, AppendFrom DEF Grown, Underway
<1>6. Underway'
  BY <1>2, <1>3, <1>4, <1>5, SameRules
<1>7. ASSUME NEW n \in Numbers, Has(toEnd[Other(e)], n) PROVE Has(toEnd'[Other(e)], n)
  <2>1. Has(Append(toEnd[Other(e)], p), n)
    BY <1>3, <1>7, AppendHas
  <2> QED
    BY <1>1, <1>7, <2>1 DEF Grown
<1>8. toEnd'[e] = toEnd[e]
  BY <1>1 DEF Grown
<1>9. ASSUME NEW d \in Ends, NEW n \in Numbers, Has(toEnd[d], n) PROVE Has(toEnd'[d], n)
  BY <1>2, <1>7, <1>8, <1>9
<1> QED
  BY <1>1, <1>6, <1>9 DEF Grown

\* Queues and channels that lose no request keep NotLost while nobody asks.
LEMMA StillNotLost ==
  ASSUME NotLost, asked' = asked, letter' = letter, open' \subseteq open, open \subseteq Ends,
         \A e \in Ends : handled[e] \subseteq handled'[e],
         \A d \in Ends, n \in Numbers : box[d][n] # {} => box'[d][n] # {},
         \A d \in Ends, n \in Numbers :
           Has(toEnd[d], n) => Kept(d, n)' \/ n \in handled'[d]
  PROVE  NotLost'
<1> SUFFICES ASSUME NEW e \in Ends, NEW n \in Numbers,
                    asked'[e] >= n, n \notin handled'[Other(e)], open' = Ends
             PROVE  Kept(Other(e), n)'
  BY DEF NotLost
<1>1. open = Ends /\ Other(e) \in Ends /\ (Alike => Alike')
  BY TwoEnds DEF Alike
<1>2. Kept(Other(e), n)
  BY <1>1 DEF NotLost
<1> QED
  BY <1>1, <1>2 DEF Kept

LEMMA RequestSteps ==
  ASSUME RInv, NEW e \in Ends, Request(e)
  PROVE  RInv'
<1> DEFINE n == asked[e] + 1
           o == Other(e)
           p == Packet("request", Id(e, n), e, n)
<1>1. n \in Numbers /\ o \in Ends /\ Other(o) = e
  <2>1. n \in 1 .. MaxRequests[e]
    <3>1. asked[e] \in Nat
      BY AskedNat DEF RInv
    <3>2. MaxRequests[e] \in Nat /\ n <= MaxRequests[e]
      BY BoundsNat DEF Request
    <3> QED
      BY <3>1, <3>2
  <2> QED
    BY <2>1, TwoEnds DEF Numbers
<1>2. p \in Packets /\ FromPeer(o, p, handled[e])
  BY <1>1, PacketKnown DEF RInv, FromPeer, AsRequest
<1>3. toEnd' = Sent(e, p, toEnd) /\ handled' = handled /\ letter' = letter
  BY DEF Request
<1>4. /\ toEnd' \in [Ends -> Seq(Packets)] /\ Underway'
      /\ \A d \in Ends, k \in Numbers : Has(toEnd[d], k) => Has(toEnd'[d], k)
      /\ open = Ends => toEnd'[o] = Append(toEnd[o], p)
  BY <1>2, <1>3, SendKeeps DEF RInv
<1>5. /\ asked' \in [Ends -> {0} \union Numbers]
      /\ \E s \in {"waiting", "failed"} : state' = [state EXCEPT ![e][n] = s]
      /\ UNCHANGED <<open, box, jobs, handled, pings, letter>>
  BY <1>1 DEF Request, RInv, RTyped
<1>6. state' \in [Ends -> [Numbers -> {"none", "waiting", "answered", "failed"}]]
  BY <1>1, <1>5 DEF RInv, RTyped
<1>7. RTyped'
  BY <1>4, <1>5, <1>6 DEF RInv, RTyped
<1>8. Channels' /\ JobsHandled' /\ Boxes'
  BY <1>5 DEF RInv, Channels, JobsHandled, Boxes, Takes, Alike
<1>9. Found'
  <2>1. ASSUME NEW d \in Ends, NEW k \in Numbers, state'[d][k] = "answered"
        PROVE  state[d][k] = "answered"
    BY <1>1, <1>5, <2>1 DEF RInv, RTyped
  <2> QED
    BY <1>5, <2>1 DEF RInv, Found
<1>10. NotLost'
  <2>1. SUFFICES ASSUME NEW d \in Ends, NEW k \in Numbers,
                        asked'[d] >= k, k \notin handled'[Other(d)], open' = Ends
                 PROVE  Kept(Other(d), k)'
    BY DEF NotLost
  <2>2. Other(d) \in Ends /\ open = Ends /\ k \notin handled[Other(d)]
    BY <1>5, <2>1, TwoEnds
  <2>3. CASE asked[d] >= k
    BY <1>4, <1>5, <2>2, <2>3 DEF RInv, NotLost, Kept, Alike
  <2>4. CASE ~(asked[d] >= k)
    <3>1. d = e /\ k = n
      <4>1. asked' = [asked EXCEPT ![e] = n]
        BY DEF Request
      <4>2. asked[e] \in Nat /\ k \in Nat
        BY AskedNat, NumbersNat DEF RInv
      <4>3. d = e
        BY <2>1, <2>4, <4>1 DEF RInv, RTyped
      <4>4. asked'[e] = n
        BY <4>1 DEF RInv, RTyped
      <4> QED
        BY <2>1, <2>4, <4>2, <4>3, <4>4
    <3>2. toEnd'[o] = Append(toEnd[o], p) /\ toEnd[o] \in Seq(Packets)
      BY <1>1, <1>4, <2>2 DEF RInv, RTyped
    <3>3. p.t = "request" /\ p.n = n
      BY DEF Packet
    <3> QED
      BY <1>2, <3>1, <3>2, <3>3, AppendHas DEF Kept
  <2> QED
    BY <2>3, <2>4
<1> QED
  BY <1>4, <1>7, <1>9, <1>10, <1>8 DEF RInv

LEMMA DecideSteps ==
  ASSUME RInv, NEW e \in Ends, NEW n \in Numbers, TakeReply(e, n) \/ StopWaiting(e, n)
  PROVE  RInv'
<1>1. UNCHANGED <<open, asked, box, toEnd, jobs, handled, pings, letter>>
  BY DEF TakeReply, StopWaiting
<1>2. \E s \in {"answered", "failed"} : state' = [state EXCEPT ![e][n] = s]
  BY DEF TakeReply, StopWaiting
<1>3. state' \in [Ends -> [Numbers -> {"none", "waiting", "answered", "failed"}]]
  BY <1>2 DEF RInv, RTyped
<1>4. RTyped'
  BY <1>1, <1>3 DEF RInv, RTyped
<1>5. Channels' /\ Underway' /\ JobsHandled' /\ Boxes' /\ NotLost'
  BY <1>1 DEF RInv, Channels, Underway, JobsHandled, Boxes, NotLost, Kept, Takes, Alike, AllFrom, FromPeer,
               AsRequest, AsReply, Id
<1>6. Found'
  <2>1. ASSUME NEW d \in Ends, NEW k \in Numbers, state'[d][k] = "answered"
        PROVE  box[d][k] # {}
    <3>1. state[d][k] = "answered" \/ (d = e /\ k = n /\ box[e][n] # {})
      BY <2>1 DEF TakeReply, StopWaiting, RInv, RTyped
    <3> QED
      BY <3>1 DEF RInv, Found
  <2> QED
    BY <1>1, <2>1 DEF Found
<1> QED
  BY <1>6, <1>4, <1>5 DEF RInv

LEMMA SendSteps ==
  ASSUME RInv, NEW e \in Ends, Ping(e) \/ \E n \in Numbers : Reply(e, n)
  PROVE  RInv'
<1>1. \E p \in Packets : toEnd' = Sent(e, p, toEnd) /\ FromPeer(Other(e), p, handled[e])
  <2>1. CASE Ping(e)
    BY <2>1, PingKnown DEF Ping, FromPeer, Packet
  <2>2. ASSUME NEW n \in Numbers, Reply(e, n)
        PROVE  \E p \in Packets : toEnd' = Sent(e, p, toEnd) /\ FromPeer(Other(e), p, handled[e])
    <3>1. n \in handled[e] /\ Other(e) \in Ends
      BY <2>2, TwoEnds DEF Reply, RInv, JobsHandled
    <3>2. Packet("reply", Id(Other(e), n), Other(e), n) \in Packets
      BY <3>1, PacketKnown DEF RInv
    <3> QED
      BY <2>2, <3>1, <3>2 DEF Reply, FromPeer, AsReply
  <2> QED
    BY <2>1, <2>2
<1>2. UNCHANGED <<open, asked, state, box, handled, letter>>
  BY DEF Ping, Reply
<1>3. /\ toEnd' \in [Ends -> Seq(Packets)] /\ Underway'
      /\ \A d \in Ends, k \in Numbers : Has(toEnd[d], k) => Has(toEnd'[d], k)
  BY <1>1, <1>2, SendKeeps DEF RInv
<1>4. pings' \in 0 .. MaxPings
  <2>1. pings \in 0 .. MaxPings /\ MaxPings \in Nat
    BY BoundsNat DEF RInv, RTyped
  <2>2. pings' = pings \/ (pings < MaxPings /\ pings' = pings + 1)
    BY DEF Ping, Reply
  <2> QED
    BY <2>1, <2>2
<1>5. jobs' \in [Ends -> SUBSET Numbers] /\ \A d \in Ends : jobs'[d] \subseteq jobs[d]
  <2>1. jobs \in [Ends -> SUBSET Numbers]
    BY DEF RInv, RTyped
  <2>2. jobs' = jobs \/ \E n \in Numbers : jobs' = [jobs EXCEPT ![e] = @ \ {n}]
    BY DEF Ping, Reply
  <2> QED
    BY <2>1, <2>2
<1>6. RTyped'
  BY <1>2, <1>3, <1>4, <1>5 DEF RInv, RTyped
<1>7. Channels' /\ JobsHandled' /\ Boxes' /\ Found'
  BY <1>2, <1>5 DEF RInv, Channels, JobsHandled, Boxes, Found, Takes, Alike
<1>8. NotLost'
  BY <1>2, <1>3, StillNotLost DEF RInv, RTyped, Kept
<1> QED
  BY <1>3, <1>6, <1>8, <1>7 DEF RInv

LEMMA CloseSteps ==
  ASSUME RInv, NEW e \in Ends, CloseEnd(e)
  PROVE  RInv'
<1>1. open' \subseteq open /\ UNCHANGED <<asked, state, box, toEnd, jobs, handled, pings, letter>>
  BY DEF CloseEnd
<1>2. RTyped'
  BY <1>1 DEF RInv, RTyped
<1>3. Channels' /\ Underway' /\ JobsHandled' /\ Boxes' /\ Found'
  BY <1>1 DEF RInv, Channels, Underway, JobsHandled, Boxes, Found, Takes, Alike, AllFrom, FromPeer,
               AsRequest, AsReply, Id
<1>4. NotLost'
  BY <1>1, StillNotLost DEF RInv, RTyped, Kept
<1> QED
  BY <1>2, <1>4, <1>3 DEF RInv

-----------------------------------------------------------------------------
(* Reading. *)

LEMMA DeliverSteps ==
  ASSUME RInv, NEW e \in Ends, toEnd[e] # <<>>, Deliver(e, Head(toEnd[e])),
         UNCHANGED <<open, asked, state, pings, letter>>
  PROVE  RInv'
<1> DEFINE p == Head(toEnd[e])
           done == handled[Other(e)]
<1>1. toEnd[e] \in Seq(Packets) /\ toEnd \in [Ends -> Seq(Packets)] /\ p \in Packets
  BY HeadTailProperties DEF RInv, RTyped
<1>2. FromPeer(e, p, done) /\ AllFrom(e, Tail(toEnd[e]), done)
  BY <1>1, TailFrom DEF RInv, Underway
<1>3. \A n \in Waiters(e, p) : n \in Numbers /\ Takes(e, n, p, done)
  BY <1>2, OnlyReplies DEF Waiters, RInv
<1>4. \E n \in Numbers : n \in Waiters(e, p) /\ Takes(e, n, p, done)
  BY <1>3 DEF Deliver
<1>5. /\ toEnd' = [toEnd EXCEPT ![e] = Tail(toEnd[e])] /\ UNCHANGED <<jobs, handled>>
      /\ box' = [box EXCEPT ![e] = [n \in Numbers |->
                   IF n \in Waiters(e, p) /\ box[e][n] = {} THEN {p} ELSE box[e][n]]]
  BY <1>1 DEF Deliver, RInv, RTyped
<1>6. toEnd' \in [Ends -> Seq(Packets)]
  BY <1>1, <1>5, HeadTailProperties
<1>7. ASSUME NEW d \in Ends, NEW n \in Numbers
      PROVE  box'[d][n] = box[d][n] \/ (d = e /\ n \in Waiters(e, p) /\ box'[d][n] = {p})
  BY <1>5 DEF RInv, RTyped
<1>8. box' \in [Ends -> [Numbers -> SUBSET Packets]]
  BY <1>1, <1>5 DEF RInv, RTyped
<1>9. RTyped'
  BY <1>5, <1>6, <1>8 DEF RInv, RTyped
<1>10. Channels'
  <2>1. SUFFICES ASSUME NEW d \in Ends, NEW n \in Numbers PROVE One(box'[d][n])
    BY DEF Channels
  <2>2. One(box[d][n]) /\ One({p})
    BY DEF RInv, Channels, One
  <2> QED
    BY <1>7, <2>2
<1>11. Underway'
  <2>1. \A d \in Ends : AllFrom(d, toEnd'[d], handled'[Other(d)])
    BY <1>1, <1>2, <1>5 DEF RInv, Underway
  <2> QED
    BY <2>1, SameRules
<1>12. JobsHandled'
  BY <1>5 DEF RInv, JobsHandled
<1>13. Boxes'
  <2>1. SUFFICES ASSUME NEW d \in Ends, NEW n \in Numbers, NEW q \in box'[d][n]
                 PROVE  Takes(d, n, q, handled[Other(d)])
    BY <1>5 DEF Boxes, Takes, Alike
  <2>2. CASE q \in box[d][n]
    BY <2>2 DEF RInv, Boxes
  <2>3. CASE q \notin box[d][n]
    BY <1>3, <1>7, <2>1, <2>3
  <2> QED
    BY <2>2, <2>3
<1>14. Found'
  <2>1. \A d \in Ends, n \in Numbers : box[d][n] # {} => box'[d][n] # {}
    BY <1>7
  <2> QED
    BY <2>1 DEF RInv, Found
<1>15. NotLost'
  <2>1. \A d \in Ends, n \in Numbers : box[d][n] # {} => box'[d][n] # {}
    BY <1>7
  <2>2. ASSUME NEW n \in Numbers, Has(toEnd[e], n) PROVE Kept(e, n)'
    <3>1. CASE p.t = "request" /\ p.n = n
      <4>1. n \in Waiters(e, p) /\ Alike
        BY <1>4, <3>1 DEF Takes
      <4>2. box'[e][n] # {}
        BY <1>5, <4>1 DEF RInv, RTyped
      <4> QED
        BY <4>1, <4>2 DEF Kept, Alike
    <3>2. CASE ~(p.t = "request" /\ p.n = n)
      BY <1>1, <1>5, <2>2, <3>2, TailHas DEF Kept
    <3> QED
      BY <3>1, <3>2
  <2>3. ASSUME NEW d \in Ends, d # e, NEW n \in Numbers, Has(toEnd[d], n) PROVE Kept(d, n)'
    BY <1>1, <1>5, <2>3 DEF Kept
  <2> QED
    BY <1>5, <2>1, <2>2, <2>3, StillNotLost DEF RInv, RTyped
<1> QED
  BY <1>9, <1>11, <1>12, <1>13, <1>14, <1>15, <1>10 DEF RInv

LEMMA DispatchSteps ==
  ASSUME RInv, NEW e \in Ends, toEnd[e] # <<>>, Dispatch(e, Head(toEnd[e])),
         UNCHANGED <<open, asked, state, pings, letter>>
  PROVE  RInv'
<1> DEFINE p == Head(toEnd[e])
           o == Other(e)
           rest == [toEnd EXCEPT ![e] = Tail(toEnd[e])]
           pong == Packet("pong", NoId, e, 0)
<1>1. /\ toEnd[e] \in Seq(Packets) /\ toEnd \in [Ends -> Seq(Packets)] /\ p \in Packets
      /\ Tail(toEnd[e]) \in Seq(Packets)
  BY HeadTailProperties DEF RInv, RTyped
<1>2. FromPeer(e, p, handled[o]) /\ AllFrom(e, Tail(toEnd[e]), handled[o])
  BY <1>1, TailFrom DEF RInv, Underway
<1>3. o \in Ends /\ o # e /\ Other(o) = e /\ \A d \in Ends : d = e \/ d = o
  BY TwoEnds
<1>4. rest \in [Ends -> Seq(Packets)] /\ rest[e] = Tail(toEnd[e]) /\ rest[o] = toEnd[o]
  BY <1>1, <1>3
<1>5. pong \in Packets
  BY PingKnown
<1>6. toEnd' = rest \/ toEnd' = Sent(e, pong, rest)
  BY DEF Dispatch
<1>7. /\ toEnd' \in [Ends -> Seq(Packets)] /\ toEnd'[e] = Tail(toEnd[e])
      /\ toEnd'[o] = toEnd[o] \/ toEnd'[o] = Append(toEnd[o], pong)
  <2>1. CASE toEnd' = rest
    BY <1>4, <2>1
  <2>2. CASE toEnd' = Sent(e, pong, rest)
    <3>1. Grown(e, pong, rest, toEnd')
      BY <1>4, <1>5, <2>2, SentGrows
    <3> QED
      BY <1>4, <3>1 DEF Grown
  <2> QED
    BY <1>6, <2>1, <2>2
<1>8. p.t = "request" => p.n \in Numbers
  <2>1. AsRequest(e, p) => p.n \in Numbers
    BY DEF AsRequest, Packet
  <2>2. AsReply(e, p, handled[o]) => p.t = "reply"
    BY DEF AsReply, Packet
  <2> QED
    BY <1>2, <2>1, <2>2 DEF FromPeer
<1>9. /\ handled' \in [Ends -> SUBSET Numbers] /\ jobs' \in [Ends -> SUBSET Numbers] /\ box' = box
      /\ \A d \in Ends : handled[d] \subseteq handled'[d] /\ jobs'[d] \subseteq handled'[d]
      /\ handled'[o] = handled[o] /\ (p.t = "request" => p.n \in handled'[e])
  BY <1>3, <1>8 DEF Dispatch, RInv, RTyped, JobsHandled
<1>10. RTyped' /\ Channels' /\ JobsHandled' /\ Found'
  BY <1>7, <1>9 DEF RInv, RTyped, Channels, JobsHandled, Found
<1>11. Boxes'
  <2>1. SUFFICES ASSUME NEW d \in Ends, NEW n \in Numbers, NEW q \in box[d][n]
                 PROVE  Takes(d, n, q, handled'[Other(d)])
    BY <1>9 DEF Boxes, Takes, Alike
  <2>2. Takes(d, n, q, handled[Other(d)])
    BY DEF RInv, Boxes
  <2>3. Other(d) \in Ends
    BY TwoEnds
  <2> QED
    BY <1>9, <2>2, <2>3 DEF Takes
<1>12. Underway'
  <2>1. AllFrom(e, toEnd'[e], handled'[o])
    BY <1>2, <1>7, <1>9
  <2>2. AllFrom(o, toEnd[o], handled'[e])
    BY <1>3, <1>9, MoreFrom DEF RInv, Underway
  <2>3. FromPeer(o, pong, handled'[e])
    BY DEF FromPeer, Packet
  <2>4. AllFrom(o, toEnd'[o], handled'[e])
    BY <1>1, <1>3, <1>5, <1>7, <2>2, <2>3, AppendFrom
  <2> QED
    BY <1>3, <2>1, <2>4, SameRules
<1>13. NotLost'
  <2>1. \A n \in Numbers : Has(toEnd[e], n) => Has(toEnd'[e], n) \/ n \in handled'[e]
    BY <1>1, <1>7, <1>9, TailHas
  <2>2. ASSUME NEW n \in Numbers, Has(toEnd[o], n) PROVE Has(toEnd'[o], n)
    <3>1. Has(Append(toEnd[o], pong), n)
      BY <1>1, <1>3, <1>5, <2>2, AppendHas
    <3> QED
      BY <1>7, <2>2, <3>1
  <2> QED
    BY <1>3, <1>9, <2>1, <2>2, StillNotLost DEF RInv, RTyped, Kept
<1> QED
  BY <1>10, <1>11, <1>12, <1>13 DEF RInv

-----------------------------------------------------------------------------
LEMMA RequestsKeep ==
  ASSUME RInv, [RequestsNext]_rVars
  PROVE  RInv'
<1>1. CASE UNCHANGED rVars
  <2>1. RTyped'
    BY <1>1 DEF rVars, RInv, RTyped
  <2>2. Channels' /\ Underway' /\ JobsHandled' /\ Boxes' /\ Found' /\ NotLost'
    BY <1>1 DEF rVars, RInv, Channels, Underway, JobsHandled, Boxes, Found, NotLost, Kept, Takes, Alike,
               AllFrom, FromPeer, AsRequest, AsReply, Id
  <2> QED
    BY <2>1, <2>2 DEF RInv
<1>2. ASSUME NEW e \in Ends, Read(e) PROVE RInv'
  BY <1>2, DeliverSteps, DispatchSteps DEF Read
<1> QED
  BY <1>1, <1>2, RequestSteps, SendSteps, CloseSteps, DecideSteps DEF RequestsNext

LEMMA AlwaysRequests == RequestsSpec => []RInv
  BY RequestsStart, RequestsKeep, PTL DEF RequestsSpec

(* Every variable has its type, a channel holds one reply at most (link.go *)
(* Request's buffered channel).                                            *)
THEOREM RequestsTypeCorrect == RequestsSpec => []RequestsOK
<1>1. ASSUME RTyped, Channels PROVE RequestsOK
  <2>1. ASSUME NEW e \in Ends, NEW n \in Numbers
        PROVE  box[e][n] \subseteq Packets /\ Cardinality(box[e][n]) <= 1
    <3>1. CASE box[e][n] = {}
      BY <3>1, FS_EmptySet
    <3>2. CASE \E p : box[e][n] = {p}
      <4>1. Cardinality(box[e][n]) = 1
        BY <3>2, FS_Singleton
      <4> QED
        BY <1>1, <4>1 DEF RTyped
    <3> QED
      BY <1>1, <3>1, <3>2 DEF Channels, One
  <2>2. ASSUME NEW e \in Ends PROVE \A i \in DOMAIN toEnd[e] : toEnd[e][i] \in Packets
    BY <1>1, LenProperties DEF RTyped
  <2> QED
    BY <1>1, <2>1, <2>2 DEF RTyped, RequestsOK
<1> QED
  BY <1>1, AlwaysRequests, PTL DEF RInv

(* Request: "any packet carrying the same id": what a request takes for    *)
(* its reply is the answer to this very request, and what was sent on an   *)
(* open link is handled at the other end or still on its way; except that  *)
(* of two computers one may take the other's request for its reply.        *)
THEOREM RepliesAlwaysMatch == RequestsSpec => []RepliesMatch
<1>1. RInv => RepliesMatch
  BY DEF RInv, Boxes, Takes, Found, NotLost, Kept, Has, RepliesMatch
<1> QED
  BY <1>1, AlwaysRequests, PTL
-----------------------------------------------------------------------------
(* Contacts: types. *)

Book == [version : {0} \union Versions, parts : Seq(Part)]
Sync ==
  {s \in [step : {"due", "asked", "sent", "looking", "answering", "over"}, link : Links,
          have : {0} \union Versions, sends : {0} \union Versions, next : Nat] :
     s.step = "answering" => s.sends \in Versions}

CTyped ==
  /\ version \in Versions /\ links \in 0 .. MaxLinks /\ usable \subseteq 1 .. links
  /\ syncs \in Seq(Sync) /\ Len(syncs) <= MaxSyncs /\ starts \in 0 .. MaxStarts
  /\ parts \in [Links -> Seq(Part \union {Changed})]
  /\ incoming \in Book /\ book \in Book /\ file \in Book /\ saving \in [Links -> Book]

(* A book being put together is of one version; one in use, on its way to  *)
(* the disk or there has its last part at the end as well.                 *)
Pure(b)  == \A i \in DOMAIN b.parts : b.parts[i].version = b.version
Whole(b) == b = NoBook \/ (Pure(b) /\ Last(b.parts).part = Parts[b.version] - 1)

BInv ==
  /\ CTyped /\ Pure(incoming) /\ Whole(book) /\ Whole(file)
  /\ \A l \in Links : Whole(saving[l])

LEMMA VersionsKnown ==
  /\ Versions = 1 .. Len(Parts) /\ Len(Parts) \in Nat \ {0} /\ 1 \in Versions /\ 0 \notin Versions
  /\ \A v \in Versions : v \in Nat /\ Parts[v] \in Nat
<1>1. Versions = 1 .. Len(Parts) /\ Len(Parts) \in Nat /\ Len(Parts) # 0
  BY ContactsAssumption, LenProperties, EmptySeq DEF Versions
<1>2. \A v \in 1 .. Len(Parts) : Parts[v] \in Nat
  BY ContactsAssumption, LenProperties
<1> QED
  BY <1>1, <1>2

LEMMA NoBookTyped == NoBook \in Book /\ Pure(NoBook) /\ Whole(NoBook)
  BY EmptySeq DEF NoBook, Book, Pure, Whole

\* An entry of syncs put in the place of another.
LEMMA SyncReplaced ==
  ASSUME CTyped, NEW i \in DOMAIN syncs, NEW s \in Sync, syncs' = [syncs EXCEPT ![i] = s]
  PROVE  syncs' \in Seq(Sync) /\ Len(syncs') <= MaxSyncs
<1>1. i \in 1 .. Len(syncs)
  BY LenProperties DEF CTyped
<1> QED
  BY <1>1, ExceptSeq DEF CTyped

LEMMA DueTyped ==
  ASSUME CTyped, NEW l \in Links, syncs' = Due(l)
  PROVE  syncs' \in Seq(Sync) /\ Len(syncs') <= MaxSyncs
<1> DEFINE s == [step |-> "due", link |-> l, have |-> 0, sends |-> 0, next |-> 0]
<1>1. s \in Sync
  BY DEF Sync
<1>2. CASE Len(syncs) < MaxSyncs
  <2>1. syncs' = Append(syncs, s)
    BY <1>2 DEF Due
  <2>2. Append(syncs, s) \in Seq(Sync) /\ Len(Append(syncs, s)) = Len(syncs) + 1
    BY <1>1, AppendProperties DEF CTyped
  <2>3. Len(syncs) \in Nat /\ MaxSyncs \in Nat
    BY ContactsAssumption, LenProperties DEF CTyped
  <2> QED
    BY <1>2, <2>1, <2>2, <2>3
<1>3. CASE ~(Len(syncs) < MaxSyncs)
  BY <1>3 DEF Due, CTyped
<1> QED
  BY <1>2, <1>3

LEMMA SyncKnown ==
  ASSUME CTyped, NEW i \in DOMAIN syncs
  PROVE  syncs[i] \in Sync
  BY LenProperties DEF CTyped

LEMMA BooksStart == ContactsInit => BInv
<1> SUFFICES ASSUME ContactsInit PROVE BInv
  OBVIOUS
<1>1. syncs \in Seq(Sync) /\ Len(syncs) <= MaxSyncs
  BY EmptySeq, ContactsAssumption DEF ContactsInit
<1>2. version \in Versions /\ links \in 0 .. MaxLinks /\ usable \subseteq 1 .. links /\ starts \in 0 .. MaxStarts
  BY VersionsKnown, ContactsAssumption DEF ContactsInit
<1>3. parts \in [Links -> Seq(Part \union {Changed})]
  BY EmptySeq DEF ContactsInit
<1>4. incoming \in Book /\ book \in Book /\ file \in Book /\ saving \in [Links -> Book]
  BY NoBookTyped DEF ContactsInit
<1> QED
  BY <1>1, <1>2, <1>3, <1>4, NoBookTyped DEF ContactsInit, BInv, CTyped

\* The steps that leave the books alone.
LEMMA BooksAlone ==
  ASSUME BInv, CTyped', UNCHANGED bookVars
  PROVE  BInv'
  BY DEF BInv, Pure, Whole, bookVars

LEMMA LinkTypes ==
  ASSUME CTyped, LinkUp \/ Change \/ \E l \in Links : CloseOld(l) \/ ReadChanged(l)
  PROVE  CTyped'
<1>1. CASE LinkUp
  <2>1. links + 1 \in Links /\ links' \in 0 .. MaxLinks
    BY <1>1, ContactsAssumption DEF LinkUp, CTyped, Links
  <2>2. usable' \subseteq 1 .. links'
    BY <1>1 DEF LinkUp, CTyped
  <2>3. syncs' \in Seq(Sync) /\ Len(syncs') <= MaxSyncs
    BY <1>1, <2>1, DueTyped DEF LinkUp
  <2> QED
    BY <1>1, <2>1, <2>2, <2>3 DEF LinkUp, CTyped, bookVars
<1>2. CASE Change
  <2>1. Changed \in Part \union {Changed}
    OBVIOUS
  <2>2. \A l \in Links : Append(parts[l], Changed) \in Seq(Part \union {Changed})
    BY <2>1, AppendProperties DEF CTyped
  <2>3. parts' \in [Links -> Seq(Part \union {Changed})]
    BY <1>2, <2>2 DEF Change, CTyped
  <2> QED
    BY <1>2, <2>3 DEF Change, CTyped, bookVars
<1>3. ASSUME NEW l \in Links, CloseOld(l) PROVE CTyped'
  <2>1. parts' \in [Links -> Seq(Part \union {Changed})]
    BY <1>3, EmptySeq DEF CloseOld, CTyped
  <2> QED
    BY <1>3, <2>1 DEF CloseOld, CTyped, bookVars
<1>4. ASSUME NEW l \in Links, ReadChanged(l) PROVE CTyped'
  <2>1. Tail(parts[l]) \in Seq(Part \union {Changed})
    BY <1>4, HeadTailProperties DEF ReadChanged, CTyped
  <2>2. parts' \in [Links -> Seq(Part \union {Changed})]
    BY <1>4, <2>1 DEF ReadChanged, CTyped
  <2>3. syncs' \in Seq(Sync) /\ Len(syncs') <= MaxSyncs
    BY <1>4, DueTyped DEF ReadChanged
  <2> QED
    BY <1>4, <2>2, <2>3 DEF ReadChanged, CTyped, bookVars
<1> QED
  BY <1>1, <1>2, <1>3, <1>4

LEMMA SyncTypes ==
  ASSUME CTyped, NEW i \in DOMAIN syncs,
         ReadVersion(i) \/ AskContacts(i) \/ Look(i) \/ SendPart(i)
  PROVE  CTyped'
<1>1. syncs[i] \in Sync
  BY SyncKnown
<1>2. \E s \in Sync : syncs' = [syncs EXCEPT ![i] = s]
  <2>1. CASE ReadVersion(i)
    <3>1. [[syncs[i] EXCEPT !.step = "asked"] EXCEPT !.have = book.version] \in Sync
      BY <1>1 DEF Sync, CTyped, Book
    <3> QED
      BY <2>1, <3>1 DEF ReadVersion
  <2>2. CASE AskContacts(i)
    <3>1. \A st \in {"sent", "over"} : [syncs[i] EXCEPT !.step = st] \in Sync
      BY <1>1 DEF Sync
    <3> QED
      BY <2>2, <3>1 DEF AskContacts
  <2>3. CASE Look(i)
    <3>1. \A st \in {"over", "answering"} : [[syncs[i] EXCEPT !.step = st] EXCEPT !.sends = version] \in Sync
      BY <1>1 DEF Sync, CTyped
    <3>2. PICK st \in {"over", "answering"} :
            syncs' = [syncs EXCEPT ![i] = [[syncs[i] EXCEPT !.step = st] EXCEPT !.sends = version]]
      BY <2>3 DEF Look
    <3> QED
      BY <3>1, <3>2
  <2>4. CASE SendPart(i)
    <3>1. \A st \in {"over", "answering"} :
            [[syncs[i] EXCEPT !.next = syncs[i].next + 1] EXCEPT !.step = st] \in Sync
      <4>1. syncs[i].sends \in Versions /\ syncs[i].next + 1 \in Nat
        BY <1>1, <2>4 DEF Sync, SendPart
      <4>2. \A s \in Sync, n \in Nat, st \in {"over", "answering"} :
              s.sends \in Versions => [[s EXCEPT !.next = n] EXCEPT !.step = st] \in Sync
        BY DEF Sync
      <4> QED
        BY <1>1, <4>1, <4>2
    <3> QED
      BY <2>4, <3>1 DEF SendPart
  <2> QED
    BY <2>1, <2>2, <2>3, <2>4
<1>3. syncs' \in Seq(Sync) /\ Len(syncs') <= MaxSyncs
  BY <1>2, SyncReplaced
<1>4. parts' \in [Links -> Seq(Part \union {Changed})]
  <2>1. CASE SendPart(i)
    <3>1. [version |-> syncs[i].sends, part |-> syncs[i].next] \in Part
      BY <1>1, <2>1 DEF SendPart, Sync, Part
    <3>2. \A l \in Links :
            Append(parts[l], [version |-> syncs[i].sends, part |-> syncs[i].next]) \in Seq(Part \union {Changed})
      BY <3>1, AppendProperties DEF CTyped
    <3> QED
      BY <1>1, <2>1, <3>2 DEF SendPart, CTyped, Sync
  <2> QED
    BY <2>1 DEF ReadVersion, AskContacts, Look, CTyped
<1> QED
  BY <1>3, <1>4 DEF ReadVersion, AskContacts, Look, SendPart, CTyped, bookVars

-----------------------------------------------------------------------------
(* Contacts: the books. *)

\* A part goes on with a book of its own version, or begins one.
LEMMA PartAdded ==
  ASSUME NEW v \in Versions, NEW old \in Seq(Part), NEW p \in Part, p.version = v,
         \A i \in DOMAIN old : old[i].version = v
  PROVE  LET b == [version |-> v, parts |-> old \o <<p>>] IN
         /\ b \in Book /\ Pure(b)
         /\ p.part = Parts[v] - 1 => Whole(b)
<1> DEFINE b == [version |-> v, parts |-> old \o <<p>>]
<1>1. old \o <<p>> = Append(old, p)
  BY AppendIsConcat
<1>2. /\ Append(old, p) \in Seq(Part) /\ Len(Append(old, p)) = Len(old) + 1
      /\ \A i \in 1 .. Len(old) : Append(old, p)[i] = old[i]
      /\ Append(old, p)[Len(old) + 1] = p
  BY AppendProperties
<1>3. /\ DOMAIN old = 1 .. Len(old) /\ Len(old) \in Nat
      /\ DOMAIN Append(old, p) = 1 .. Len(old) + 1
  BY <1>2, LenProperties
<1>4. b \in Book
  BY <1>1, <1>2 DEF Book
<1>5. ASSUME NEW i \in DOMAIN b.parts PROVE b.parts[i].version = v
  <2>1. i \in 1 .. Len(old) \/ i = Len(old) + 1
    BY <1>1, <1>3
  <2> QED
    BY <1>1, <1>2, <1>3, <2>1
<1>6. Pure(b)
  BY <1>5 DEF Pure
<1>7. Last(b.parts) = p
  BY <1>1, <1>2 DEF Last
<1> QED
  BY <1>4, <1>6, <1>7 DEF Whole

LEMMA ReadPartKeeps ==
  ASSUME BInv, NEW l \in Links, ReadPart(l)
  PROVE  BInv'
<1> DEFINE p == Head(parts[l])
           v == IF Continued(p) THEN incoming.version ELSE p.version
           old == IF Continued(p) THEN incoming.parts ELSE <<>>
           in == [version |-> v, parts |-> old \o <<p>>]
           done == p.part = Parts[p.version] - 1
<1>1. parts[l] \in Seq(Part \union {Changed}) /\ parts[l] # <<>> /\ p # Changed
  BY DEF ReadPart, BInv, CTyped
<1>2. p \in Part /\ Tail(parts[l]) \in Seq(Part \union {Changed})
  BY <1>1, HeadTailProperties
<1>3. v = p.version /\ v \in Versions
  BY <1>2 DEF Continued, Part
<1>4. old \in Seq(Part) /\ \A i \in DOMAIN old : old[i].version = v
  <2>1. CASE Continued(p)
    BY <2>1 DEF BInv, CTyped, Book, Pure
  <2>2. CASE ~Continued(p)
    BY <2>2, EmptySeq
  <2> QED
    BY <2>1, <2>2
<1>5. in \in Book /\ Pure(in) /\ (done => Whole(in))
  <2> HIDE DEF v, old, p
  <2> QED
    BY <1>2, <1>3, <1>4, PartAdded
<1>6. /\ parts' = [parts EXCEPT ![l] = Tail(parts[l])]
      /\ incoming' = IF done THEN NoBook ELSE in
      /\ book' = IF done THEN in ELSE book
      /\ saving' = IF done THEN [saving EXCEPT ![l] = in] ELSE saving
      /\ UNCHANGED <<version, links, usable, syncs, file, starts>>
  BY DEF ReadPart, BInv, CTyped
<1> HIDE DEF p, v, old, in, done
<1>7. CTyped'
  BY <1>2, <1>5, <1>6, NoBookTyped DEF BInv, CTyped
<1>8. Pure(incoming')
  BY <1>5, <1>6, NoBookTyped DEF BInv
<1>9. Whole(book') /\ Whole(file')
  BY <1>5, <1>6 DEF BInv
<1>10. \A k \in Links : Whole(saving'[k])
  BY <1>5, <1>6 DEF BInv, CTyped
<1> QED
  BY <1>7, <1>8, <1>9, <1>10 DEF BInv, Pure, Whole

LEMMA SaveKeeps ==
  ASSUME BInv, NEW l \in Links, SaveBook(l)
  PROVE  BInv'
<1>1. /\ file' \in {saving[l], file, NoBook} /\ saving' = [saving EXCEPT ![l] = NoBook]
      /\ UNCHANGED <<version, links, usable, syncs, parts, incoming, book, starts>>
  BY DEF SaveBook
<1>2. CTyped'
  BY <1>1, NoBookTyped DEF BInv, CTyped
<1>3. Whole(file') /\ \A k \in Links : Whole(saving'[k])
  BY <1>1, NoBookTyped DEF BInv, CTyped
<1> QED
  BY <1>1, <1>2, <1>3 DEF BInv, Pure, Whole

LEMMA RestartKeeps ==
  ASSUME BInv, Restart
  PROVE  BInv'
<1>1. syncs' \in Seq(Sync) /\ Len(syncs') = Len(syncs)
  <2>1. syncs \in [1 .. Len(syncs) -> Sync] /\ Len(syncs) \in Nat /\ DOMAIN syncs = 1 .. Len(syncs)
    BY LenProperties DEF BInv, CTyped
  <2>2. \A s \in Sync : [s EXCEPT !.step = "over"] \in Sync
    BY DEF Sync
  <2>3. syncs' \in [1 .. Len(syncs) -> Sync]
    BY <2>1, <2>2 DEF Restart
  <2> QED
    BY <2>1, <2>3, SeqDef, LenProperties
<1>2. starts' \in 0 .. MaxStarts
  BY ContactsAssumption DEF Restart, BInv, CTyped
<1>3. parts' \in [Links -> Seq(Part \union {Changed})]
  BY EmptySeq DEF Restart
<1>4. incoming' = NoBook /\ book' = file /\ file' = file /\ \A l \in Links : saving'[l] = NoBook
  BY DEF Restart
<1>5. saving' \in [Links -> Book]
  BY NoBookTyped DEF Restart
<1>6. CTyped'
  BY <1>1, <1>2, <1>3, <1>4, <1>5, NoBookTyped DEF Restart, BInv, CTyped
<1> QED
  BY <1>4, <1>6, NoBookTyped DEF BInv, Pure, Whole

LEMMA BooksKeep ==
  ASSUME BInv, [ContactsNext]_cVars
  PROVE  BInv'
<1>1. CASE UNCHANGED cVars
  <2>1. CTyped'
    BY <1>1 DEF cVars, BInv, CTyped
  <2> QED
    BY <1>1, <2>1, BooksAlone DEF cVars, bookVars
<1>2. CASE LinkUp \/ Change \/ \E l \in Links : CloseOld(l) \/ ReadChanged(l)
  <2>1. CTyped'
    BY <1>2, LinkTypes DEF BInv
  <2>2. UNCHANGED bookVars
    BY <1>2 DEF LinkUp, Change, CloseOld, ReadChanged
  <2> QED
    BY <2>1, <2>2, BooksAlone
<1>3. ASSUME NEW i \in DOMAIN syncs, ReadVersion(i) \/ AskContacts(i) \/ Look(i) \/ SendPart(i)
      PROVE  BInv'
  <2>1. CTyped'
    BY <1>3, SyncTypes DEF BInv
  <2>2. UNCHANGED bookVars
    BY <1>3 DEF ReadVersion, AskContacts, Look, SendPart
  <2> QED
    BY <2>1, <2>2, BooksAlone
<1> QED
  BY <1>1, <1>2, <1>3, ReadPartKeeps, SaveKeeps, RestartKeeps DEF ContactsNext

LEMMA AlwaysBooks == ContactsSpec => []BInv
  BY BooksStart, BooksKeep, PTL DEF ContactsSpec

(* Every variable has its type (messages_app.go).                          *)
THEOREM ContactsTypeCorrect == ContactsSpec => []BooksOK
<1>1. ASSUME NEW b \in Book PROVE IsBook(b)
  BY LenProperties DEF Book, IsBook
<1>2. BInv => BooksOK
  <2>1. SUFFICES ASSUME BInv PROVE BooksOK
    OBVIOUS
  <2>2. ASSUME NEW i \in DOMAIN syncs
        PROVE  syncs[i].step \in {"due", "asked", "sent", "looking", "answering", "over"}
    BY <2>1, SyncKnown DEF BInv, Sync
  <2> QED
    BY <1>1, <2>1, <2>2 DEF BInv, CTyped, BooksOK
<1> QED
  BY <1>2, AlwaysBooks, PTL

(* onContactsPart: however the parts of several answers come in, over any  *)
(* number of links, requests, changes and restarts, a book in use or on    *)
(* the disk is made of parts of the one version it says it is, with its    *)
(* last one at the end.                                                    *)
THEOREM BooksNeverMixed == ContactsSpec => []BooksUnmixed
<1>1. BInv => BooksUnmixed
  BY DEF BInv, Whole, Pure, BooksUnmixed
<1> QED
  BY <1>1, AlwaysBooks, PTL

-----------------------------------------------------------------------------
(* Clipboards: types. *)

BoardsTyped ==
  /\ copied \in [Desks -> SUBSET Texts] /\ sent \in [Desks -> SUBSET Texts]
  /\ history \in [Desks -> SUBSET Texts]
  /\ clip \in [Desks -> Texts \union {NoText}] /\ last \in [Desks -> Texts \union {NoText}]
  /\ changed \in [Desks -> Nat]
  /\ signals \in [Desks -> Seq(Texts)] /\ inbox \in [Desks -> Seq(Texts)]
  /\ setting \in [Desks -> {NotSetting} \union [text : Texts, step : {"last", "call"}]]
  /\ copies \in 0..MaxCopies /\ overlapped \in BOOLEAN
  /\ missed \in [Desks -> SUBSET Texts] /\ parted \subseteq Desks

(* The helper learns of a change only of a text. *)
ChangesHeld == \A d \in Desks : changed[d] > 0 => clip[d] \in Texts

(* What is or will be the last text is in the history.                     *)
Remembered ==
  \A d \in Desks : /\ last[d] = NoText \/ last[d] \in history[d]
                   /\ setting[d] # NotSetting => setting[d].text \in history[d]

(* Where a computer can be while one text makes its way: at rest, setting  *)
(* it, hearing of what it set itself, or not having read that it came in.  *)
Everything == UNION {copied[d] : d \in Desks}
Silent(d)    == changed[d] = 0 /\ signals[d] = <<>>
Signals(d, x) == \/ changed[d] = 1 /\ signals[d] = <<>>
                 \/ changed[d] = 0 /\ signals[d] = <<x>>
Free(d)      == inbox[d] = <<>> /\ setting[d] = NotSetting

InStep(d)    == d \in parted \/ clip[d] = last[d]
Still(d)     == Silent(d) /\ Free(d) /\ InStep(d)
Taking(d, x) == /\ Silent(d) /\ inbox[d] = <<>> /\ setting[d] # NotSetting /\ setting[d].text = x
                /\ setting[d].step = "call" => last[d] = x
Echoes(d, x) == Signals(d, x) /\ Free(d) /\ clip[d] = x /\ last[d] = x
News(d, x)   == Silent(d) /\ inbox[d] = <<x>> /\ setting[d] = NotSetting /\ InStep(d)

(* All but what it missed is in its history, or all but x as well.         *)
Knows(d, all)      == history[d] = all \ missed[d]
Lacks(d, x, all) == x \in all /\ x \notin missed[d] /\ history[d] = (all \ missed[d]) \ {x}

SpreadAt(d, x, all) ==
  \/ (Still(d) \/ Taking(d, x) \/ Echoes(d, x)) /\ Knows(d, all)
  \/ News(d, x) /\ Lacks(d, x, all)

(* It is at every computer or on its way there, or was missed ...          *)
Spread(x) == \A d \in Desks : SpreadAt(d, x, Everything)

(* ... or only the computer whose user copied it has it, and will hear so. *)
Starts(d, x) == x \in copied[d] /\ Signals(d, x) /\ Free(d) /\ clip[d] = x
Fresh(x) ==
  \E c \in Desks : /\ Starts(c, x)
                   /\ \A d \in Desks : Lacks(d, x, Everything) /\ (d # c => Still(d))

MissedCopied == \A d \in Desks : missed[d] \subseteq Everything
OneText ==
  ~overlapped => /\ \E x \in Texts \union {NoText} : Spread(x) \/ Fresh(x)
                 /\ MissedCopied
SentCopied == ~overlapped => \A c \in Desks : sent[c] \subseteq copied[c]

ClipInv == BoardsTyped /\ ChangesHeld /\ Remembered /\ OneText /\ SentCopied

-----------------------------------------------------------------------------
LEMMA OneSeq ==
  ASSUME NEW x
  PROVE  /\ Append(<<>>, x) = <<x>> /\ Head(<<x>>) = x /\ Tail(<<x>>) = <<>>
         /\ <<x>> # <<>>
  OBVIOUS

LEMMA SeqSteps ==
  ASSUME NEW S, NEW s \in Seq(S)
  PROVE  /\ \A x \in S : Append(s, x) \in Seq(S)
         /\ s # <<>> => Head(s) \in S /\ Tail(s) \in Seq(S)
  OBVIOUS

LEMMA ClipStarts == ClipInit => ClipInv
<1> SUFFICES ASSUME ClipInit PROVE ClipInv
  OBVIOUS
<1>1. <<>> \in Seq(Texts)
  OBVIOUS
<1>2. BoardsTyped
  <2>1. /\ copied \in [Desks -> SUBSET Texts] /\ sent = copied /\ history = copied
        /\ missed = copied /\ parted = {}
        /\ clip \in [Desks -> Texts \union {NoText}] /\ last = clip
    BY DEF ClipInit
  <2>2. signals \in [Desks -> Seq(Texts)] /\ inbox = signals
    BY <1>1 DEF ClipInit
  <2>3. setting \in [Desks -> {NotSetting} \union [text : Texts, step : {"last", "call"}]]
    BY DEF ClipInit
  <2>4. changed \in [Desks -> Nat]
    BY DEF ClipInit
  <2>5. copies \in 0..MaxCopies /\ overlapped \in BOOLEAN
    <3>1. 0 \in 0..MaxCopies
      BY ClipAssumption
    <3> QED
      BY <3>1 DEF ClipInit
  <2> QED
    BY <2>1, <2>2, <2>3, <2>4, <2>5 DEF BoardsTyped
<1>3. ChangesHeld /\ Remembered /\ SentCopied
  BY DEF ClipInit, ChangesHeld, Remembered, SentCopied
<1>4. Everything = {}
  BY DEF ClipInit, Everything
<1>5. Spread(NoText)
  BY <1>4 DEF ClipInit, Spread, SpreadAt, Still, InStep, Knows, Silent, Free
<1>6. MissedCopied
  BY DEF ClipInit, MissedCopied
<1> QED
  BY <1>2, <1>3, <1>5, <1>6 DEF ClipInv, OneText

(* Types, and that nothing is a text before it is one. *)
BasicInv == BoardsTyped /\ ChangesHeld /\ Remembered

LEMMA NotSettingKnown ==
  ASSUME NEW x \in Texts, NEW s \in {"last", "call"}
  PROVE  /\ [text |-> x, step |-> s] # NotSetting
         /\ [text |-> x, step |-> s] \in {NotSetting} \union [text : Texts, step : {"last", "call"}]
  BY ClipAssumption DEF NotSetting

LEMMA UserKeepsTypes ==
  ASSUME BasicInv, NEW c \in Desks, NEW x \in Texts, Copy(c, x) \/ CopyFromHistory(c, x)
  PROVE  BasicInv'
<1>1. ByUser(c, x) /\ UNCHANGED <<signals, last, history, inbox, sent>>
  BY DEF Copy, CopyFromHistory
<1>2. /\ copied' \in [Desks -> SUBSET Texts] /\ copies' \in 0..MaxCopies /\ overlapped' \in BOOLEAN
  <2>1. copies' \in 0..MaxCopies
    BY <1>1, ClipAssumption DEF ByUser, BasicInv, BoardsTyped
  <2>2. overlapped' \in BOOLEAN
    BY <1>1 DEF ByUser, BasicInv, BoardsTyped
  <2> QED
    BY <1>1, <2>1, <2>2 DEF ByUser, BasicInv, BoardsTyped
<1>3. CASE Copy(c, x)
  <2>1. /\ clip' = [clip EXCEPT ![c] = x] /\ UNCHANGED setting
        /\ changed' = [changed EXCEPT ![c] = @ + 1] \/ changed' = changed
        /\ missed' \in [Desks -> SUBSET Texts] /\ parted' \subseteq Desks
    BY <1>3 DEF Copy, Holds, HoldsUntold, losses, BasicInv, BoardsTyped
  <2>2. BoardsTyped'
    BY <1>1, <1>2, <2>1 DEF BasicInv, BoardsTyped
  <2>3. ChangesHeld'
    BY <2>1 DEF BasicInv, BoardsTyped, ChangesHeld
  <2>4. Remembered'
    BY <1>1, <2>1 DEF BasicInv, Remembered
  <2> QED
    BY <2>2, <2>3, <2>4 DEF BasicInv
<1>4. CASE CopyFromHistory(c, x)
  <2>1. /\ setting' = [setting EXCEPT ![c] = [text |-> x, step |-> "last"]]
        /\ UNCHANGED <<clip, changed, missed, parted>> /\ x \in history[c]
    BY <1>4 DEF CopyFromHistory, losses
  <2>2. BoardsTyped'
    BY <1>1, <1>2, <2>1, NotSettingKnown DEF BasicInv, BoardsTyped
  <2>3. ChangesHeld'
    BY <2>1 DEF BasicInv, ChangesHeld
  <2>4. Remembered'
    BY <1>1, <2>1 DEF BasicInv, BoardsTyped, Remembered
  <2> QED
    BY <2>2, <2>3, <2>4 DEF BasicInv
<1> QED
  BY <1>3, <1>4

LEMMA TellKeepsTypes ==
  ASSUME BasicInv, NEW c \in Desks, Tell(c)
  PROVE  BasicInv'
<1>1. /\ changed[c] > 0 /\ changed' = [changed EXCEPT ![c] = @ - 1]
      /\ signals' = [signals EXCEPT ![c] = Append(@, clip[c])]
      /\ UNCHANGED <<copied, copies, overlapped, clip, last, history, setting, inbox, sent, missed, parted>>
  BY DEF Tell, byUsers, losses
<1>2. Append(signals[c], clip[c]) \in Seq(Texts)
  BY <1>1, SeqSteps DEF BasicInv, BoardsTyped, ChangesHeld
<1>3. changed[c] \in Nat /\ changed[c] - 1 \in Nat
  BY <1>1 DEF BasicInv, BoardsTyped
<1>4. signals' \in [Desks -> Seq(Texts)] /\ changed' \in [Desks -> Nat]
  BY <1>1, <1>2, <1>3 DEF BasicInv, BoardsTyped
<1>5. BoardsTyped'
  BY <1>1, <1>4 DEF BasicInv, BoardsTyped
<1>6. ChangesHeld'
  BY <1>1, <1>3 DEF BasicInv, BoardsTyped, ChangesHeld
<1>7. Remembered'
  BY <1>1 DEF BasicInv, Remembered
<1> QED
  BY <1>5, <1>6, <1>7 DEF BasicInv

(* remember *)
LEMMA RememberTypes ==
  ASSUME BasicInv, NEW c \in Desks, NEW x \in Texts, Remember(c, x)
  PROVE  /\ last' = [last EXCEPT ![c] = x] /\ last' \in [Desks -> Texts \union {NoText}]
         /\ history' \in [Desks -> SUBSET Texts]
         /\ history'[c] = history[c] \union {x} /\ \A d \in Desks : d # c => history'[d] = history[d]
  BY DEF Remember, BasicInv, BoardsTyped

LEMMA ReadSignalKeepsTypes ==
  ASSUME BasicInv, NEW c \in Desks, ReadSignal(c)
  PROVE  BasicInv'
<1> DEFINE x == Head(signals[c])
<1>1. x \in Texts /\ Tail(signals[c]) \in Seq(Texts)
  BY SeqSteps DEF ReadSignal, BasicInv, BoardsTyped
<1>2. /\ signals' = [signals EXCEPT ![c] = Tail(@)]
      /\ UNCHANGED <<copied, copies, overlapped, clip, changed, setting>>
  BY DEF ReadSignal, byUsers
<1>3. signals' \in [Desks -> Seq(Texts)]
  BY <1>1, <1>2 DEF BasicInv, BoardsTyped
<1>4. CASE x = last[c]
  <2>1. UNCHANGED <<last, history, sent, inbox, missed, parted>>
    BY <1>4 DEF ReadSignal, losses
  <2> QED
    BY <1>2, <1>3, <2>1 DEF BasicInv, BoardsTyped, ChangesHeld, Remembered
<1>5. CASE x # last[c]
  <2>1. /\ Remember(c, x) /\ sent' = [sent EXCEPT ![c] = @ \union {x}]
        /\ \E to \in SUBSET (Desks \ {c}) :
             /\ inbox' = [d \in Desks |-> IF d \in to THEN Append(inbox[d], x) ELSE inbox[d]]
             /\ missed' = [d \in Desks |-> IF d \in to \union {c} THEN missed[d] ELSE missed[d] \union {x}]
        /\ parted' = parted \ {c}
    BY <1>5 DEF ReadSignal, SendTo
  <2>2. /\ inbox' \in [Desks -> Seq(Texts)]
        /\ missed' \in [Desks -> SUBSET Texts] /\ parted' \subseteq Desks
    BY <1>1, <2>1, SeqSteps DEF BasicInv, BoardsTyped
  <2>3. sent' \in [Desks -> SUBSET Texts]
    BY <1>1, <2>1 DEF BasicInv, BoardsTyped
  <2>4. BoardsTyped'
    BY <1>1, <1>2, <1>3, <2>1, <2>2, <2>3, RememberTypes DEF BasicInv, BoardsTyped
  <2>5. ChangesHeld'
    BY <1>2 DEF BasicInv, ChangesHeld
  <2>6. Remembered'
    <3>1. /\ last' = [last EXCEPT ![c] = x] /\ history'[c] = history[c] \union {x}
          /\ \A d \in Desks : d # c => history'[d] = history[d]
      BY <1>1, <2>1, RememberTypes
    <3>2. UNCHANGED setting
      BY <1>2
    <3> HIDE DEF x
    <3> QED
      BY <1>1, <3>1, <3>2 DEF BasicInv, BoardsTyped, Remembered
  <2> QED
    BY <2>4, <2>5, <2>6 DEF BasicInv
<1> QED
  BY <1>4, <1>5

LEMMA ReceiveKeepsTypes ==
  ASSUME BasicInv, NEW c \in Desks, Receive(c)
  PROVE  BasicInv'
<1> DEFINE x == Head(inbox[c])
<1>1. x \in Texts /\ Tail(inbox[c]) \in Seq(Texts)
  BY SeqSteps DEF Receive, BasicInv, BoardsTyped
<1>2. /\ inbox' = [inbox EXCEPT ![c] = Tail(@)]
      /\ UNCHANGED <<copied, copies, overlapped, clip, changed, signals, sent>>
  BY DEF Receive, byUsers
<1>3. inbox' \in [Desks -> Seq(Texts)]
  BY <1>1, <1>2 DEF BasicInv, BoardsTyped
<1>4. CASE UNCHANGED <<last, history, setting>>
  <2>1. parted' = parted /\ (missed' = missed \/ missed' = [missed EXCEPT ![c] = @ \union {x}])
    BY DEF Receive, losses
  <2>2. missed' \in [Desks -> SUBSET Texts]
    <3>1. missed \in [Desks -> SUBSET Texts]
      BY DEF BasicInv, BoardsTyped
    <3>2. CASE missed' = [missed EXCEPT ![c] = @ \union {x}]
      BY <1>1, <3>1, <3>2
    <3> QED
      BY <2>1, <3>1, <3>2
  <2>3. BoardsTyped'
    BY <1>2, <1>3, <1>4, <2>1, <2>2 DEF BasicInv, BoardsTyped
  <2>4. ChangesHeld' /\ Remembered'
    BY <1>2, <1>4 DEF BasicInv, ChangesHeld, Remembered
  <2> QED
    BY <2>3, <2>4 DEF BasicInv
<1>5. CASE ~ UNCHANGED <<last, history, setting>>
  <2>1. /\ Remember(c, x) /\ setting' = [setting EXCEPT ![c] = [text |-> x, step |-> "last"]]
        /\ UNCHANGED <<missed, parted>>
    BY <1>5 DEF Receive, losses
  <2>2. setting' \in [Desks -> {NotSetting} \union [text : Texts, step : {"last", "call"}]]
    BY <1>1, <2>1, NotSettingKnown DEF BasicInv, BoardsTyped
  <2>3. BoardsTyped'
    BY <1>1, <1>2, <1>3, <2>1, <2>2, RememberTypes DEF BasicInv, BoardsTyped
  <2>4. ChangesHeld'
    BY <1>2 DEF BasicInv, ChangesHeld
  <2>5. Remembered'
    BY <1>1, <1>2, <2>1, RememberTypes DEF BasicInv, BoardsTyped, Remembered
  <2> QED
    BY <2>3, <2>4, <2>5 DEF BasicInv
<1> QED
  BY <1>4, <1>5

LEMMA SetKeepsTypes ==
  ASSUME BasicInv, NEW c \in Desks, SetLast(c) \/ CallHelper(c)
  PROVE  BasicInv'
<1>1. setting[c] # NotSetting /\ setting[c] \in [text : Texts, step : {"last", "call"}]
      /\ setting[c].text \in Texts /\ setting[c].text \in history[c]
  BY DEF SetLast, CallHelper, BasicInv, BoardsTyped, Remembered, NotSetting
<1>2. CASE SetLast(c)
  <2>1. /\ last' = [last EXCEPT ![c] = setting[c].text]
        /\ setting' = [setting EXCEPT ![c].step = "call"]
        /\ UNCHANGED <<copied, copies, overlapped, clip, changed, signals, history, inbox, sent, missed, parted>>
    BY <1>2 DEF SetLast, byUsers, losses
  <2>2. setting'[c] = [text |-> setting[c].text, step |-> "call"]
    BY <1>1, <2>1 DEF BasicInv, BoardsTyped
  <2>3. setting' \in [Desks -> {NotSetting} \union [text : Texts, step : {"last", "call"}]]
    BY <1>1, <2>1 DEF BasicInv, BoardsTyped
  <2>4. BoardsTyped'
    BY <1>1, <2>1, <2>3 DEF BasicInv, BoardsTyped
  <2>5. ChangesHeld'
    BY <2>1 DEF BasicInv, ChangesHeld
  <2>6. Remembered'
    BY <1>1, <2>1, <2>2 DEF BasicInv, BoardsTyped, Remembered
  <2> QED
    BY <2>4, <2>5, <2>6 DEF BasicInv
<1>3. CASE CallHelper(c)
  <2>1. /\ \/ /\ clip' = [clip EXCEPT ![c] = setting[c].text]
              /\ changed' = [changed EXCEPT ![c] = @ + 1] \/ changed' = changed
           \/ UNCHANGED <<clip, changed>>
        /\ parted' = parted \ {c} \/ parted' = parted \union {c}
        /\ setting' = [setting EXCEPT ![c] = NotSetting]
        /\ UNCHANGED <<copied, copies, overlapped, signals, last, history, inbox, sent, missed>>
    BY <1>3 DEF CallHelper, Holds, HoldsUntold, byUsers
  <2>2. BoardsTyped'
    <3>1. clip' \in [Desks -> Texts \union {NoText}]
      BY <1>1, <2>1 DEF BasicInv, BoardsTyped
    <3>3. changed' \in [Desks -> Nat]
      <4>1. changed' = changed \/ changed' = [changed EXCEPT ![c] = @ + 1]
        BY <2>1
      <4>2. changed \in [Desks -> Nat]
        BY DEF BasicInv, BoardsTyped
      <4>3. CASE changed' = [changed EXCEPT ![c] = @ + 1]
        BY <4>2, <4>3
      <4> QED
        BY <4>1, <4>2, <4>3
    <3>4. setting' \in [Desks -> {NotSetting} \union [text : Texts, step : {"last", "call"}]]
      BY <2>1 DEF BasicInv, BoardsTyped
    <3>2. parted' \subseteq Desks
      BY <2>1 DEF BasicInv, BoardsTyped
    <3> QED
      BY <2>1, <3>1, <3>2, <3>3, <3>4 DEF BasicInv, BoardsTyped
  <2>3. ChangesHeld'
    BY <1>1, <2>1 DEF BasicInv, BoardsTyped, ChangesHeld
  <2>4. Remembered'
    BY <2>1 DEF BasicInv, BoardsTyped, Remembered
  <2> QED
    BY <2>2, <2>3, <2>4 DEF BasicInv
<1> QED
  BY <1>2, <1>3

(* A step of one computer while nobody copies: where the others are stays, *)
(* so where it goes itself is all there is to show.                        *)
LEMMA OthersStay ==
  ASSUME NEW c \in Desks, NEW x, NEW d \in Desks, d # c, UNCHANGED copied,
         changed'[d] = changed[d], signals'[d] = signals[d], inbox'[d] = inbox[d],
         setting'[d] = setting[d], clip'[d] = clip[d], last'[d] = last[d], history'[d] = history[d],
         missed'[d] = missed[d], d \in parted' <=> d \in parted
  PROVE  /\ Everything' = Everything
         /\ SpreadAt(d, x, Everything) => SpreadAt(d, x, Everything)'
         /\ Still(d) => Still(d)'
         /\ Lacks(d, x, Everything) => Lacks(d, x, Everything)'
<1>1. Everything' = Everything
  BY DEF Everything
<1>2. (Still(d) => Still(d)') /\ (Taking(d, x) => Taking(d, x)') /\ (Echoes(d, x) => Echoes(d, x)')
  BY DEF Still, InStep, Taking, Echoes, Silent, Free, Signals
<1>3. News(d, x) => News(d, x)'
  BY DEF News, InStep, Silent
<1>4. /\ Knows(d, Everything) => Knows(d, Everything)'
      /\ Lacks(d, x, Everything) => Lacks(d, x, Everything)'
  BY <1>1 DEF Knows, Lacks
<1> QED
  BY <1>1, <1>2, <1>3, <1>4 DEF SpreadAt

(* What a step of computer c alone must show. *)
Alone(c) ==
  /\ UNCHANGED <<copied, overlapped, sent>>
  /\ \A d \in Desks : d # c =>
       /\ changed'[d] = changed[d] /\ signals'[d] = signals[d] /\ inbox'[d] = inbox[d]
       /\ setting'[d] = setting[d] /\ clip'[d] = clip[d] /\ last'[d] = last[d]
       /\ history'[d] = history[d] /\ missed'[d] = missed[d] /\ (d \in parted' <=> d \in parted)

LEMMA SpreadStays ==
  ASSUME NEW x, NEW c \in Desks, Alone(c), Spread(x), SpreadAt(c, x, Everything)'
  PROVE  Spread(x)'
<1> SUFFICES ASSUME NEW d \in Desks PROVE SpreadAt(d, x, Everything)'
  BY DEF Spread
<1> QED
  BY OthersStay DEF Alone, Spread

LEMMA TextKnown ==
  ASSUME BasicInv, NEW x, NEW d \in Desks, x \in Everything, x \notin history[d]
  PROVE  last[d] # x
<1>1. x \in Texts
  BY DEF Everything, BasicInv, BoardsTyped
<1> QED
  BY <1>1, ClipAssumption DEF BasicInv, Remembered

(* With everything quiet each computer is at rest with all the texts.      *)
LEMMA QuietSettled ==
  ASSUME OneText, ~overlapped, Quiet
  PROVE  \A d \in Desks : Still(d) /\ Knows(d, Everything) /\ missed[d] \subseteq Everything
<1>1. PICK x \in Texts \union {NoText} : Spread(x) \/ Fresh(x)
  BY DEF OneText
<1>2. <<x>> # <<>>
  OBVIOUS
<1>3. ~Fresh(x)
  BY <1>2 DEF Fresh, Starts, Signals, Quiet
<1>4. ASSUME NEW d \in Desks PROVE ~Taking(d, x) /\ ~Echoes(d, x) /\ ~News(d, x)
  <2>1. changed[d] = 0 /\ signals[d] = <<>> /\ inbox[d] = <<>> /\ setting[d] = NotSetting
    BY DEF Quiet
  <2>2. ~Signals(d, x)
    BY <1>2, <2>1 DEF Signals
  <2> QED
    BY <1>2, <2>1, <2>2 DEF Taking, Echoes, News
<1> QED
  BY <1>1, <1>3, <1>4 DEF Spread, SpreadAt, OneText, MissedCopied

LEMMA CopyKeeps ==
  ASSUME BasicInv, OneText, SentCopied, NEW c \in Desks, NEW x \in Texts, Copy(c, x), ~overlapped'
  PROVE  OneText' /\ SentCopied'
<1>1. /\ Quiet /\ ~overlapped /\ x \notin Everything
      /\ copied' = [copied EXCEPT ![c] = @ \union {x}]
      /\ clip' = [clip EXCEPT ![c] = x]
      /\ UNCHANGED <<signals, last, history, setting, inbox, sent>>
  BY DEF Copy, ByUser, Holds, HoldsUntold, Everything
<1>2. \A d \in Desks : Still(d) /\ Knows(d, Everything) /\ missed[d] \subseteq Everything
  BY <1>1, QuietSettled
<1>3. Everything' = Everything \union {x}
  BY <1>1 DEF Everything, BasicInv, BoardsTyped
<1>4. ASSUME Holds(c, x) /\ UNCHANGED losses PROVE OneText'
  <2>1. changed' = [changed EXCEPT ![c] = @ + 1] /\ UNCHANGED <<missed, parted>>
    BY <1>4 DEF Holds, losses
  <2>2. \A d \in Desks : Lacks(d, x, Everything)'
    BY <1>1, <1>2, <1>3, <2>1 DEF Lacks, Knows
  <2>3. \A d \in Desks : d # c => Still(d)'
    BY <1>1, <1>2, <2>1 DEF Still, InStep, Silent, Free, BasicInv, BoardsTyped
  <2>4. Starts(c, x)'
    BY <1>1, <1>2, <2>1 DEF Starts, Signals, Still, Silent, Free, BasicInv, BoardsTyped
  <2>5. Fresh(x)' /\ MissedCopied'
    BY <1>2, <1>3, <2>1, <2>2, <2>3, <2>4 DEF Fresh, MissedCopied
  <2> QED
    BY <2>5 DEF OneText
<1>5. ASSUME HoldsUntold(c, x), missed' = [d \in Desks |-> missed[d] \union {x}], parted' = parted \union {c}
      PROVE  OneText'
  <2>1. changed' = changed
    BY <1>5 DEF HoldsUntold
  <2>2. \A d \in Desks : Knows(d, Everything)'
    BY <1>1, <1>2, <1>3, <1>5 DEF Knows
  <2>3. \A d \in Desks : Still(d)'
    BY <1>1, <1>2, <1>5, <2>1 DEF Still, InStep, Silent, Free, BasicInv, BoardsTyped
  <2>4. Spread(x)' /\ MissedCopied'
    BY <1>2, <1>3, <1>5, <2>2, <2>3 DEF Spread, SpreadAt, MissedCopied
  <2> QED
    BY <2>4 DEF OneText
<1>6. SentCopied'
  BY <1>1 DEF SentCopied, BasicInv, BoardsTyped
<1> QED
  BY <1>4, <1>5, <1>6 DEF Copy

LEMMA FromHistoryKeeps ==
  ASSUME BasicInv, OneText, SentCopied, NEW c \in Desks, NEW x \in Texts, CopyFromHistory(c, x),
         ~overlapped'
  PROVE  OneText' /\ SentCopied'
<1>1. /\ Quiet /\ ~overlapped /\ x \in history[c]
      /\ copied' = [copied EXCEPT ![c] = @ \union {x}]
      /\ setting' = [setting EXCEPT ![c] = [text |-> x, step |-> "last"]]
      /\ UNCHANGED <<clip, changed, signals, last, history, inbox, sent, missed, parted>>
  BY DEF CopyFromHistory, ByUser, losses
<1>2. \A d \in Desks : Still(d) /\ Knows(d, Everything) /\ missed[d] \subseteq Everything
  BY <1>1, QuietSettled
<1>3. x \in Everything
  BY <1>1, <1>2 DEF Knows
<1>4. Everything' = Everything
  BY <1>1, <1>3 DEF Everything, BasicInv, BoardsTyped
<1>5. \A d \in Desks : d # c => Still(d)'
  BY <1>1, <1>2 DEF Still, InStep, Silent, Free, BasicInv, BoardsTyped
<1>6. setting'[c] = [text |-> x, step |-> "last"]
  BY <1>1 DEF BasicInv, BoardsTyped
<1>7. Taking(c, x)'
  BY <1>1, <1>2, <1>6, NotSettingKnown DEF Taking, Still, Silent, Free
<1>8. Spread(x)' /\ MissedCopied'
  BY <1>1, <1>2, <1>4, <1>5, <1>7 DEF Spread, SpreadAt, Knows, MissedCopied
<1>9. SentCopied'
  BY <1>1 DEF SentCopied, BasicInv, BoardsTyped
<1> QED
  BY <1>8, <1>9 DEF OneText

LEMMA TellKeeps ==
  ASSUME BasicInv, OneText, NEW c \in Desks, Tell(c), ~overlapped'
  PROVE  OneText'
<1>1. /\ changed[c] > 0 /\ changed' = [changed EXCEPT ![c] = @ - 1]
      /\ signals' = [signals EXCEPT ![c] = Append(@, clip[c])]
      /\ UNCHANGED <<copied, overlapped, clip, last, history, setting, inbox, sent, missed, parted>>
  BY DEF Tell, byUsers, losses
<1>2. changed'[c] = changed[c] - 1 /\ signals'[c] = Append(signals[c], clip[c])
  BY <1>1 DEF BasicInv, BoardsTyped
<1>3. Alone(c)
  BY <1>1 DEF Alone, BasicInv, BoardsTyped
<1>4. PICK x \in Texts \union {NoText} : Spread(x) \/ Fresh(x)
  BY <1>1 DEF OneText
<1>5. Everything' = Everything /\ MissedCopied'
  BY <1>1 DEF Everything, OneText, MissedCopied
<1>6. ASSUME Signals(c, x), clip[c] = x PROVE Signals(c, x)'
  <2>1. changed[c] = 1 /\ signals[c] = <<>>
    BY <1>1, <1>6 DEF Signals
  <2>2. Append(<<>>, x) = <<x>>
    BY OneSeq
  <2>3. changed'[c] = 0 /\ signals'[c] = <<x>>
    BY <1>2, <1>6, <2>1, <2>2
  <2> QED
    BY <2>3 DEF Signals
<1>7. CASE Spread(x)
  <2>1. Echoes(c, x) /\ Knows(c, Everything)
    BY <1>1, <1>7 DEF Spread, SpreadAt, Still, Taking, News, Silent
  <2>2. Echoes(c, x)'
    BY <1>1, <1>6, <2>1 DEF Echoes, Free
  <2>3. SpreadAt(c, x, Everything)'
    BY <1>1, <1>5, <2>1, <2>2 DEF SpreadAt, Knows
  <2> QED
    BY <1>3, <1>5, <1>7, <2>3, SpreadStays DEF OneText
<1>8. CASE Fresh(x)
  <2>1. PICK b \in Desks : /\ Starts(b, x)
                           /\ \A d \in Desks : Lacks(d, x, Everything) /\ (d # b => Still(d))
    BY <1>8 DEF Fresh
  <2>2. b = c
    BY <1>1, <2>1 DEF Still, Silent
  <2>3. Starts(c, x)'
    BY <1>1, <1>6, <2>1, <2>2 DEF Starts, Free
  <2>4. \A d \in Desks : Lacks(d, x, Everything)'
    BY <1>1, <1>5, <2>1 DEF Lacks
  <2>5. \A d \in Desks : d # c => Still(d)'
    BY <1>3, <2>1, <2>2, OthersStay DEF Alone
  <2> QED
    BY <1>5, <2>3, <2>4, <2>5 DEF Fresh, OneText
<1> QED
  BY <1>4, <1>7, <1>8

(* onLocalClipboard: the text is news to the others, or the echo of one    *)
(* that was set here.                                                      *)
LEMMA ReadSignalKeeps ==
  ASSUME BasicInv, OneText, SentCopied, NEW c \in Desks, ReadSignal(c), ~overlapped'
  PROVE  OneText' /\ SentCopied'
<1>1. /\ signals[c] # <<>> /\ signals' = [signals EXCEPT ![c] = Tail(@)]
      /\ UNCHANGED <<copied, overlapped, clip, changed, setting>>
  BY DEF ReadSignal, byUsers
<1>2. signals'[c] = Tail(signals[c])
  BY <1>1 DEF BasicInv, BoardsTyped
<1>3. PICK x \in Texts \union {NoText} : Spread(x) \/ Fresh(x)
  BY <1>1 DEF OneText
<1>4. Everything' = Everything
  BY <1>1 DEF Everything
<1>5. ASSUME Signals(c, x) PROVE Silent(c)' /\ Head(signals[c]) = x
  BY <1>1, <1>2, <1>5, OneSeq DEF Signals, Silent
<1>6. CASE Spread(x)
  <2>1. Echoes(c, x) /\ Knows(c, Everything)
    BY <1>1, <1>6 DEF Spread, SpreadAt, Still, Taking, News, Silent
  <2>2. Head(signals[c]) = last[c] /\ Silent(c)'
    BY <1>5, <2>1 DEF Echoes
  <2>3. UNCHANGED <<last, history, sent, inbox, missed, parted>>
    BY <2>2 DEF ReadSignal, losses
  <2>4. Still(c)'
    BY <1>1, <2>1, <2>2, <2>3 DEF Still, InStep, Echoes, Free
  <2>5. Alone(c)
    BY <1>1, <2>3 DEF Alone, BasicInv, BoardsTyped
  <2>6. SpreadAt(c, x, Everything)'
    BY <1>4, <2>1, <2>3, <2>4 DEF SpreadAt, Knows
  <2>7. Spread(x)'
    BY <1>6, <2>5, <2>6, SpreadStays
  <2> QED
    BY <1>1, <1>4, <2>3, <2>7 DEF OneText, SentCopied, MissedCopied
<1>7. CASE Fresh(x)
  <2>1. PICK b \in Desks : /\ Starts(b, x)
                           /\ \A d \in Desks : Lacks(d, x, Everything) /\ (d # b => Still(d))
    BY <1>7 DEF Fresh
  <2>2. b = c
    BY <1>1, <2>1 DEF Still, Silent
  <2>3. Head(signals[c]) = x /\ Silent(c)' /\ x \in copied[c] /\ x \in Everything /\ x \in Texts
    BY <1>5, <2>1, <2>2 DEF Starts, Everything, BasicInv, BoardsTyped
  <2>4. last[c] # x
    BY <2>1, <2>3, TextKnown DEF Lacks
  <2>5. /\ Remember(c, x) /\ sent' = [sent EXCEPT ![c] = @ \union {x}]
        /\ parted' = parted \ {c} /\ \E to \in SUBSET (Desks \ {c}) : SendTo(c, x, to)
    BY <2>3, <2>4 DEF ReadSignal, SendTo
  <2>6. PICK to \in SUBSET (Desks \ {c}) :
           /\ inbox' = [d \in Desks |-> IF d \in to THEN Append(inbox[d], x) ELSE inbox[d]]
           /\ missed' = [d \in Desks |-> IF d \in to \union {c} THEN missed[d] ELSE missed[d] \union {x}]
    BY <2>5 DEF SendTo
  <2>7. /\ last' = [last EXCEPT ![c] = x] /\ history'[c] = history[c] \union {x}
        /\ \A d \in Desks : d # c => history'[d] = history[d]
    BY <2>3, <2>5, RememberTypes
  <2>8. SpreadAt(c, x, Everything)'
    <3>1. Knows(c, Everything)'
      BY <1>4, <2>1, <2>3, <2>7, <2>6 DEF Knows, Lacks
    <3>2. Still(c)'
      BY <1>1, <2>1, <2>2, <2>3, <2>7, <2>6 DEF Still, InStep, Starts, Free, BasicInv, BoardsTyped
    <3> QED
      BY <3>1, <3>2 DEF SpreadAt
  <2>9. ASSUME NEW d \in Desks, d # c PROVE SpreadAt(d, x, Everything)'
    <3>1. Still(d)
      BY <2>1, <2>2, <2>9
    <3>2. Silent(d)'
      BY <1>1, <2>9, <3>1 DEF Still, Silent, BasicInv, BoardsTyped
    <3>3. setting'[d] = NotSetting /\ InStep(d)'
      BY <1>1, <2>5, <2>7, <2>9, <3>1 DEF Still, InStep, Free, BasicInv, BoardsTyped
    <3>4. history'[d] = history[d] /\ Lacks(d, x, Everything)
      BY <2>1, <2>7, <2>9
    <3>5. CASE d \in to
      <4>1. inbox'[d] = <<x>> /\ missed'[d] = missed[d]
        BY <2>6, <3>1, <3>5, OneSeq DEF Still, Free
      <4>2. Lacks(d, x, Everything)'
        BY <1>4, <3>4, <4>1 DEF Lacks
      <4> QED
        BY <3>2, <3>3, <4>1, <4>2 DEF SpreadAt, News
    <3>6. CASE d \notin to
      <4>1. inbox'[d] = <<>> /\ missed'[d] = missed[d] \union {x}
        BY <2>9, <2>6, <3>1, <3>6 DEF Still, Free
      <4>2. Knows(d, Everything)'
        BY <1>4, <3>4, <4>1 DEF Knows, Lacks
      <4> QED
        BY <3>2, <3>3, <4>1, <4>2 DEF SpreadAt, Still, Free
    <3> QED
      BY <3>5, <3>6
  <2>10. Spread(x)'
    BY <2>8, <2>9 DEF Spread
  <2>11. MissedCopied'
    BY <1>1, <1>4, <2>3, <2>6 DEF OneText, MissedCopied
  <2>12. SentCopied'
    BY <1>1, <2>3, <2>5 DEF SentCopied, BasicInv, BoardsTyped
  <2> QED
    BY <2>3, <2>10, <2>12, <2>11 DEF OneText
<1> QED
  BY <1>3, <1>6, <1>7

LEMMA ReceiveKeeps ==
  ASSUME BasicInv, OneText, NEW c \in Desks, Receive(c), ~overlapped'
  PROVE  OneText'
<1>1. /\ setting[c] = NotSetting /\ inbox[c] # <<>> /\ inbox' = [inbox EXCEPT ![c] = Tail(@)]
      /\ UNCHANGED <<copied, overlapped, clip, changed, signals, sent>>
  BY DEF Receive, byUsers
<1>2. PICK x \in Texts \union {NoText} : Spread(x) \/ Fresh(x)
  BY <1>1 DEF OneText
<1>3. Everything' = Everything
  BY <1>1 DEF Everything
<1>4. ~Fresh(x)
  BY <1>1 DEF Fresh, Starts, Still, Free
<1>5. News(c, x) /\ Lacks(c, x, Everything)
  BY <1>1, <1>2, <1>4 DEF Spread, SpreadAt, Still, Taking, Echoes, Free
<1>6. Head(inbox[c]) = x /\ Tail(inbox[c]) = <<>> /\ last[c] # x /\ x \in Texts
  <2>1. Head(inbox[c]) = x /\ Tail(inbox[c]) = <<>>
    BY <1>5, OneSeq DEF News
  <2>2. last[c] # x
    BY <1>5, TextKnown DEF Lacks
  <2>3. x \in Texts
    BY <1>5 DEF Lacks, Everything, BasicInv, BoardsTyped
  <2> QED
    BY <2>1, <2>2, <2>3
<1>7. inbox'[c] = <<>> /\ Silent(c)' /\ MissedCopied
  BY <1>1, <1>5, <1>6 DEF News, Silent, OneText, BasicInv, BoardsTyped
<1>8. CASE Remember(c, x) /\ setting' = [setting EXCEPT ![c] = [text |-> x, step |-> "last"]] /\ UNCHANGED losses
  <2>1. /\ last' = [last EXCEPT ![c] = x] /\ history'[c] = history[c] \union {x}
        /\ \A d \in Desks : d # c => history'[d] = history[d]
    BY <1>6, <1>8, RememberTypes
  <2>2. setting'[c] = [text |-> x, step |-> "last"] /\ UNCHANGED <<missed, parted>>
    BY <1>8 DEF losses, BasicInv, BoardsTyped
  <2>3. Taking(c, x)' /\ Knows(c, Everything)'
    BY <1>3, <1>5, <1>6, <1>7, <2>1, <2>2, NotSettingKnown DEF Taking, Lacks, Knows
  <2>4. Alone(c)
    BY <1>1, <1>8, <2>1, <2>2 DEF Alone, BasicInv, BoardsTyped
  <2>5. Spread(x)'
    BY <1>2, <1>4, <2>3, <2>4, SpreadStays DEF SpreadAt
  <2> QED
    BY <1>3, <1>7, <2>2, <2>5 DEF OneText, MissedCopied
<1>9. CASE missed' = [missed EXCEPT ![c] = @ \union {x}] /\ UNCHANGED <<last, history, setting, parted>>
  <2>1. missed'[c] = missed[c] \union {x} /\ \A d \in Desks : d # c => missed'[d] = missed[d]
    BY <1>9 DEF BasicInv, BoardsTyped
  <2>2. Still(c)' /\ Knows(c, Everything)'
    BY <1>1, <1>3, <1>5, <1>7, <1>9, <2>1 DEF Still, InStep, Free, News, Lacks, Knows
  <2>3. Alone(c)
    BY <1>1, <1>9, <2>1 DEF Alone, BasicInv, BoardsTyped
  <2>4. Spread(x)'
    BY <1>2, <1>4, <2>2, <2>3, SpreadStays DEF SpreadAt
  <2>5. MissedCopied'
    BY <1>3, <1>5, <1>7, <2>1 DEF MissedCopied, Lacks
  <2> QED
    BY <1>6, <2>4, <2>5 DEF OneText
<1> QED
  BY <1>6, <1>8, <1>9 DEF Receive

LEMMA SetKeeps ==
  ASSUME BasicInv, OneText, NEW c \in Desks, SetLast(c) \/ CallHelper(c), ~overlapped'
  PROVE  OneText'
<1>1. /\ setting[c] # NotSetting /\ UNCHANGED <<copied, overlapped, signals, history, inbox, sent, missed>>
      /\ setting[c] \in [text : Texts, step : {"last", "call"}]
  BY DEF SetLast, CallHelper, Holds, byUsers, losses, NotSetting, BasicInv, BoardsTyped
<1>2. PICK x \in Texts \union {NoText} : Spread(x) \/ Fresh(x)
  BY <1>1 DEF OneText
<1>3. Everything' = Everything /\ MissedCopied'
  BY <1>1 DEF Everything, OneText, MissedCopied
<1>4. ~Fresh(x)
  BY <1>1 DEF Fresh, Starts, Still, Free
<1>5. Taking(c, x) /\ Knows(c, Everything)
  BY <1>1, <1>2, <1>4 DEF Spread, SpreadAt, Still, News, Echoes, Free
<1>6. Knows(c, Everything)'
  BY <1>1, <1>3, <1>5 DEF Knows
<1>7. CASE SetLast(c)
  <2>1. /\ last' = [last EXCEPT ![c] = setting[c].text]
        /\ setting' = [setting EXCEPT ![c].step = "call"] /\ UNCHANGED <<clip, changed, parted>>
    BY <1>7 DEF SetLast, losses
  <2>2. last'[c] = x /\ setting'[c] = [text |-> x, step |-> "call"] /\ x \in Texts
    BY <1>1, <1>5, <2>1 DEF Taking, BasicInv, BoardsTyped
  <2>3. Taking(c, x)'
    BY <1>1, <1>5, <2>1, <2>2, NotSettingKnown DEF Taking, Silent
  <2>4. Alone(c)
    BY <1>1, <2>1 DEF Alone, BasicInv, BoardsTyped
  <2> QED
    BY <1>2, <1>3, <1>4, <1>6, <2>3, <2>4, SpreadStays DEF SpreadAt, OneText
<1>8. CASE CallHelper(c)
  <2>1. setting' = [setting EXCEPT ![c] = NotSetting] /\ UNCHANGED last /\ last[c] = x
    BY <1>5, <1>8 DEF CallHelper, Taking
  <2>2. ASSUME NEW d \in Desks, d # c
        PROVE  /\ changed'[d] = changed[d] /\ setting'[d] = setting[d] /\ clip'[d] = clip[d]
               /\ (d \in parted' <=> d \in parted)
    <3>1. clip'[d] = clip[d] /\ changed'[d] = changed[d] /\ setting'[d] = setting[d]
      BY <1>8, <2>1, <2>2 DEF CallHelper, Holds, HoldsUntold, BasicInv, BoardsTyped
    <3>2. d \in parted' <=> d \in parted
      BY <1>8, <2>2 DEF CallHelper
    <3> QED
      BY <3>1, <3>2
  <2>3. Alone(c)
    BY <1>1, <2>1, <2>2 DEF Alone
  <2>4. setting'[c] = NotSetting /\ inbox'[c] = <<>> /\ signals'[c] = <<>> /\ last'[c] = x
    BY <1>1, <1>5, <2>1 DEF Taking, Silent, BasicInv, BoardsTyped
  <2>5. CASE Holds(c, setting[c].text)
    <3>1. clip'[c] = x /\ changed'[c] = 1
      BY <1>5, <2>5 DEF Holds, Taking, Silent, BasicInv, BoardsTyped
    <3>2. Echoes(c, x)'
      BY <2>4, <3>1 DEF Echoes, Signals, Free
    <3> QED
      BY <1>2, <1>3, <1>4, <1>6, <2>3, <3>2, SpreadStays DEF SpreadAt, OneText
  <2>6. CASE ~Holds(c, setting[c].text)
    <3>1. changed'[c] = 0 /\ (c \in parted' \/ clip'[c] = x)
      BY <1>5, <1>8, <2>6 DEF CallHelper, HoldsUntold, Taking, Silent, BasicInv, BoardsTyped
    <3>2. Still(c)'
      BY <2>4, <3>1 DEF Still, InStep, Silent, Free
    <3> QED
      BY <1>2, <1>3, <1>4, <1>6, <2>3, <3>2, SpreadStays DEF SpreadAt, OneText
  <2> QED
    BY <2>5, <2>6
<1> QED
  BY <1>7, <1>8

LEMMA ClipSteps == ClipInv /\ [ClipNext]_clipVars => ClipInv'
<1> SUFFICES ASSUME ClipInv, [ClipNext]_clipVars PROVE ClipInv'
  OBVIOUS
<1>1. BasicInv /\ OneText /\ SentCopied
  BY DEF ClipInv, BasicInv
<1>2. CASE UNCHANGED clipVars
  <2>1. BasicInv'
    BY <1>1, <1>2 DEF clipVars, BasicInv, BoardsTyped, ChangesHeld, Remembered
  <2>2. Everything' = Everything
    BY <1>2 DEF clipVars, Everything
  <2>3. ASSUME NEW x, Spread(x) PROVE Spread(x)'
    BY <1>2, <2>2, <2>3 DEF clipVars, Spread, SpreadAt, Still, InStep, Taking, Echoes, News, Silent, Free,
       Signals, Knows, Lacks
  <2>4. ASSUME NEW x, Fresh(x) PROVE Fresh(x)'
    BY <1>2, <2>2, <2>4 DEF clipVars, Fresh, Starts, Still, InStep, Silent, Free, Signals, Lacks
  <2>5. OneText'
    BY <1>1, <1>2, <2>2, <2>3, <2>4 DEF clipVars, OneText, MissedCopied
  <2>6. SentCopied'
    BY <1>1, <1>2 DEF clipVars, SentCopied
  <2> QED
    BY <2>1, <2>5, <2>6 DEF ClipInv, BasicInv
<1>3. ASSUME NEW c \in Desks, NEW x \in Texts, Copy(c, x) \/ CopyFromHistory(c, x) PROVE ClipInv'
  <2>1. BasicInv'
    BY <1>1, <1>3, UserKeepsTypes
  <2>2. ~overlapped' => OneText' /\ SentCopied'
    BY <1>1, <1>3, CopyKeeps, FromHistoryKeeps
  <2> QED
    BY <2>1, <2>2 DEF ClipInv, BasicInv, OneText, SentCopied
<1>4. ASSUME NEW c \in Desks, Tell(c) \/ Receive(c) \/ SetLast(c) \/ CallHelper(c) PROVE ClipInv'
  <2>1. BasicInv'
    BY <1>1, <1>4, TellKeepsTypes, ReceiveKeepsTypes, SetKeepsTypes
  <2>2. OneText'
    BY <1>1, <1>4, TellKeeps, ReceiveKeeps, SetKeeps DEF OneText
  <2>3. SentCopied'
    BY <1>1, <1>4 DEF SentCopied, Tell, Receive, SetLast, CallHelper, byUsers
  <2> QED
    BY <2>1, <2>2, <2>3 DEF ClipInv, BasicInv
<1>5. ASSUME NEW c \in Desks, ReadSignal(c) PROVE ClipInv'
  <2>1. BasicInv'
    BY <1>1, <1>5, ReadSignalKeepsTypes
  <2>2. ~overlapped' => OneText' /\ SentCopied'
    BY <1>1, <1>5, ReadSignalKeeps
  <2> QED
    BY <2>1, <2>2 DEF ClipInv, BasicInv, OneText, SentCopied
<1> QED
  BY <1>2, <1>3, <1>4, <1>5 DEF ClipNext

LEMMA AlwaysClips == ClipSpec => []ClipInv
  BY ClipStarts, ClipSteps, PTL DEF ClipSpec

(* Every variable of the clipboards has its type (clipboard_app.go).       *)
THEOREM ClipTypeCorrect == ClipSpec => []ClipOK
<1>1. ClipInv => ClipOK
  <2>1. ASSUME ClipInv, NEW c \in Desks PROVE setting[c].step \in {"none", "last", "call"}
    BY <2>1 DEF ClipInv, BoardsTyped, NotSetting
  <2> QED
    BY <2>1 DEF ClipInv, BoardsTyped, ClipOK
<1> QED
  BY <1>1, AlwaysClips, PTL

(* onLocalClipboard, onRemoteClipboard: "last text seen or set, so syncing *)
(* doesn't echo".  Among any number of computers, as long as no user       *)
(* copies while an earlier text is on its way, each sends only what its    *)
(* own user copied, and when all is quiet each has every text but those    *)
(* not sent to it or not taken, and holds the one it takes for the last    *)
(* unless setting that failed or the helper did not tell of another.       *)
THEOREM ClipsAlwaysFollow == ClipSpec => []ClipsFollow
<1>1. ClipInv => ClipsFollow
  <2>1. SUFFICES ASSUME ClipInv, ~overlapped PROVE ClipsFollow
    BY DEF ClipsFollow
  <2>2. Quiet => \A c \in Desks : Still(c) /\ Knows(c, Everything)
    BY <2>1, QuietSettled DEF ClipInv
  <2> QED
    BY <2>1, <2>2 DEF ClipInv, SentCopied, ClipsFollow, Still, InStep, Knows, Everything
<1> QED
  BY <1>1, AlwaysClips, PTL
-----------------------------------------------------------------------------
(* Captures and ringing: what phones start on a computer.                  *)

LimitsSetting == IsFiniteSet(Jobs) /\ Captures # {} /\ Rings \subseteq Nat \ {0}

(* Every recording is another packet's.                                    *)
Started == {j \in Jobs : job[j] # "new"}
CountKnown == LimitsOK /\ count \in Nat /\ count <= Cardinality(Started)

RecordingLimited ==
  /\ recording # 0 => recording \in timers \union fired
  /\ recorder => unstopped \/ recording # 0

(* A ringing that its handler is at, or that plays, is the one that goes   *)
(* on or was told to stop, never both; and the one that goes on is at one. *)
Ringing(r) == r \in ringers \/ asker[r] \in {"notify", "store", "start"}
RingingKnown ==
  /\ \A r \in Rings : Ringing(r) => r = ringStop \/ r \in stopped
  /\ ringStop # 0 => Ringing(ringStop) /\ ringStop \notin stopped
  /\ \A r \in Rings : /\ r \in ringers => asker[r] = "done"
                      /\ r \in stopped => asker[r] # "new"

LimitsInv == CountKnown /\ RecordingLimited /\ RingingKnown

LEMMA JobCounted ==
  ASSUME LimitsSetting, LimitsOK
  PROVE  /\ IsFiniteSet(Started) /\ Cardinality(Started) \in Nat
         /\ Cardinality(Jobs) \in Nat /\ Cardinality(Started) <= Cardinality(Jobs)
  BY FS_Subset, FS_CardinalityType DEF LimitsSetting, Started

(* A packet is taken: there is a number for one more recording.            *)
LEMMA OneMore ==
  ASSUME LimitsSetting, CountKnown, NEW j \in Jobs, Does(j)
  PROVE  /\ Cardinality(Started') = Cardinality(Started) + 1 /\ Cardinality(Started) \in Nat
         /\ count + 1 \in Recordings /\ count + 1 <= Cardinality(Started')
         /\ job' \in [Jobs -> {"new", "look", "replied"}]
         /\ UNCHANGED <<told, ringVars>>
<1>1. /\ job \in [Jobs -> {"new", "look", "replied"}] /\ job[j] = "new"
      /\ job' = [job EXCEPT ![j] = "look"] /\ UNCHANGED <<told, ringVars>>
  BY DEF CountKnown, LimitsOK, Does
<1>2. Started' = Started \union {j} /\ j \notin Started /\ Started' \subseteq Jobs
  BY <1>1 DEF Started
<1>3. IsFiniteSet(Started) /\ Cardinality(Started) \in Nat /\ Cardinality(Jobs) \in Nat
  BY JobCounted DEF CountKnown
<1>4. Cardinality(Started') = Cardinality(Started) + 1
  BY <1>2, <1>3, FS_AddElement
<1>5. Cardinality(Started') <= Cardinality(Jobs)
  BY <1>2, FS_Subset DEF LimitsSetting
<1>6. QED
  BY <1>1, <1>3, <1>4, <1>5 DEF CountKnown, Recordings

LEMMA RecordingStep ==
  ASSUME LimitsSetting, LimitsInv, NEW j \in Jobs,
         StartRecording(j) \/ StopRecording(j) \/ Screenshot(j) \/ CropOrFetch(j)
  PROVE  LimitsInv'
<1>1. /\ Cardinality(Started') = Cardinality(Started) + 1 /\ Cardinality(Started) \in Nat
      /\ count + 1 \in Recordings /\ count + 1 <= Cardinality(Started')
      /\ job' \in [Jobs -> {"new", "look", "replied"}] /\ UNCHANGED <<told, ringVars>>
  BY OneMore DEF LimitsInv, StartRecording, StopRecording, Screenshot, CropOrFetch
<1>2. LimitsOK /\ count \in Nat /\ count <= Cardinality(Started)
  BY DEF LimitsInv, CountKnown
<1>3. RingingKnown'
  BY <1>1 DEF LimitsInv, RingingKnown, Ringing, ringVars
<1>4. CASE UNCHANGED recVars \/ Screenshot(j)
  <2>1. /\ UNCHANGED <<recording, path, count, timers, fired, recorder, unstopped>>
        /\ files' \subseteq Captures
    BY <1>2, <1>4 DEF Screenshot, recVars, LimitsOK
  <2>2. CountKnown'
    BY <1>1, <1>2, <2>1 DEF CountKnown, LimitsOK, ringVars, Recordings
  <2>3. RecordingLimited'
    BY <2>1 DEF LimitsInv, RecordingLimited
  <2>4. QED
    BY <1>3, <2>2, <2>3 DEF LimitsInv
<1>5. CASE StartRecording(j) /\ ~UNCHANGED recVars
  <2>1. /\ recording' = count + 1 /\ count' = count + 1 /\ timers' = timers \union {count + 1}
        /\ path' \in Captures /\ recorder' = TRUE /\ UNCHANGED <<files, fired, unstopped>>
    BY <1>5 DEF StartRecording, Limited
  <2>2. CountKnown'
    BY <1>1, <1>2, <2>1 DEF CountKnown, LimitsOK, ringVars, Recordings
  <2>3. RecordingLimited'
    BY <1>2, <2>1 DEF RecordingLimited
  <2>4. QED
    BY <1>3, <2>2, <2>3 DEF LimitsInv
<1>6. CASE StopRecording(j)
  <2>1. /\ UNCHANGED <<path, count, fired>> /\ files' \subseteq Captures
        /\ recording' = 0 /\ timers' \subseteq timers /\ recorder' \in BOOLEAN
        /\ unstopped' \in BOOLEAN /\ (recorder' => unstopped')
    BY <1>2, <1>6 DEF StopRecording, StopWhatRecords, LimitsOK, LimitsInv, RecordingLimited
  <2>2. CountKnown'
    BY <1>1, <1>2, <2>1 DEF CountKnown, LimitsOK, ringVars, Recordings
  <2>3. RecordingLimited'
    BY <2>1 DEF RecordingLimited
  <2>4. QED
    BY <1>3, <2>2, <2>3 DEF LimitsInv
<1>7. QED
  BY <1>4, <1>5, <1>6 DEF CropOrFetch

LEMMA LimitStep ==
  ASSUME LimitsInv,
         \/ \E n \in Recordings : LimitPasses(n) \/ LimitStops(n)
         \/ UserStops \/ \E j \in Jobs : ReplyTo(j)
  PROVE  LimitsInv'
<1>1. LimitsOK /\ count \in Nat /\ count <= Cardinality(Started)
  BY DEF LimitsInv, CountKnown
<1>2. UNCHANGED ringVars /\ count' = count /\ path' = path /\ Started' = Started
  <2>1. ASSUME NEW j \in Jobs, ReplyTo(j) PROVE Started' = Started
    BY <1>1, <2>1 DEF ReplyTo, Started, LimitsOK
  <2>2. job' = job => Started' = Started
    BY DEF Started
  <2>3. QED
    BY <2>1, <2>2 DEF LimitPasses, LimitStops, UserStops, ReplyTo, recVars
<1>3. RingingKnown'
  BY <1>2 DEF LimitsInv, RingingKnown, Ringing, ringVars
<1>4. ASSUME NEW n \in Recordings, LimitPasses(n) PROVE LimitsInv'
  <2>1. CountKnown'
    BY <1>1, <1>2, <1>4 DEF LimitPasses, CountKnown, LimitsOK, ringVars, Recordings
  <2>2. RecordingLimited'
    BY <1>4 DEF LimitPasses, LimitsInv, RecordingLimited
  <2>3. QED
    BY <1>3, <2>1, <2>2 DEF LimitsInv
<1>5. ASSUME NEW n \in Recordings, LimitStops(n) PROVE LimitsInv'
  <2>1. /\ files' \subseteq Captures /\ recording' = 0 /\ timers' \subseteq timers
        /\ recorder' \in BOOLEAN /\ unstopped' \in BOOLEAN /\ (recorder' => unstopped')
        /\ fired' = fired \ {n} /\ UNCHANGED <<job, told>>
    BY <1>1, <1>5 DEF LimitStops, StopWhatRecords, LimitsOK, LimitsInv, RecordingLimited
  <2>2. CountKnown'
    BY <1>1, <1>2, <2>1 DEF CountKnown, LimitsOK, ringVars, Recordings
  <2>3. RecordingLimited'
    BY <2>1 DEF RecordingLimited
  <2>4. QED
    BY <1>3, <2>2, <2>3 DEF LimitsInv
<1>6. CASE UserStops
  <2>1. CountKnown'
    BY <1>1, <1>2, <1>6 DEF UserStops, CountKnown, LimitsOK, ringVars, Recordings
  <2>2. RecordingLimited'
    BY <1>6 DEF UserStops, LimitsInv, RecordingLimited
  <2>3. QED
    BY <1>3, <2>1, <2>2 DEF LimitsInv
<1>7. ASSUME NEW j \in Jobs, ReplyTo(j) PROVE LimitsInv'
  <2>1. CountKnown'
    BY <1>1, <1>2, <1>7 DEF ReplyTo, CountKnown, LimitsOK, ringVars, recVars, Recordings
  <2>2. RecordingLimited'
    BY <1>7 DEF ReplyTo, LimitsInv, RecordingLimited, recVars
  <2>3. QED
    BY <1>3, <2>1, <2>2 DEF LimitsInv
<1>8. QED
  BY <1>4, <1>5, <1>6, <1>7

(* A step of ringing leaves what is recorded alone.                        *)
LEMMA RingStep ==
  ASSUME LimitsSetting, LimitsInv,
         \/ StopRinging
         \/ \E r \in Rings : \/ StartRinging(r) \/ RingNotify(r) \/ StoreRing(r)
                             \/ StartRinger(r) \/ RingerStops(r) \/ RingerLimit(r)
  PROVE  LimitsInv'
<1>1. /\ LimitsOK /\ count \in Nat /\ count <= Cardinality(Started) /\ RingingKnown
      /\ asker \in [Rings -> {"new", "notify", "store", "start", "done"}]
      /\ ringStop \in {0} \union Rings /\ 0 \notin Rings
  BY DEF LimitsInv, CountKnown, LimitsOK, LimitsSetting
<1>2. UNCHANGED <<job, told, recVars>>
  BY DEF StopRinging, StartRinging, RingNotify, StoreRing, StartRinger, RingerStops, RingerLimit
<1>3. RecordingLimited' /\ Started' = Started
  BY <1>2 DEF recVars, LimitsInv, RecordingLimited, Started
<1>4. LimitsOK' => CountKnown'
  BY <1>1, <1>2, <1>3 DEF CountKnown, recVars
<1>5. CASE StopRinging
  <2>1. LimitsOK'
    BY <1>1, <1>2, <1>5 DEF StopRinging, StopWhatRings, LimitsOK, recVars, Recordings
  <2>2. RingingKnown'
    BY <1>1, <1>5 DEF StopRinging, StopWhatRings, RingingKnown, Ringing
  <2>3. QED
    BY <1>3, <1>4, <2>1, <2>2 DEF LimitsInv
<1>6. ASSUME NEW r \in Rings, StartRinging(r) PROVE LimitsInv'
  <2>1. LimitsOK'
    BY <1>1, <1>2, <1>6 DEF StartRinging, LimitsOK, recVars, Recordings
  <2>2. RingingKnown'
    BY <1>1, <1>6 DEF StartRinging, RingingKnown, Ringing
  <2>3. QED
    BY <1>3, <1>4, <2>1, <2>2 DEF LimitsInv
<1>7. ASSUME NEW r \in Rings, RingNotify(r) \/ StoreRing(r) \/ StartRinger(r) PROVE LimitsInv'
  <2>1. LimitsOK'
    BY <1>1, <1>2, <1>7 DEF RingNotify, StoreRing, StartRinger, LimitsOK, recVars, Recordings
  <2>2. RingingKnown'
    BY <1>1, <1>7 DEF RingNotify, StoreRing, StartRinger, RingingKnown, Ringing
  <2>3. QED
    BY <1>3, <1>4, <2>1, <2>2 DEF LimitsInv
<1>8. ASSUME NEW r \in Rings, RingerStops(r) PROVE LimitsInv'
  <2>1. LimitsOK'
    BY <1>1, <1>2, <1>8 DEF RingerStops, LimitsOK, recVars, Recordings
  <2>2. RingingKnown'
    BY <1>1, <1>8 DEF RingerStops, RingingKnown, Ringing
  <2>3. QED
    BY <1>3, <1>4, <2>1, <2>2 DEF LimitsInv
<1>9. ASSUME NEW r \in Rings, RingerLimit(r) PROVE LimitsInv'
  <2>1. LimitsOK'
    BY <1>1, <1>2, <1>9 DEF RingerLimit, StopWhatRings, LimitsOK, recVars, Recordings
  <2>2. RingingKnown'
    BY <1>1, <1>9 DEF RingerLimit, StopWhatRings, RingingKnown, Ringing
  <2>3. QED
    BY <1>3, <1>4, <2>1, <2>2 DEF LimitsInv
<1>10. QED
  BY <1>5, <1>6, <1>7, <1>8, <1>9

LEMMA LimitsStart == LimitsSetting /\ Init => LimitsInv
<1> SUFFICES ASSUME LimitsSetting, Init PROVE LimitsInv
  OBVIOUS
<1>1. (CHOOSE c \in Captures : TRUE) \in Captures
  BY DEF LimitsSetting
<1>2. LimitsOK
  BY <1>1 DEF Init, LimitsOK
<1>3. CountKnown
  BY <1>2, JobCounted DEF Init, CountKnown
<1>4. RecordingLimited /\ RingingKnown
  BY DEF Init, RecordingLimited, RingingKnown, Ringing
<1>5. QED
  BY <1>3, <1>4 DEF LimitsInv

LEMMA LimitsKeep == LimitsSetting /\ LimitsInv /\ [Next]_lVars => LimitsInv'
<1> SUFFICES ASSUME LimitsSetting, LimitsInv, [Next]_lVars PROVE LimitsInv'
  OBVIOUS
<1>1. CASE UNCHANGED lVars
  BY <1>1 DEF lVars, LimitsInv, CountKnown, LimitsOK, Started, Recordings, RecordingLimited,
              RingingKnown, Ringing
<1>2. CASE Next
  BY <1>2, RecordingStep, LimitStep, RingStep DEF Next
<1>3. QED
  BY <1>1, <1>2

LEMMA AlwaysLimited == LimitsSetting => (Spec => []LimitsInv)
<1> SUFFICES ASSUME LimitsSetting PROVE Spec => []LimitsInv
  OBVIOUS
<1>1. Init => LimitsInv
  BY LimitsStart
<1>2. LimitsInv /\ [Next]_lVars => LimitsInv'
  BY LimitsKeep
<1>3. QED
  BY <1>1, <1>2, PTL DEF Spec

(* Every variable has its type: there is a number for every recording.     *)
THEOREM LimitsTypeCorrect == LimitsSetting => (Spec => []LimitsOK)
<1>1. LimitsInv => LimitsOK
  BY DEF LimitsInv, CountKnown
<1>2. QED
  BY <1>1, AlwaysLimited, PTL

(* startRecording, stopRecording, startRinging, StopRinging: however many  *)
(* packets start and stop captures and ringing, whichever limits of older  *)
(* ones come late and whenever GNOME fails or refuses, a recording has its *)
(* own limit ahead, and no sound plays that a stop would not reach.  What  *)
(* is left of LimitsHold is that time passes.                              *)
THEOREM EndStaysAhead == LimitsSetting => (Spec => []EndIsAhead)
<1>1. LimitsInv => EndIsAhead
  <2> SUFFICES ASSUME LimitsInv PROVE EndIsAhead
    OBVIOUS
  <2>1. \A r \in ringers : r \in Rings
    BY DEF LimitsInv, CountKnown, LimitsOK
  <2>2. QED
    BY <2>1 DEF LimitsInv, RecordingLimited, RingingKnown, Ringing, EndIsAhead
<1>2. QED
  BY <1>1, AlwaysLimited, PTL
=============================================================================
