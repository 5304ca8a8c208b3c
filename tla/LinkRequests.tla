---------------------------- MODULE LinkRequests ----------------------------
(***************************************************************************)
(* Requests and replies over one link (desktop/internal/link/link.go       *)
(* Request, deliver, serve; the phone's link.dart does the same).  Both    *)
(* ends number their requests, send them as packets with an id, and take   *)
(* the first packet that carries the id of a waiting request for its       *)
(* reply.  A computer begins its ids with "r" and a phone with "p", so two *)
(* computers use the same ids, and one takes the other's request of the    *)
(* same number for the reply to its own.                                   *)
(***************************************************************************)
EXTENDS Integers, FiniteSets, Sequences

CONSTANTS
  Ends,         \* the two ends of the link
  Letters,      \* the pairs of ends: [Ends -> what its ids begin with, "r" on
                \*  computers, "p" on phones]
  MaxRequests,  \* [Ends -> bound on the end's requests]
  MaxPings      \* bound on pings

ASSUME RequestsAssumption ==
  /\ \E a, b \in Ends : a # b /\ Ends = {a, b}
  /\ Letters \subseteq [Ends -> {"r", "p"}]
  /\ \A e \in Ends : MaxRequests[e] \in Nat
  /\ MaxPings \in Nat

VARIABLES
  open,    \* the ends whose link is not closed
  asked,   \* [Ends -> number of the last request]
  state,   \* [Ends -> [Numbers -> "none", "waiting", "answered" or "failed"]]
  box,     \* [Ends -> [Numbers -> the packets in the request's channel]]
  toEnd,   \* [Ends -> packets under way to the end, in order]
  jobs,    \* [Ends -> requests of the other end being worked on]
  handled, \* [Ends -> requests of the other end whose handler was called]
  pings,   \* pings sent so far
  letter   \* [Ends -> what the end's ids begin with], of Letters

rVars == <<open, asked, state, box, toEnd, jobs, handled, pings, letter>>

Other(e) == CHOOSE o \in Ends : o # e
NoId     == <<"", 0>>
Id(e, n) == <<letter[e], n>>
Numbers  == UNION {1..MaxRequests[e] : e \in Ends}

(* A packet: its type, its id, and whose request it is or answers. *)
Packet(t, id, e, n) == [t |-> t, id |-> id, end |-> e, n |-> n]
Packets ==
  [t : {"request", "reply", "ping", "pong"},
   id : {NoId} \union ({"r", "p"} \X Numbers), end : Ends, n : {0} \union Numbers]

RequestsOK ==
  /\ open \subseteq Ends /\ letter \in Letters
  /\ asked \in [Ends -> {0} \union Numbers] /\ pings \in 0..MaxPings
  /\ state \in [Ends -> [Numbers -> {"none", "waiting", "answered", "failed"}]]
  /\ \A e \in Ends : /\ \A n \in Numbers : box[e][n] \subseteq Packets /\ Cardinality(box[e][n]) <= 1
                     /\ \A i \in DOMAIN toEnd[e] : toEnd[e][i] \in Packets
  /\ jobs \in [Ends -> SUBSET Numbers] /\ handled \in [Ends -> SUBSET Numbers]

RequestsInit ==
  /\ open = Ends /\ letter \in Letters
  /\ asked = [e \in Ends |-> 0] /\ pings = 0
  /\ state = [e \in Ends |-> [n \in Numbers |-> "none"]]
  /\ box = [e \in Ends |-> [n \in Numbers |-> {}]]
  /\ toEnd = [e \in Ends |-> <<>>]
  /\ jobs = [e \in Ends |-> {}] /\ handled = [e \in Ends |-> {}]

-----------------------------------------------------------------------------
(* What reaches the other end: nothing once either end is closed. *)
Sent(e, p, queues) ==
  IF open = Ends THEN [queues EXCEPT ![Other(e)] = Append(@, p)] ELSE queues

(* Request: numbers are never used again on a link; it fails at once when  *)
(* this end is closed.                                                     *)
Request(e) ==
  LET n == asked[e] + 1 IN
  /\ n <= MaxRequests[e]
  /\ asked' = [asked EXCEPT ![e] = n]
  /\ state' = [state EXCEPT ![e][n] = IF e \in open THEN "waiting" ELSE "failed"]
  /\ toEnd' = Sent(e, Packet("request", Id(e, n), e, n), toEnd)
  /\ UNCHANGED <<open, box, jobs, handled, pings, letter>>

(* Request takes what is in the channel, or gives up: at the timeout, or   *)
(* because the link closed, even if the reply has come meanwhile.          *)
TakeReply(e, n) ==
  /\ state[e][n] = "waiting" /\ box[e][n] # {}
  /\ state' = [state EXCEPT ![e][n] = "answered"]
  /\ UNCHANGED <<open, asked, box, toEnd, jobs, handled, pings, letter>>

StopWaiting(e, n) ==
  /\ state[e][n] = "waiting"
  /\ state' = [state EXCEPT ![e][n] = "failed"]
  /\ UNCHANGED <<open, asked, box, toEnd, jobs, handled, pings, letter>>

-----------------------------------------------------------------------------
(* serve: the packets are read one by one. *)

(* Wrong variant: a reply goes to whoever waits for one. *)
Waiters_ByType(e, p) == {n \in Numbers : state[e][n] = "waiting" /\ p.t = "reply"}

Waiters(e, p) == {n \in Numbers : state[e][n] = "waiting" /\ Id(e, n) = p.id}

(* deliver: any packet with the id of a waiting request goes to it, the    *)
(* first one only.                                                         *)
Deliver(e, p) ==
  /\ Waiters(e, p) # {}
  /\ box' = [box EXCEPT ![e] = [n \in Numbers |->
               IF n \in Waiters(e, p) /\ @[n] = {} THEN {p} ELSE @[n]]]
  /\ toEnd' = [toEnd EXCEPT ![e] = Tail(@)]
  /\ UNCHANGED <<jobs, handled>>

(* Otherwise the type decides: a ping is answered, a request handed to its *)
(* handler's goroutine, and a reply nobody waits for is dropped.           *)
Dispatch(e, p) ==
  LET rest == [toEnd EXCEPT ![e] = Tail(@)] IN
  /\ Waiters(e, p) = {}
  /\ toEnd' = IF p.t = "ping" THEN Sent(e, Packet("pong", NoId, e, 0), rest) ELSE rest
  /\ jobs' = IF p.t = "request" THEN [jobs EXCEPT ![e] = @ \union {p.n}] ELSE jobs
  /\ handled' = IF p.t = "request" THEN [handled EXCEPT ![e] = @ \union {p.n}] ELSE handled
  /\ UNCHANGED box

Read(e) ==
  /\ e \in open /\ toEnd[e] # <<>>
  /\ Deliver(e, Head(toEnd[e])) \/ Dispatch(e, Head(toEnd[e]))
  /\ UNCHANGED <<open, asked, state, pings, letter>>

(* A handler's goroutine sends its reply with the request's id. *)
Reply(e, n) ==
  /\ n \in jobs[e]
  /\ jobs' = [jobs EXCEPT ![e] = @ \ {n}]
  /\ toEnd' = Sent(e, Packet("reply", Id(Other(e), n), Other(e), n), toEnd)
  /\ UNCHANGED <<open, asked, state, box, handled, pings, letter>>

Ping(e) ==
  /\ e \in open /\ pings < MaxPings
  /\ pings' = pings + 1
  /\ toEnd' = Sent(e, Packet("ping", NoId, e, 0), toEnd)
  /\ UNCHANGED <<open, asked, state, box, jobs, handled, letter>>

(* Close; the other end reads what had arrived before it notices. *)
CloseEnd(e) ==
  /\ e \in open
  /\ open' = open \ {e}
  /\ UNCHANGED <<asked, state, box, toEnd, jobs, handled, pings, letter>>

RequestsNext ==
  \E e \in Ends :
    \/ Request(e) \/ Read(e) \/ Ping(e) \/ CloseEnd(e)
    \/ \E n \in Numbers : TakeReply(e, n) \/ StopWaiting(e, n) \/ Reply(e, n)

RequestsSpec == RequestsInit /\ [][RequestsNext]_rVars

-----------------------------------------------------------------------------
(* Request's comment: it waits for "any packet carrying the same id (the   *)
(* peer answers)".  What a request takes for its reply is the answer to    *)
(* this very request, however late the answers to others come, and what    *)
(* reaches an end that is open is handled there.  The one exception is a   *)
(* link of two computers: while one waits for the reply to its request, a  *)
(* request of the other end with the same number is taken for that reply,  *)
(* or for another one to it, and is not handled.                           *)
Alike == \A d, e \in Ends : letter[d] = letter[e]

RepliesMatch ==
  \A e \in Ends, n \in Numbers :
    /\ state[e][n] = "answered" => box[e][n] # {}
    /\ \A p \in box[e][n] :
         \/ p.t = "reply" /\ p.end = e /\ p.n = n /\ n \in handled[Other(e)]
         \/ Alike /\ p.t = "request" /\ p.end = Other(e) /\ p.n = n
    /\ asked[e] >= n /\ n \notin handled[Other(e)] /\ open = Ends =>
         \/ \E i \in DOMAIN toEnd[Other(e)] :
              toEnd[Other(e)][i].t = "request" /\ toEnd[Other(e)][i].n = n
         \/ Alike /\ box[Other(e)][n] # {}
=============================================================================
