----------------------------- MODULE RelayPipes -----------------------------
(***************************************************************************)
(* How the relay joins two devices (relay/relay.go handleConnect,          *)
(* handleAccept, pipe; desktop/internal/relay/client.go Dial,              *)
(* acceptSession, openPipe).                                               *)
(*                                                                         *)
(* A call is one connection asking to "connect", an answer one connection  *)
(* asking to "accept"; each has a handler at the relay.  The handlers meet *)
(* in the sessions table (under the relay's lock) and in the channel of    *)
(* the call's pending entry.  The registry is only the set of devices that *)
(* are online (RelayRegistry), the data in the pipe is left out.           *)
(***************************************************************************)
EXTENDS Integers, FiniteSets

CONSTANTS
  Devices,    \* device ids
  GroupOf,    \* [Devices -> groups]
  Calls,      \* connections that can ask to connect
  Answers,    \* connections that can ask to accept
  Ids,        \* session ids
  None,       \* no connection
  MaxPipes    \* maxPipesPerGroup

ASSUME DistinctAssumption ==
  /\ Calls \intersect Answers = {}
  /\ None \notin Calls \union Answers
  /\ None \notin [from : Devices, to : Devices, id : Ids] \union [dev : Devices, id : Ids]
ASSUME FiniteAssumption == IsFiniteSet(Calls)
ASSUME LimitAssumption == MaxPipes \in Nat

Groups == {GroupOf[d] : d \in Devices}
Wires  == Calls \union Answers

VARIABLES
  online,    \* devices the relay can reach
  call,      \* [Calls -> the request: from, to, id]
  step,      \* [Wires -> where the handler is]
  closed,    \* connections the relay has closed
  hung,      \* connections whose client has closed its end
  got,       \* [Wires -> the relay's reply]
  sessions,  \* [Ids -> the call whose entry is in the table, or None]
  pipes,     \* [Groups -> calls that hold a place]
  notices,   \* "incoming" messages on their way
  answer,    \* [Answers -> the request: dev, id]
  holds,     \* [Answers -> the call whose entry handleAccept took, or None]
  chan,      \* [Calls -> the answer in the entry's channel, or None]
  other      \* [Calls -> the answer handleConnect received, or None]

vars == <<online, call, step, closed, hung, got, sessions, pipes, notices, answer, holds, chan, other>>

CallSteps == {"none", "asked", "notify", "waiting", "joined", "replying", "piping",
              "cleanup", "drain", "done"}
AnswerSteps == {"none", "asked", "holding", "sent", "done"}

CallInfo   == [from : Devices, to : Devices, id : Ids]
AnswerInfo == [dev : Devices, id : Ids]
Notices    == [to : Devices, from : Devices, id : Ids]

RequestsOK ==
  /\ call \in [Calls -> CallInfo \union {None}]
  /\ answer \in [Answers -> AnswerInfo \union {None}]
  /\ step \in [Wires -> CallSteps \union AnswerSteps]
  /\ \A k \in Calls : step[k] \in CallSteps /\ (step[k] # "none" => call[k] # None)
  /\ \A a \in Answers : step[a] \in AnswerSteps /\ (step[a] # "none" => answer[a] # None)

TablesOK ==
  /\ online \subseteq Devices
  /\ closed \subseteq Wires /\ hung \subseteq Wires
  /\ got \in [Wires -> {"none", "ok", "err"}]
  /\ sessions \in [Ids -> Calls \union {None}]
  /\ pipes \in [Groups -> Nat]
  /\ notices \subseteq Notices

EntriesOK ==
  /\ holds \in [Answers -> Calls \union {None}]
  /\ \A a \in Answers : step[a] \in {"holding", "sent"} => holds[a] # None
  /\ chan \in [Calls -> Answers \union {None}]
  /\ other \in [Calls -> Answers \union {None}]
  /\ \A k \in Calls : step[k] \in {"joined", "replying", "piping"} => other[k] # None

(* Every variable has its type: a handler has its request and the entry or *)
(* the answer it got, and the counter never falls below zero.              *)
TypeOK == RequestsOK /\ TablesOK /\ EntriesOK

Init ==
  /\ online = {}
  /\ call = [k \in Calls |-> None]
  /\ answer = [a \in Answers |-> None]
  /\ step = [x \in Wires |-> "none"]
  /\ closed = {} /\ hung = {}
  /\ got = [x \in Wires |-> "none"]
  /\ sessions = [s \in Ids |-> None]
  /\ pipes = [g \in Groups |-> 0]
  /\ notices = {}
  /\ holds = [a \in Answers |-> None]
  /\ chan = [k \in Calls |-> None]
  /\ other = [k \in Calls |-> None]
-----------------------------------------------------------------------------
(* What handlers do to connections. *)

Group(k) == GroupOf[call[k].from]

(* The reply to x arrives unless the client has closed the connection. *)
Replied(x, r) == [got EXCEPT ![x] = IF x \in hung THEN @ ELSE r]

-----------------------------------------------------------------------------
(* handleConnect. *)

(* Wrong variant: the id may be in the table already. *)
MayEnter_NoDup(k) ==
  /\ call[k].to \in online /\ GroupOf[call[k].to] = Group(k)
  /\ pipes[Group(k)] < MaxPipes

(* The relay knows the device, the id is not in the table and the group    *)
(* has a place left.                                                       *)
MayEnter(k) ==
  /\ call[k].to \in online /\ GroupOf[call[k].to] = Group(k)
  /\ sessions[call[k].id] = None
  /\ pipes[Group(k)] < MaxPipes

Connect(k) ==
  /\ step[k] = "asked"
  /\ IF MayEnter(k)
       THEN /\ sessions' = [sessions EXCEPT ![call[k].id] = k]
            /\ pipes' = [pipes EXCEPT ![Group(k)] = @ + 1]
            /\ step' = [step EXCEPT ![k] = "notify"]
            /\ UNCHANGED <<got, closed>>
       ELSE /\ got' = Replied(k, "err")
            /\ closed' = closed \union {k}
            /\ step' = [step EXCEPT ![k] = "done"]
            /\ UNCHANGED <<sessions, pipes>>
  /\ UNCHANGED <<online, call, hung, notices, answer, holds, chan, other>>

(* The request failed: reply, close, and leave to the deferred function. *)
Fail(k) ==
  /\ got' = Replied(k, "err")
  /\ closed' = closed \union {k}
  /\ step' = [step EXCEPT ![k] = "cleanup"]

(* The device is told.  Its connection was looked up before and may have   *)
(* failed since: the write fails, or succeeds and the notice is lost.      *)
Notify(k) ==
  /\ step[k] = "notify"
  /\ \/ /\ call[k].to \in online
        /\ notices' = notices \union {call[k]}
        /\ step' = [step EXCEPT ![k] = "waiting"]
        /\ UNCHANGED <<got, closed>>
     \/ /\ step' = [step EXCEPT ![k] = "waiting"]
        /\ UNCHANGED <<got, closed, notices>>
     \/ Fail(k) /\ UNCHANGED notices
  /\ UNCHANGED <<online, call, hung, sessions, pipes, answer, holds, chan, other>>

(* select: the answer, or the timeout even when an answer is there too. *)
TakeAnswer(k) ==
  /\ step[k] = "waiting" /\ chan[k] # None
  /\ other' = [other EXCEPT ![k] = chan[k]]
  /\ chan' = [chan EXCEPT ![k] = None]
  /\ step' = [step EXCEPT ![k] = "joined"]
  /\ UNCHANGED <<online, call, closed, hung, got, sessions, pipes, notices, answer, holds>>

TimeOut(k) ==
  /\ step[k] = "waiting"
  /\ Fail(k)
  /\ UNCHANGED <<online, call, hung, sessions, pipes, notices, answer, holds, chan, other>>

Remove(k) ==
  /\ step[k] = "joined"
  /\ sessions' = [sessions EXCEPT ![call[k].id] = None]
  /\ step' = [step EXCEPT ![k] = "replying"]
  /\ UNCHANGED <<online, call, closed, hung, got, pipes, notices, answer, holds, chan, other>>

(* Wrong variant: only the caller is closed when a reply fails. *)
Reply_KeepsOther(k) ==
  LET a == other[k] IN
  /\ step[k] = "replying"
  /\ \/ /\ got' = [Replied(k, "ok") EXCEPT ![a] = IF a \in hung THEN @ ELSE "ok"]
        /\ step' = [step EXCEPT ![k] = "piping"]
        /\ UNCHANGED closed
     \/ /\ k \in hung \/ a \in hung
        /\ got' = Replied(k, "ok")
        /\ closed' = closed \union {k}
        /\ step' = [step EXCEPT ![k] = "cleanup"]
  /\ UNCHANGED <<online, call, hung, sessions, pipes, notices, answer, holds, chan, other>>

(* The caller gets its ok, then the answering side.  A write to a client   *)
(* that is gone may fail or not; when one fails both are closed.           *)
Reply(k) ==
  LET a == other[k] IN
  /\ step[k] = "replying"
  /\ \/ /\ got' = [Replied(k, "ok") EXCEPT ![a] = IF a \in hung THEN @ ELSE "ok"]
        /\ step' = [step EXCEPT ![k] = "piping"]
        /\ UNCHANGED closed
     \/ /\ k \in hung \/ a \in hung
        /\ got' = Replied(k, "ok")
        /\ closed' = closed \union {k, a}
        /\ step' = [step EXCEPT ![k] = "cleanup"]
  /\ UNCHANGED <<online, call, hung, sessions, pipes, notices, answer, holds, chan, other>>

(* A side closed or broke, or nothing came for too long. *)
PipeEnds(k) ==
  /\ step[k] = "piping"
  /\ closed' = closed \union {k, other[k]}
  /\ step' = [step EXCEPT ![k] = "cleanup"]
  /\ UNCHANGED <<online, call, hung, got, sessions, pipes, notices, answer, holds, chan, other>>

(* Wrong variant: a place is not given back when no answer came. *)
CleanUp_Keeps(k) ==
  /\ step[k] = "cleanup"
  /\ sessions' = [sessions EXCEPT ![call[k].id] = None]
  /\ pipes' = IF other[k] = None THEN pipes ELSE [pipes EXCEPT ![Group(k)] = @ - 1]
  /\ step' = [step EXCEPT ![k] = "drain"]
  /\ UNCHANGED <<online, call, closed, hung, got, notices, answer, holds, chan, other>>

(* The deferred function: whatever is in the table under the id goes. *)
CleanUp(k) ==
  /\ step[k] = "cleanup"
  /\ sessions' = [sessions EXCEPT ![call[k].id] = None]
  /\ pipes' = [pipes EXCEPT ![Group(k)] = @ - 1]
  /\ step' = [step EXCEPT ![k] = "drain"]
  /\ UNCHANGED <<online, call, closed, hung, got, notices, answer, holds, chan, other>>

Drain(k) ==
  /\ step[k] = "drain"
  /\ closed' = closed \union ({chan[k]} \ {None})
  /\ chan' = [chan EXCEPT ![k] = None]
  /\ step' = [step EXCEPT ![k] = "done"]
  /\ UNCHANGED <<online, call, hung, got, sessions, pipes, notices, answer, holds, other>>

-----------------------------------------------------------------------------
(* handleAccept. *)

(* Wrong variant: any device of the group may answer. *)
Asked_AnyDevice(k, a) == k # None /\ Group(k) = GroupOf[answer[a].dev]

(* The entry is for this group and this device. *)
Asked(k, a) ==
  /\ k # None
  /\ Group(k) = GroupOf[answer[a].dev] /\ call[k].to = answer[a].dev

(* Wrong variant: the entry stays in the table. *)
Accept_KeepsEntry(a) ==
  LET k == sessions[answer[a].id] IN
  /\ step[a] = "asked"
  /\ IF Asked(k, a)
       THEN /\ holds' = [holds EXCEPT ![a] = k]
            /\ step' = [step EXCEPT ![a] = "holding"]
            /\ UNCHANGED <<got, closed>>
       ELSE /\ got' = Replied(a, "err")
            /\ closed' = closed \union {a}
            /\ step' = [step EXCEPT ![a] = "done"]
            /\ UNCHANGED holds
  /\ UNCHANGED <<online, call, hung, sessions, pipes, notices, answer, chan, other>>

Accept(a) ==
  LET k == sessions[answer[a].id] IN
  /\ step[a] = "asked"
  /\ IF Asked(k, a)
       THEN /\ sessions' = [sessions EXCEPT ![answer[a].id] = None]
            /\ holds' = [holds EXCEPT ![a] = k]
            /\ step' = [step EXCEPT ![a] = "holding"]
            /\ UNCHANGED <<got, closed>>
       ELSE /\ got' = Replied(a, "err")
            /\ closed' = closed \union {a}
            /\ step' = [step EXCEPT ![a] = "done"]
            /\ UNCHANGED <<sessions, holds>>
  /\ UNCHANGED <<online, call, hung, pipes, notices, answer, chan, other>>

(* p.ch <- c, after the lock was released; the channel has room for one. *)
Deliver(a) ==
  /\ step[a] = "holding" /\ chan[holds[a]] = None
  /\ chan' = [chan EXCEPT ![holds[a]] = a]
  /\ step' = [step EXCEPT ![a] = "sent"]
  /\ UNCHANGED <<online, call, closed, hung, got, sessions, pipes, notices, answer, holds, other>>

-----------------------------------------------------------------------------
(* The clients. *)

ComeOrGo(d) ==
  /\ online' = IF d \in online THEN online \ {d} ELSE online \union {d}
  /\ UNCHANGED <<call, step, closed, hung, got, sessions, pipes, notices, answer, holds, chan, other>>

(* Dial draws an id at random; the ids here are few, so that they repeat. *)
Dial(k) ==
  /\ step[k] = "none"
  /\ \E r \in CallInfo :
       /\ r.from # r.to
       /\ call' = [call EXCEPT ![k] = r]
  /\ step' = [step EXCEPT ![k] = "asked"]
  /\ UNCHANGED <<online, closed, hung, got, sessions, pipes, notices, answer, holds, chan, other>>

(* acceptSession: a notice from a device it knows is answered over a new   *)
(* connection, others are ignored or lost.                                 *)
Answer(n, a) ==
  /\ n \in notices /\ step[a] = "none"
  /\ notices' = notices \ {n}
  /\ answer' = [answer EXCEPT ![a] = [dev |-> n.to, id |-> n.id]]
  /\ step' = [step EXCEPT ![a] = "asked"]
  /\ UNCHANGED <<online, call, closed, hung, got, sessions, pipes, holds, chan, other>>

Ignore(n) ==
  /\ n \in notices
  /\ notices' = notices \ {n}
  /\ UNCHANGED <<online, call, step, closed, hung, got, sessions, pipes, answer, holds, chan, other>>

(* openPipe gives up after 25 s, or the client is done with the pipe. *)
HangUp(x) ==
  /\ step[x] # "none" /\ x \notin closed \union hung
  /\ hung' = hung \union {x}
  /\ UNCHANGED <<online, call, step, closed, got, sessions, pipes, notices, answer, holds, chan, other>>

-----------------------------------------------------------------------------
CallStep(k) ==
  \/ Connect(k) \/ Notify(k) \/ TakeAnswer(k) \/ TimeOut(k) \/ Remove(k)
  \/ Reply(k) \/ PipeEnds(k) \/ CleanUp(k) \/ Drain(k)

AnswerStep(a) == Accept(a) \/ Deliver(a)

ClientStep ==
  \/ \E d \in Devices : ComeOrGo(d)
  \/ \E k \in Calls : Dial(k)
  \/ \E n \in notices : Ignore(n) \/ \E a \in Answers : Answer(n, a)
  \/ \E x \in Wires : HangUp(x)

Next ==
  \/ \E k \in Calls : CallStep(k)
  \/ \E a \in Answers : AnswerStep(a)
  \/ ClientStep

Spec == Init /\ [][Next]_vars

(* Handlers go on: every wait of theirs has a timeout (accept, write, idle *)
(* pipe).  Nothing makes a client dial or answer.                          *)
Fairness ==
  /\ \A k \in Calls : WF_vars(CallStep(k))
  /\ \A a \in Answers : WF_vars(AnswerStep(a))

FairSpec == Spec /\ Fairness

-----------------------------------------------------------------------------
(* Handlers between their two locked sections, which hold a place. *)
Busy == {"notify", "waiting", "joined", "replying", "piping", "cleanup"}
Placed(g) == {k \in Calls : step[k] \in Busy /\ Group(k) = g}

(* The counter of a group is the number of its handlers that hold a place, *)
(* however they end, and never exceeds the limit.                          *)
PlacesCounted ==
  \A g \in Groups : pipes[g] = Cardinality(Placed(g)) /\ pipes[g] <= MaxPipes

(* The relay joins a call only with an answer to it from the device that   *)
(* was called, of the same group, and an answer with one call only, even   *)
(* when session ids repeat.                                                *)
JoinedRight ==
  /\ \A k \in Calls : other[k] # None =>
       /\ answer[other[k]] = [dev |-> call[k].to, id |-> call[k].id]
       /\ GroupOf[call[k].to] = Group(k)
  /\ \A j, k \in Calls : j # k /\ other[j] # None => other[j] # other[k]

Meeting == INSTANCE Rendezvous WITH
  joined <- other, over <- {k \in Calls : step[k] \in {"cleanup", "drain", "done"}}

(* The handlers implement Rendezvous: they join whom it lets them join,    *)
(* and tell each side once and how it ended.                               *)
IsRendezvous == Meeting!Spec

(* An entry is taken by one answer at most, so that p.ch <- c finds room:  *)
(* no handleAccept hangs on a full channel.                                *)
NeverBlocked ==
  \A a \in Answers : step[a] = "holding" =>
    /\ chan[holds[a]] = None /\ other[holds[a]] = None
    /\ \A b \in Answers \ {a} : step[b] = "holding" => holds[b] # holds[a]

Answered(k) == \E a \in Answers : holds[a] = k

(* Handlers that wait no more and remove what is under their id. *)
WaitNoMore == {"replying", "piping", "cleanup", "drain", "done"}

(* The entry of a call that waits is in the table until its own answer     *)
(* takes it: no other request removes it, nor does another call's clean-up *)
(* but that of one with the same id which was answered before.             *)
WaitingIsAnswerable ==
  \A k \in Calls : step[k] \in {"notify", "waiting"} =>
    \/ sessions[call[k].id] = k \/ Answered(k)
    \/ \E j \in Calls : Answered(j) /\ call[j].id = call[k].id /\ step[j] \in WaitNoMore

(* When the handler of a call is done, however it ended, its connection is *)
(* closed, and so is the answer it was joined with.                        *)
EndedIsClosed ==
  \A k \in Calls : step[k] = "done" =>
    /\ k \in closed
    /\ other[k] # None => other[k] \in closed

(* relay.go, deferred function: "An accept that raced the timeout is left  *)
(* in the channel; close it."  The relay closes every connection it has    *)
(* accepted in the end.                                                    *)
AnswersEnd ==
  \A a \in Answers : step[a] = "asked" ~> a \in closed
=============================================================================
