----------------------------- MODULE Rendezvous -----------------------------
(***************************************************************************)
(* What the relay promises two devices that call each other: a call is     *)
(* joined with at most one answer and an answer with at most one call, the *)
(* answer is one to this call from the device it was for, nobody is told   *)
(* more than once, or other than how it ended, and what has ended or was   *)
(* refused is not joined any more.  Tables, channels, handlers, deadlines  *)
(* and the limit of pipes are how the relay does it.                       *)
(***************************************************************************)
CONSTANTS
  Devices,  \* device ids
  GroupOf,  \* [Devices -> groups]
  Calls, Answers,
  Ids,      \* session ids
  None

VARIABLES
  call,     \* [Calls -> the request: from, to, id]
  answer,   \* [Answers -> the request: dev, id]
  joined,   \* [Calls -> the answer it was joined with, or None]
  over,     \* calls that failed, or whose pipe has ended
  got       \* [Calls and Answers -> what they were told]

meetVars == <<call, answer, joined, over, got>>

Init ==
  /\ call = [k \in Calls |-> None] /\ answer = [a \in Answers |-> None]
  /\ joined = [k \in Calls |-> None] /\ over = {}
  /\ got = [x \in Calls \union Answers |-> "none"]

(* x is told r, unless it has hung up. *)
Tell(x, r) ==
  /\ got[x] = "none"
  /\ got' \in {got, [got EXCEPT ![x] = r]}

Ask(k) ==
  /\ call[k] = None
  /\ \E r \in [from : Devices, to : Devices, id : Ids] :
       r.from # r.to /\ call' = [call EXCEPT ![k] = r]
  /\ UNCHANGED <<answer, joined, over, got>>

(* A device answers only a call that was made to it. *)
Offer(a) ==
  /\ answer[a] = None
  /\ \E k \in Calls :
       /\ call[k] # None
       /\ answer' = [answer EXCEPT ![a] = [dev |-> call[k].to, id |-> call[k].id]]
  /\ UNCHANGED <<call, joined, over, got>>

Free(a) == \A k \in Calls : joined[k] # a

Join(k, a) ==
  /\ call[k] # None /\ k \notin over /\ joined[k] = None
  /\ Free(a) /\ got[a] = "none"
  /\ answer[a] = [dev |-> call[k].to, id |-> call[k].id]
  /\ GroupOf[call[k].to] = GroupOf[call[k].from]
  /\ joined' = [joined EXCEPT ![k] = a]
  /\ UNCHANGED <<call, answer, over, got>>

Refuse(a) ==
  /\ answer[a] # None /\ Free(a)
  /\ Tell(a, "err")
  /\ UNCHANGED <<call, answer, joined, over>>

(* Nobody answered, or the call was not let in. *)
Fail(k) ==
  /\ call[k] # None /\ k \notin over /\ joined[k] = None
  /\ Tell(k, "err")
  /\ over' = over \union {k}
  /\ UNCHANGED <<call, answer, joined>>

(* Both are told that they are joined, or the first may be, and it is over. *)
Confirm(k) ==
  LET a == joined[k] IN
  /\ a # None /\ k \notin over /\ got[k] = "none" /\ got[a] = "none"
  /\ \E told \in SUBSET {k, a} :
       /\ got' = [x \in DOMAIN got |-> IF x \in told THEN "ok" ELSE got[x]]
       /\ over' = over \/ (over' = over \union {k} /\ a \notin told)
  /\ UNCHANGED <<call, answer, joined>>

End(k) ==
  /\ joined[k] # None /\ k \notin over
  /\ over' = over \union {k}
  /\ UNCHANGED <<call, answer, joined, got>>

Next ==
  \/ \E k \in Calls : Ask(k) \/ Fail(k) \/ Confirm(k) \/ End(k)
  \/ \E a \in Answers : Offer(a) \/ Refuse(a)
  \/ \E k \in Calls, a \in Answers : Join(k, a)

Spec == Init /\ [][Next]_meetVars
=============================================================================
