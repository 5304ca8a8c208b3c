-------------------------- MODULE RelayPipesProofs --------------------------
(***************************************************************************)
(* What holds of RelayPipes for any devices, groups, calls, answers and    *)
(* session ids, repeated ids included.                                     *)
(***************************************************************************)
EXTENDS RelayPipes, FiniteSetTheorems, TLAPS

(* A handler that runs has its request. *)
LEMMA CallKnown ==
  ASSUME RequestsOK, NEW k \in Calls, step[k] # "none"
  PROVE  /\ call[k] \in CallInfo /\ call[k].id \in Ids
         /\ call[k].from \in Devices /\ call[k].to \in Devices /\ Group(k) \in Groups
  BY DEF RequestsOK, CallInfo, Group, Groups

LEMMA AnswerKnown ==
  ASSUME RequestsOK, NEW a \in Answers, step[a] # "none"
  PROVE  answer[a] \in AnswerInfo /\ answer[a].id \in Ids /\ answer[a].dev \in Devices
  BY DEF RequestsOK, AnswerInfo

(* A handler going on to its next step. *)
LEMMA CallStepType ==
  ASSUME RequestsOK, NEW k \in Calls, NEW t \in CallSteps, step[k] # "none",
         step' = [step EXCEPT ![k] = t], UNCHANGED <<call, answer>>
  PROVE  /\ RequestsOK' /\ step'[k] = t
         /\ \A x \in Wires : x # k => step'[x] = step[x]
         /\ \A a \in Answers : step'[a] = step[a]
<1>1. /\ step'[k] = t /\ \A x \in Wires : x # k => step'[x] = step[x]
      /\ step' \in [Wires -> CallSteps \union AnswerSteps]
  BY DEF RequestsOK, Wires
<1>2. \A a \in Answers : a # k
  BY DistinctAssumption
<1> QED
  BY <1>1, <1>2 DEF RequestsOK, Wires

LEMMA AnswerStepType ==
  ASSUME RequestsOK, NEW a \in Answers, NEW t \in AnswerSteps, step[a] # "none",
         step' = [step EXCEPT ![a] = t], UNCHANGED <<call, answer>>
  PROVE  /\ RequestsOK' /\ step'[a] = t
         /\ \A x \in Wires : x # a => step'[x] = step[x]
         /\ \A k \in Calls : step'[k] = step[k]
<1>1. /\ step'[a] = t /\ \A x \in Wires : x # a => step'[x] = step[x]
      /\ step' \in [Wires -> CallSteps \union AnswerSteps]
  BY DEF RequestsOK, Wires
<1>2. \A k \in Calls : a # k
  BY DistinctAssumption
<1> QED
  BY <1>1, <1>2 DEF RequestsOK, Wires

LEMMA RepliedType ==
  ASSUME TablesOK, NEW x \in Wires, NEW r \in {"ok", "err"}
  PROVE  Replied(x, r) \in [Wires -> {"none", "ok", "err"}]
  BY DEF TablesOK, Replied

-----------------------------------------------------------------------------
(* Places.  The counter falls only when a handler that it counts leaves.   *)

LEMMA PlacedFinite ==
  \A g : IsFiniteSet(Placed(g)) /\ Cardinality(Placed(g)) \in Nat
<1> TAKE g
<1>1. Placed(g) \subseteq Calls
  BY DEF Placed
<1> QED
  BY <1>1, FiniteAssumption, FS_Subset, FS_CardinalityType

(* Steps of a handler that neither enters nor leaves the counted part. *)
LEMMA CountKept ==
  ASSUME PlacesCounted, pipes' = pipes,
         \A k \in Calls : /\ step'[k] \in Busy <=> step[k] \in Busy
                          /\ step[k] \in Busy => call'[k] = call[k]
  PROVE  PlacesCounted'
<1>1. \A g \in Groups : Placed(g)' = Placed(g)
  BY DEF Placed, Group
<1> QED
  BY <1>1 DEF PlacesCounted

LEMMA CallStepKeepsCount ==
  ASSUME PlacesCounted, pipes' = pipes, RequestsOK, NEW k \in Calls, NEW t \in CallSteps,
         step[k] # "none", step' = [step EXCEPT ![k] = t], UNCHANGED <<call, answer>>,
         t \in Busy <=> step[k] \in Busy
  PROVE  PlacesCounted'
  BY CallStepType, CountKept DEF Wires

LEMMA AnswerStepKeepsCount ==
  ASSUME PlacesCounted, pipes' = pipes, call' = call, \A k \in Calls : step'[k] = step[k]
  PROVE  PlacesCounted'
  BY CountKept

LEMMA Entered ==
  ASSUME RequestsOK, TablesOK, PlacesCounted, NEW k \in Calls, NEW t \in CallSteps,
         step[k] # "none", step[k] \notin Busy, t \in Busy,
         step' = [step EXCEPT ![k] = t], UNCHANGED <<call, answer>>,
         pipes[Group(k)] < MaxPipes, pipes' = [pipes EXCEPT ![Group(k)] = @ + 1]
  PROVE  PlacesCounted' /\ pipes' \in [Groups -> Nat]
<1>1. PICK g \in Groups : g = Group(k)
  BY CallKnown
<1>2. pipes' = [pipes EXCEPT ![g] = pipes[g] + 1] /\ pipes[g] \in Nat
  BY <1>1 DEF TablesOK
<1>3. step'[k] = t /\ \A x \in Calls : x # k => step'[x] = step[x]
  BY CallStepType DEF Wires
<1>4. Placed(g)' = Placed(g) \union {k} /\ k \notin Placed(g)
  BY <1>1, <1>3 DEF Placed, Group
<1>5. Cardinality(Placed(g)') = Cardinality(Placed(g)) + 1
  BY <1>4, PlacedFinite, FS_AddElement
<1>6. \A h \in Groups : h # g => Placed(h)' = Placed(h)
  BY <1>1, <1>3 DEF Placed, Group
<1>7. ASSUME NEW h \in Groups
      PROVE  pipes'[h] = Cardinality(Placed(h)') /\ pipes'[h] <= MaxPipes
  <2>1. CASE h = g
    BY <1>1, <1>2, <1>5, <2>1, LimitAssumption DEF PlacesCounted, TablesOK
  <2>2. CASE h # g
    BY <1>2, <1>6, <2>2 DEF PlacesCounted, TablesOK
  <2> QED
    BY <2>1, <2>2
<1> QED
  BY <1>2, <1>7 DEF PlacesCounted, TablesOK

LEMMA Left ==
  ASSUME RequestsOK, TablesOK, PlacesCounted, NEW k \in Calls, NEW t \in CallSteps,
         step[k] # "none", step[k] \in Busy, t \notin Busy,
         step' = [step EXCEPT ![k] = t], UNCHANGED <<call, answer>>,
         pipes' = [pipes EXCEPT ![Group(k)] = @ - 1]
  PROVE  PlacesCounted' /\ pipes' \in [Groups -> Nat]
<1>1. PICK g \in Groups : g = Group(k)
  BY CallKnown
<1>2. pipes' = [pipes EXCEPT ![g] = pipes[g] - 1] /\ pipes[g] \in Nat
  BY <1>1 DEF TablesOK
<1>3. step'[k] = t /\ \A x \in Calls : x # k => step'[x] = step[x]
  BY CallStepType DEF Wires
<1>4. Placed(g)' = Placed(g) \ {k} /\ k \in Placed(g)
  BY <1>1, <1>3 DEF Placed, Group
<1>5. /\ Cardinality(Placed(g)') = Cardinality(Placed(g)) - 1
      /\ Cardinality(Placed(g)') \in Nat
  <2>1. IsFiniteSet(Placed(g)) /\ IsFiniteSet(Placed(g) \ {k})
    BY PlacedFinite, FS_RemoveElement
  <2> QED
    BY <1>4, <2>1, FS_RemoveElement, FS_CardinalityType
<1>6. \A h \in Groups : h # g => Placed(h)' = Placed(h)
  BY <1>1, <1>3 DEF Placed, Group
<1>7. ASSUME NEW h \in Groups
      PROVE  /\ pipes'[h] = Cardinality(Placed(h)') /\ pipes'[h] <= MaxPipes
             /\ pipes'[h] \in Nat
  <2>1. CASE h = g
    BY <1>1, <1>2, <1>5, <2>1, LimitAssumption DEF PlacesCounted, TablesOK
  <2>2. CASE h # g
    BY <1>2, <1>6, <2>2 DEF PlacesCounted, TablesOK
  <2> QED
    BY <2>1, <2>2
<1> QED
  BY <1>2, <1>7 DEF PlacesCounted, TablesOK

-----------------------------------------------------------------------------
(* Types and places together: an inductive invariant. *)

Counted == TypeOK /\ PlacesCounted

LEMMA InitCounted == Init => Counted
<1> SUFFICES ASSUME Init PROVE Counted
  OBVIOUS
<1>1. TypeOK
  BY DEF Init, TypeOK, RequestsOK, TablesOK, EntriesOK, Wires, CallSteps, AnswerSteps
<1>2. \A g \in Groups : Placed(g) = {}
  BY DEF Init, Placed, Busy, Wires
<1>3. PlacesCounted
  BY <1>2, FS_EmptySet, LimitAssumption DEF PlacesCounted, Init
<1> QED
  BY <1>1, <1>3 DEF Counted

LEMMA ConnectCounted ==
  ASSUME Counted, NEW k \in Calls, Connect(k)
  PROVE  Counted'
<1>1. RequestsOK /\ TablesOK /\ EntriesOK /\ PlacesCounted /\ k \in Wires
  BY DEF Counted, TypeOK, Wires
<1>2. step[k] = "asked" /\ UNCHANGED <<online, call, hung, notices, answer, holds, chan, other>>
  BY DEF Connect
<1>3. CASE MayEnter(k)
  <2>1. /\ step' = [step EXCEPT ![k] = "notify"]
        /\ pipes' = [pipes EXCEPT ![Group(k)] = @ + 1] /\ pipes[Group(k)] < MaxPipes
        /\ sessions' = [sessions EXCEPT ![call[k].id] = k] /\ UNCHANGED <<got, closed>>
    BY <1>3 DEF Connect, MayEnter
  <2>2. /\ RequestsOK' /\ step'[k] = "notify"
        /\ \A x \in Wires : x # k => step'[x] = step[x]
    BY <1>1, <1>2, <2>1, CallStepType DEF CallSteps
  <2>3. PlacesCounted' /\ pipes' \in [Groups -> Nat]
    BY <1>1, <1>2, <2>1, Entered DEF CallSteps, Busy
  <2>4. TablesOK'
    BY <1>1, <1>2, <2>1, <2>3 DEF TablesOK
  <2>5. EntriesOK'
    BY <1>1, <1>2, <2>2 DEF EntriesOK, Wires
  <2> QED
    BY <2>2, <2>3, <2>4, <2>5 DEF Counted, TypeOK
<1>4. CASE ~MayEnter(k)
  <2>1. /\ step' = [step EXCEPT ![k] = "done"] /\ got' = Replied(k, "err")
        /\ closed' = closed \union {k} /\ UNCHANGED <<sessions, pipes>>
    BY <1>4 DEF Connect
  <2>2. /\ RequestsOK' /\ step'[k] = "done"
        /\ \A x \in Wires : x # k => step'[x] = step[x]
    BY <1>1, <1>2, <2>1, CallStepType DEF CallSteps
  <2>3. PlacesCounted'
    BY <1>1, <1>2, <2>1, CallStepKeepsCount DEF CallSteps, Busy
  <2>4. TablesOK'
    BY <1>1, <1>2, <2>1, RepliedType DEF TablesOK
  <2>5. EntriesOK'
    BY <1>1, <1>2, <2>2 DEF EntriesOK, Wires
  <2> QED
    BY <2>2, <2>3, <2>4, <2>5 DEF Counted, TypeOK
<1> QED
  BY <1>3, <1>4

(* The steps of handleConnect that keep the place. *)
LEMMA WaitCounted ==
  ASSUME Counted, NEW k \in Calls,
         Notify(k) \/ TakeAnswer(k) \/ TimeOut(k) \/ Remove(k) \/ Reply(k) \/ PipeEnds(k)
  PROVE  Counted'
<1>1. RequestsOK /\ TablesOK /\ EntriesOK /\ PlacesCounted /\ k \in Wires
  BY DEF Counted, TypeOK, Wires
<1>2. PICK t \in {"waiting", "joined", "replying", "piping", "cleanup"} :
        /\ step' = [step EXCEPT ![k] = t] /\ step[k] \in Busy
        /\ UNCHANGED <<online, call, answer, pipes, hung, holds>>
        /\ t \in {"replying", "piping"} => other[k] # None
        /\ t = "joined" => chan[k] # None
        /\ \/ UNCHANGED <<other, chan>> /\ t # "joined"
           \/ t = "joined" /\ other' = [other EXCEPT ![k] = chan[k]]
                          /\ chan' = [chan EXCEPT ![k] = None]
  BY <1>1 DEF Notify, Fail, TakeAnswer, TimeOut, Remove, Reply, PipeEnds, Busy, EntriesOK
<1>3. /\ RequestsOK' /\ step'[k] = t
      /\ \A x \in Wires : x # k => step'[x] = step[x]
      /\ \A a \in Answers : step'[a] = step[a]
  BY <1>1, <1>2, CallStepType DEF CallSteps, Busy
<1>4. PlacesCounted'
  BY <1>1, <1>2, CallStepKeepsCount DEF CallSteps, Busy
<1>5. call[k] \in CallInfo /\ call[k].id \in Ids
  BY <1>1, <1>2, CallKnown DEF Busy
<1>6. sessions' \in [Ids -> Calls \union {None}] /\ notices' \subseteq Notices
  BY <1>1, <1>5 DEF Notify, Fail, TakeAnswer, TimeOut, Remove, Reply, PipeEnds,
                    TablesOK, Notices, CallInfo
<1>7. closed' \subseteq Wires
  BY <1>1 DEF Notify, Fail, TakeAnswer, TimeOut, Remove, Reply, PipeEnds,
              TablesOK, EntriesOK, Wires
<1>8. got' \in [Wires -> {"none", "ok", "err"}]
  <2>1. CASE Reply(k)
    <3>1. Replied(k, "ok") \in [Wires -> {"none", "ok", "err"}]
      BY <1>1, RepliedType
    <3> QED
      BY <1>1, <2>1, <3>1 DEF Reply
  <2>2. CASE ~Reply(k)
    BY <1>1, <2>2, RepliedType DEF Notify, Fail, TakeAnswer, TimeOut, Remove, PipeEnds, TablesOK
  <2> QED
    BY <2>1, <2>2
<1>9. TablesOK'
  BY <1>1, <1>2, <1>6, <1>7, <1>8 DEF TablesOK
<1>10. EntriesOK'
  BY <1>1, <1>2, <1>3 DEF EntriesOK, Wires
<1> QED
  BY <1>3, <1>4, <1>9, <1>10 DEF Counted, TypeOK

LEMMA EndCounted ==
  ASSUME Counted, NEW k \in Calls, CleanUp(k) \/ Drain(k)
  PROVE  Counted'
<1>1. RequestsOK /\ TablesOK /\ EntriesOK /\ PlacesCounted /\ k \in Wires
  BY DEF Counted, TypeOK, Wires
<1>2. CASE CleanUp(k)
  <2>1. /\ step[k] = "cleanup" /\ step' = [step EXCEPT ![k] = "drain"]
        /\ pipes' = [pipes EXCEPT ![Group(k)] = @ - 1]
        /\ sessions' = [sessions EXCEPT ![call[k].id] = None]
        /\ UNCHANGED <<online, call, closed, hung, got, notices, answer, holds, chan, other>>
    BY <1>2 DEF CleanUp
  <2>2. /\ RequestsOK' /\ step'[k] = "drain"
        /\ \A x \in Wires : x # k => step'[x] = step[x]
    BY <1>1, <2>1, CallStepType DEF CallSteps
  <2>3. PlacesCounted' /\ pipes' \in [Groups -> Nat]
    BY <1>1, <2>1, Left DEF CallSteps, Busy
  <2>4. TablesOK'
    BY <1>1, <2>1, <2>3 DEF TablesOK
  <2>5. EntriesOK'
    BY <1>1, <2>1, <2>2 DEF EntriesOK, Wires
  <2> QED
    BY <2>2, <2>3, <2>4, <2>5 DEF Counted, TypeOK
<1>3. CASE Drain(k)
  <2>1. /\ step[k] = "drain" /\ step' = [step EXCEPT ![k] = "done"]
        /\ closed' = closed \union ({chan[k]} \ {None}) /\ chan' = [chan EXCEPT ![k] = None]
        /\ UNCHANGED <<online, call, hung, got, sessions, pipes, notices, answer, holds, other>>
    BY <1>3 DEF Drain
  <2>2. /\ RequestsOK' /\ step'[k] = "done"
        /\ \A x \in Wires : x # k => step'[x] = step[x]
    BY <1>1, <2>1, CallStepType DEF CallSteps
  <2>3. PlacesCounted'
    BY <1>1, <2>1, CallStepKeepsCount DEF CallSteps, Busy
  <2>4. TablesOK'
    BY <1>1, <2>1 DEF TablesOK, EntriesOK, Wires
  <2>5. EntriesOK'
    BY <1>1, <2>1, <2>2 DEF EntriesOK, Wires
  <2> QED
    BY <2>2, <2>3, <2>4, <2>5 DEF Counted, TypeOK
<1> QED
  BY <1>2, <1>3

LEMMA AnswerCounted ==
  ASSUME Counted, NEW a \in Answers, AnswerStep(a)
  PROVE  Counted'
<1>1. RequestsOK /\ TablesOK /\ EntriesOK /\ PlacesCounted /\ a \in Wires
  BY DEF Counted, TypeOK, Wires
<1>2. CASE Accept(a)
  <2>1. PICK t \in {"holding", "done"} :
          /\ step' = [step EXCEPT ![a] = t] /\ step[a] = "asked"
          /\ UNCHANGED <<online, call, hung, pipes, notices, answer, chan, other>>
          /\ \/ t = "holding" /\ sessions[answer[a].id] # None
                             /\ holds' = [holds EXCEPT ![a] = sessions[answer[a].id]]
             \/ t = "done" /\ holds' = holds
    BY <1>2 DEF Accept, Asked
  <2>2. /\ RequestsOK' /\ step'[a] = t
        /\ \A x \in Wires : x # a => step'[x] = step[x]
        /\ \A k \in Calls : step'[k] = step[k]
    BY <1>1, <2>1, AnswerStepType DEF AnswerSteps
  <2>3. PlacesCounted'
    BY <1>1, <2>1, <2>2, AnswerStepKeepsCount
  <2>4. answer[a].id \in Ids
    BY <1>1, <2>1, AnswerKnown
  <2>5. TablesOK'
    BY <1>1, <1>2, <2>4, RepliedType DEF Accept, TablesOK
  <2>6. EntriesOK'
    BY <1>1, <2>1, <2>2, <2>4 DEF EntriesOK, TablesOK, Wires
  <2> QED
    BY <2>2, <2>3, <2>5, <2>6 DEF Counted, TypeOK
<1>3. CASE Deliver(a)
  <2>1. /\ step' = [step EXCEPT ![a] = "sent"] /\ step[a] = "holding"
        /\ chan' = [chan EXCEPT ![holds[a]] = a]
        /\ UNCHANGED <<online, call, closed, hung, got, sessions, pipes, notices, answer, holds, other>>
    BY <1>3 DEF Deliver
  <2>2. /\ RequestsOK' /\ step'[a] = "sent"
        /\ \A x \in Wires : x # a => step'[x] = step[x]
        /\ \A k \in Calls : step'[k] = step[k]
    BY <1>1, <2>1, AnswerStepType DEF AnswerSteps
  <2>3. PlacesCounted'
    BY <1>1, <2>1, <2>2, AnswerStepKeepsCount
  <2>4. TablesOK'
    BY <1>1, <2>1 DEF TablesOK
  <2>5. EntriesOK'
    BY <1>1, <2>1, <2>2 DEF EntriesOK, Wires
  <2> QED
    BY <2>2, <2>3, <2>4, <2>5 DEF Counted, TypeOK
<1> QED
  BY <1>2, <1>3 DEF AnswerStep

LEMMA ClientCounted ==
  ASSUME Counted, ClientStep
  PROVE  Counted'
<1>1. RequestsOK /\ TablesOK /\ EntriesOK /\ PlacesCounted
  BY DEF Counted, TypeOK
<1>2. ASSUME NEW d \in Devices, ComeOrGo(d) PROVE Counted'
  <2>1. RequestsOK' /\ TablesOK' /\ EntriesOK'
    BY <1>1, <1>2 DEF ComeOrGo, RequestsOK, TablesOK, EntriesOK
  <2> QED
    BY <1>1, <1>2, <2>1, AnswerStepKeepsCount DEF ComeOrGo, Counted, TypeOK
<1>3. ASSUME NEW k \in Calls, Dial(k) PROVE Counted'
  <2>1. PICK r \in CallInfo : call' = [call EXCEPT ![k] = r]
    BY <1>3 DEF Dial
  <2>2. /\ step[k] = "none" /\ step' = [step EXCEPT ![k] = "asked"]
        /\ UNCHANGED <<online, closed, hung, got, sessions, pipes, notices, answer, holds, chan, other>>
    BY <1>3 DEF Dial
  <2>3. r # None /\ \A a \in Answers : a # k
    BY DistinctAssumption DEF CallInfo
  <2>4. /\ step'[k] = "asked" /\ \A x \in Wires : x # k => step'[x] = step[x]
        /\ call'[k] = r /\ \A x \in Calls : x # k => call'[x] = call[x]
    BY <1>1, <2>1, <2>2 DEF RequestsOK, Wires
  <2>5. RequestsOK'
    BY <1>1, <2>1, <2>2, <2>3, <2>4 DEF RequestsOK, Wires, CallSteps
  <2>6. TablesOK' /\ EntriesOK'
    BY <1>1, <2>2, <2>3, <2>4 DEF TablesOK, EntriesOK, Wires
  <2>7. PlacesCounted'
    BY <1>1, <2>2, <2>4, CountKept DEF Wires, Busy
  <2> QED
    BY <2>5, <2>6, <2>7 DEF Counted, TypeOK
<1>4. ASSUME NEW n \in notices, Ignore(n) PROVE Counted'
  <2>1. RequestsOK' /\ TablesOK' /\ EntriesOK'
    BY <1>1, <1>4 DEF Ignore, RequestsOK, TablesOK, EntriesOK
  <2> QED
    BY <1>1, <1>4, <2>1, AnswerStepKeepsCount DEF Ignore, Counted, TypeOK
<1>5. ASSUME NEW n \in notices, NEW a \in Answers, Answer(n, a) PROVE Counted'
  <2>1. /\ step[a] = "none" /\ step' = [step EXCEPT ![a] = "asked"]
        /\ answer' = [answer EXCEPT ![a] = [dev |-> n.to, id |-> n.id]]
        /\ notices' = notices \ {n}
        /\ UNCHANGED <<online, call, closed, hung, got, sessions, pipes, holds, chan, other>>
    BY <1>5 DEF Answer
  <2>2. [dev |-> n.to, id |-> n.id] \in AnswerInfo
    BY <1>1 DEF TablesOK, Notices, AnswerInfo
  <2>3. [dev |-> n.to, id |-> n.id] # None /\ \A k \in Calls : a # k
    BY <2>2, DistinctAssumption DEF AnswerInfo
  <2>4. /\ step'[a] = "asked" /\ \A x \in Wires : x # a => step'[x] = step[x]
        /\ answer'[a] = [dev |-> n.to, id |-> n.id]
        /\ \A x \in Answers : x # a => answer'[x] = answer[x]
    BY <1>1, <2>1 DEF RequestsOK, Wires
  <2>5. RequestsOK'
    BY <1>1, <2>1, <2>2, <2>3, <2>4 DEF RequestsOK, Wires, AnswerSteps
  <2>6. TablesOK' /\ EntriesOK'
    BY <1>1, <2>1, <2>3, <2>4 DEF TablesOK, EntriesOK, Wires
  <2>7. PlacesCounted'
    BY <1>1, <2>1, <2>3, <2>4, AnswerStepKeepsCount DEF Wires
  <2> QED
    BY <2>5, <2>6, <2>7 DEF Counted, TypeOK
<1>6. ASSUME NEW x \in Wires, HangUp(x) PROVE Counted'
  <2>1. RequestsOK' /\ TablesOK' /\ EntriesOK'
    BY <1>1, <1>6 DEF HangUp, RequestsOK, TablesOK, EntriesOK
  <2> QED
    BY <1>1, <1>6, <2>1, AnswerStepKeepsCount DEF HangUp, Counted, TypeOK
<1> QED
  BY <1>2, <1>3, <1>4, <1>5, <1>6 DEF ClientStep

LEMMA StutterCounted ==
  ASSUME Counted, UNCHANGED vars
  PROVE  Counted'
<1>1. RequestsOK' /\ TablesOK' /\ EntriesOK'
  BY DEF Counted, TypeOK, RequestsOK, TablesOK, EntriesOK, vars
<1> QED
  BY <1>1, AnswerStepKeepsCount DEF vars, Counted, TypeOK

LEMMA CountedInductive == Spec => []Counted
<1>1. Counted /\ [Next]_vars => Counted'
  <2> SUFFICES ASSUME Counted, [Next]_vars PROVE Counted'
    OBVIOUS
  <2>1. ASSUME NEW k \in Calls, CallStep(k) PROVE Counted'
    BY <2>1, ConnectCounted, WaitCounted, EndCounted DEF CallStep
  <2> QED
    BY <2>1, AnswerCounted, ClientCounted, StutterCounted DEF Next
<1> QED
  BY <1>1, InitCounted, PTL DEF Spec

(* Every reachable state of the two handlers, their tables and the clients *)
(* has its type.                                                           *)
THEOREM TypeCorrect == Spec => []TypeOK
  BY CountedInductive, PTL DEF Counted

(* pipes[group] counts exactly the connect handlers that hold a place, for *)
(* any number of calls, and never exceeds maxPipesPerGroup.                *)
THEOREM PlacesAreCounted == Spec => []PlacesCounted
  BY CountedInductive, PTL DEF Counted

-----------------------------------------------------------------------------
(* Who has which call: an entry of the table nobody has taken yet, or one  *)
(* answer, which holds it from the moment it took the entry.               *)

Running == {"notify", "waiting", "joined", "replying", "piping", "cleanup", "drain", "done"}

EntryFree ==
  \A s \in Ids : sessions[s] # None =>
    /\ call[sessions[s]].id = s /\ step[sessions[s]] \in Running
    /\ GroupOf[call[sessions[s]].to] = Group(sessions[s])
    /\ \A a \in Answers : holds[a] # sessions[s]

HeldRight ==
  \A a \in Answers : holds[a] # None =>
    /\ step[a] \in {"holding", "sent"} /\ step[holds[a]] \in Running
    /\ answer[a] = [dev |-> call[holds[a]].to, id |-> call[holds[a]].id]
    /\ GroupOf[call[holds[a]].to] = Group(holds[a])

TakenOnce ==
  \A a, b \in Answers : holds[a] # None /\ holds[a] = holds[b] => a = b

InChannel ==
  \A k \in Calls : chan[k] # None =>
    step[chan[k]] = "sent" /\ holds[chan[k]] = k /\ other[k] # chan[k]

Received ==
  \A k \in Calls : other[k] # None => step[other[k]] = "sent" /\ holds[other[k]] = k

Owned == EntryFree /\ HeldRight /\ TakenOnce /\ InChannel /\ Received

LEMMA OwnedImplies ==
  ASSUME Counted, Owned
  PROVE  JoinedRight /\ NeverBlocked
<1>1. \A k \in Calls : other[k] \in Answers \union {None} /\ chan[k] \in Answers \union {None}
  BY DEF Counted, TypeOK, EntriesOK
<1>2. \A a \in Answers : step[a] = "holding" => holds[a] \in Calls /\ holds[a] # None
  BY DEF Counted, TypeOK, EntriesOK
<1>3. JoinedRight
  BY <1>1, DistinctAssumption DEF Owned, Received, HeldRight, JoinedRight
<1>4. ASSUME NEW a \in Answers, step[a] = "holding"
      PROVE  /\ chan[holds[a]] = None /\ other[holds[a]] = None
             /\ \A b \in Answers \ {a} : step[b] = "holding" => holds[b] # holds[a]
  <2>1. chan[holds[a]] = None
    BY <1>1, <1>2, <1>4 DEF Owned, InChannel, TakenOnce
  <2>2. other[holds[a]] = None
    BY <1>1, <1>2, <1>4 DEF Owned, Received, TakenOnce
  <2>3. \A b \in Answers \ {a} : step[b] = "holding" => holds[b] # holds[a]
    BY <1>2, <1>4 DEF Owned, TakenOnce
  <2> QED
    BY <2>1, <2>2, <2>3
<1> QED
  BY <1>3, <1>4 DEF NeverBlocked

(* A step of one call's handler that only moves it on: no entry appears,   *)
(* and its answer at most goes from the channel to the handler.            *)
MovesOn(k, t) ==
  /\ step[k] # "none" /\ step' = [step EXCEPT ![k] = t] /\ UNCHANGED <<call, answer, holds>>
  /\ \A s \in Ids : sessions'[s] \in {sessions[s], None}
  /\ \A j \in Calls : \/ chan'[j] = None
                      \/ chan'[j] = chan[j] /\ other'[j] = other[j]
  /\ \A j \in Calls : other'[j] = other[j] \/ other'[j] = chan[j]

LEMMA OwnedKept ==
  ASSUME Counted, Owned, NEW k \in Calls, NEW t \in Running, MovesOn(k, t)
  PROVE  Owned'
<1> USE DEF MovesOn
<1>1. RequestsOK /\ EntriesOK /\ TablesOK /\ t \in CallSteps
  BY DEF Counted, TypeOK, Running, CallSteps
<1>2. /\ step'[k] = t /\ \A x \in Wires : x # k => step'[x] = step[x]
      /\ \A a \in Answers : step'[a] = step[a]
  BY <1>1, CallStepType
<1>3. \A j \in Calls : step[j] \in Running => step'[j] \in Running
  BY <1>2 DEF Wires
<1>4. \A s \in Ids : sessions[s] \in Calls \union {None}
  BY <1>1 DEF TablesOK
<1>5. EntryFree'
  BY <1>3, <1>4 DEF Owned, EntryFree, Group
<1>6. HeldRight'
  BY <1>1, <1>2, <1>3 DEF Owned, HeldRight, Group, EntriesOK
<1>7. TakenOnce'
  BY DEF Owned, TakenOnce
<1>8. \A j \in Calls : /\ chan[j] \in Answers \union {None} /\ other[j] \in Answers \union {None}
                       /\ chan[j] # None => step'[chan[j]] = "sent" /\ holds[chan[j]] = j
                       /\ other[j] # None => step'[other[j]] = "sent" /\ holds[other[j]] = j
  BY <1>1, <1>2 DEF EntriesOK, Owned, InChannel, Received
<1>9. InChannel' /\ Received'
  BY <1>8 DEF Owned, InChannel, Received
<1> QED
  BY <1>5, <1>6, <1>7, <1>9 DEF Owned

LEMMA ConnectOwned ==
  ASSUME Counted, Owned, NEW k \in Calls, Connect(k)
  PROVE  Owned'
<1>1. RequestsOK /\ EntriesOK /\ TablesOK /\ step[k] = "asked"
  BY DEF Counted, TypeOK, Connect
<1>2. UNCHANGED <<call, answer, holds, chan, other>>
  BY DEF Connect
<1>3. CASE MayEnter(k)
  <2>1. /\ step' = [step EXCEPT ![k] = "notify"] /\ GroupOf[call[k].to] = Group(k)
        /\ sessions' = [sessions EXCEPT ![call[k].id] = k]
    BY <1>3 DEF Connect, MayEnter
  <2>2. /\ step'[k] = "notify" /\ \A x \in Wires : x # k => step'[x] = step[x]
        /\ \A a \in Answers : step'[a] = step[a]
    BY <1>1, <1>2, <2>1, CallStepType DEF CallSteps
  <2>3. \A j \in Calls : step[j] \in Running => step'[j] \in Running
    BY <2>2 DEF Running, Wires
  <2>4. \A a \in Answers : holds[a] # k
    <3>1. k # None /\ step[k] \notin Running
      BY <1>1, DistinctAssumption DEF Running
    <3> QED
      BY <3>1 DEF Owned, HeldRight
  <2>5. call[k].id \in Ids /\ \A s \in Ids : sessions[s] \in Calls \union {None}
    BY <1>1, CallKnown DEF TablesOK
  <2>6. EntryFree'
    <3> SUFFICES ASSUME NEW s \in Ids, sessions'[s] # None
                 PROVE  /\ call[sessions'[s]].id = s /\ step'[sessions'[s]] \in Running
                        /\ GroupOf[call[sessions'[s]].to] = Group(sessions'[s])
                        /\ \A a \in Answers : holds[a] # sessions'[s]
      BY <1>2 DEF EntryFree, Group
    <3>1. CASE s = call[k].id
      BY <1>1, <2>1, <2>2, <2>4, <2>5, <3>1 DEF TablesOK, Running
    <3>2. CASE s # call[k].id
      BY <1>1, <2>1, <2>3, <2>5, <3>2 DEF TablesOK, Owned, EntryFree
    <3> QED
      BY <3>1, <3>2
  <2>7. HeldRight'
    BY <1>1, <1>2, <2>2, <2>3 DEF Owned, HeldRight, Group, EntriesOK
  <2>8. TakenOnce'
    BY <1>2 DEF Owned, TakenOnce
  <2>9. InChannel' /\ Received'
    BY <1>1, <1>2, <2>2 DEF Owned, InChannel, Received, EntriesOK
  <2> QED
    BY <2>6, <2>7, <2>8, <2>9 DEF Owned
<1>4. CASE ~MayEnter(k)
  <2>1. step' = [step EXCEPT ![k] = "done"] /\ sessions' = sessions
    BY <1>4 DEF Connect
  <2>2. MovesOn(k, "done") /\ "done" \in Running
    BY <1>1, <1>2, <2>1 DEF MovesOn, Running
  <2> QED
    BY <2>2, OwnedKept
<1> QED
  BY <1>3, <1>4

LEMMA CallStepOwned ==
  ASSUME Counted, Owned, NEW k \in Calls, CallStep(k)
  PROVE  Owned'
<1>1. CASE Connect(k)
  BY <1>1, ConnectOwned
<1>2. CASE ~Connect(k)
  <2>1. RequestsOK /\ EntriesOK /\ TablesOK
    BY DEF Counted, TypeOK
  <2>2. PICK t \in Running :
          /\ step' = [step EXCEPT ![k] = t] /\ step[k] # "none"
          /\ UNCHANGED <<call, answer, holds>>
          /\ sessions' = sessions \/ sessions' = [sessions EXCEPT ![call[k].id] = None]
          /\ \/ UNCHANGED <<chan, other>>
             \/ chan' = [chan EXCEPT ![k] = None] /\ other' = other
             \/ chan' = [chan EXCEPT ![k] = None] /\ other' = [other EXCEPT ![k] = chan[k]]
    BY <1>2 DEF CallStep, Notify, Fail, TakeAnswer, TimeOut, Remove, Reply, PipeEnds,
                CleanUp, Drain, Running
  <2>3. \A s \in Ids : sessions'[s] \in {sessions[s], None}
    BY <2>1, <2>2 DEF TablesOK
  <2>4. \A j \in Calls : \/ chan'[j] = None
                         \/ chan'[j] = chan[j] /\ other'[j] = other[j]
    BY <2>1, <2>2 DEF EntriesOK
  <2>5. \A j \in Calls : other'[j] = other[j] \/ other'[j] = chan[j]
    BY <2>1, <2>2 DEF EntriesOK
  <2>6. MovesOn(k, t)
    BY <2>2, <2>3, <2>4, <2>5 DEF MovesOn
  <2> QED
    BY <2>6, OwnedKept
<1> QED
  BY <1>1, <1>2

LEMMA AcceptOwned ==
  ASSUME Counted, Owned, NEW a \in Answers, Accept(a)
  PROVE  Owned'
<1>1. RequestsOK /\ EntriesOK /\ TablesOK /\ step[a] = "asked" /\ a \in Wires
  BY DEF Counted, TypeOK, Accept, Wires
<1>2. UNCHANGED <<call, answer, chan, other>> /\ holds[a] = None
  BY <1>1 DEF Accept, Owned, HeldRight
<1>3. answer[a] \in AnswerInfo /\ answer[a].id \in Ids
  BY <1>1, AnswerKnown
<1> DEFINE k == sessions[answer[a].id]
<1>4. PICK t \in {"holding", "done"} :
        /\ step' = [step EXCEPT ![a] = t]
        /\ \/ /\ t = "holding" /\ Asked(k, a) /\ holds' = [holds EXCEPT ![a] = k]
              /\ sessions' = [sessions EXCEPT ![answer[a].id] = None]
           \/ t = "done" /\ UNCHANGED <<holds, sessions>>
  BY DEF Accept
<1>5. /\ step'[a] = t /\ \A x \in Wires : x # a => step'[x] = step[x]
      /\ \A j \in Calls : step'[j] = step[j]
  BY <1>1, <1>2, <1>4, AnswerStepType DEF AnswerSteps
<1>6. \A j \in Calls : /\ chan[j] # a /\ other[j] # a
                       /\ chan[j] \in Answers \union {None} /\ other[j] \in Answers \union {None}
  BY <1>1, DistinctAssumption DEF Owned, InChannel, Received, EntriesOK
<1>7. \A b \in Answers : b # a => holds'[b] = holds[b]
  BY <1>1, <1>4 DEF EntriesOK
<1>8. InChannel' /\ Received'
  BY <1>2, <1>5, <1>6, <1>7 DEF Owned, InChannel, Received, Wires
<1>9. CASE t = "done"
  BY <1>1, <1>2, <1>4, <1>5, <1>8, <1>9
  DEF Owned, EntryFree, HeldRight, TakenOnce, Group, Wires, TablesOK, EntriesOK
<1>10. CASE t = "holding"
  <2>1. /\ k \in Calls /\ k # None /\ Asked(k, a) /\ holds'[a] = k
        /\ \A s \in Ids : sessions'[s] = IF s = answer[a].id THEN None ELSE sessions[s]
    BY <1>1, <1>3, <1>4, <1>10 DEF Asked, TablesOK, EntriesOK
  <2>2. /\ call[k].id = answer[a].id /\ step[k] \in Running
        /\ GroupOf[call[k].to] = Group(k) /\ \A b \in Answers : holds[b] # k
    BY <1>3, <2>1 DEF Owned, EntryFree
  <2>3. answer[a] = [dev |-> call[k].to, id |-> call[k].id]
    BY <1>3, <2>1, <2>2 DEF Asked, AnswerInfo
  <2>4. \A s \in Ids : sessions'[s] # None => sessions'[s] \in Calls /\ sessions'[s] # k
    BY <1>1, <1>3, <2>1, <2>2 DEF Owned, EntryFree, TablesOK
  <2>5. EntryFree'
    <3> SUFFICES ASSUME NEW s \in Ids, sessions'[s] # None
                 PROVE  /\ call[sessions'[s]].id = s /\ step'[sessions'[s]] \in Running
                        /\ GroupOf[call[sessions'[s]].to] = Group(sessions'[s])
                        /\ \A b \in Answers : holds'[b] # sessions'[s]
      BY <1>2 DEF EntryFree, Group
    <3>1. /\ sessions'[s] = sessions[s] /\ sessions[s] # None /\ sessions[s] \in Calls
          /\ sessions[s] # k
      BY <2>1, <2>4
    <3>2. \A b \in Answers : holds'[b] # sessions[s]
      BY <1>7, <2>1, <3>1 DEF Owned, EntryFree
    <3>3. /\ call[sessions[s]].id = s /\ step[sessions[s]] \in Running
          /\ GroupOf[call[sessions[s]].to] = Group(sessions[s])
      BY <3>1 DEF Owned, EntryFree
    <3>4. step'[sessions[s]] = step[sessions[s]]
      BY <1>5, <3>1
    <3> QED
      BY <3>1, <3>2, <3>3, <3>4
  <2>6. HeldRight'
    <3> SUFFICES ASSUME NEW b \in Answers, holds'[b] # None
                 PROVE  /\ step'[b] \in {"holding", "sent"} /\ step'[holds'[b]] \in Running
                        /\ answer[b] = [dev |-> call[holds'[b]].to, id |-> call[holds'[b]].id]
                        /\ GroupOf[call[holds'[b]].to] = Group(holds'[b])
      BY <1>2 DEF HeldRight, Group
    <3>1. CASE b = a
      <4>1. holds'[b] = k /\ step'[b] = "holding" /\ step'[k] = step[k]
        BY <1>5, <1>10, <2>1, <3>1
      <4> QED
        BY <2>2, <2>3, <3>1, <4>1
    <3>2. CASE b # a
      <4>1. holds'[b] = holds[b] /\ holds[b] \in Calls /\ b \in Wires
        BY <1>1, <1>7, <3>2 DEF EntriesOK, Wires
      <4>2. step'[b] = step[b] /\ step'[holds[b]] = step[holds[b]]
        BY <1>5, <3>2, <4>1
      <4> QED
        BY <4>1, <4>2 DEF Owned, HeldRight
    <3> QED
      BY <3>1, <3>2
  <2>7. TakenOnce'
    BY <1>7, <2>1, <2>2 DEF Owned, TakenOnce
  <2> QED
    BY <1>8, <2>5, <2>6, <2>7 DEF Owned
<1> QED
  BY <1>4, <1>9, <1>10

LEMMA DeliverOwned ==
  ASSUME Counted, Owned, NEW a \in Answers, Deliver(a)
  PROVE  Owned'
<1>1. RequestsOK /\ EntriesOK /\ TablesOK /\ step[a] = "holding" /\ a \in Wires
  BY DEF Counted, TypeOK, Deliver, Wires
<1>2. /\ UNCHANGED <<call, answer, holds, other, sessions>>
      /\ step' = [step EXCEPT ![a] = "sent"] /\ chan' = [chan EXCEPT ![holds[a]] = a]
  BY DEF Deliver
<1>3. /\ step'[a] = "sent" /\ \A x \in Wires : x # a => step'[x] = step[x]
      /\ \A j \in Calls : step'[j] = step[j]
  BY <1>1, <1>2, AnswerStepType DEF AnswerSteps
<1>4. holds[a] \in Calls /\ \A j \in Calls : other[j] # a
  BY <1>1, DistinctAssumption DEF Owned, Received, EntriesOK
<1>5. EntryFree' /\ HeldRight' /\ TakenOnce'
  BY <1>1, <1>2, <1>3
  DEF Owned, EntryFree, HeldRight, TakenOnce, Group, TablesOK, EntriesOK, Wires
<1>6. Received'
  BY <1>1, <1>2, <1>3 DEF Owned, Received, EntriesOK, Wires
<1>7. InChannel'
  BY <1>1, <1>2, <1>3, <1>4 DEF Owned, InChannel, EntriesOK, Wires
<1> QED
  BY <1>5, <1>6, <1>7 DEF Owned

LEMMA ClientOwned ==
  ASSUME Counted, Owned, ClientStep
  PROVE  Owned'
<1>1. RequestsOK /\ EntriesOK /\ TablesOK
  BY DEF Counted, TypeOK
<1>2. UNCHANGED <<sessions, holds, chan, other>>
  BY DEF ClientStep, ComeOrGo, Dial, Ignore, Answer, HangUp
<1>3. /\ \A j \in Calls : step[j] \in Running => step'[j] = step[j] /\ call'[j] = call[j]
      /\ \A b \in Answers : step[b] # "none" => step'[b] = step[b] /\ answer'[b] = answer[b]
  <2>1. ASSUME NEW k \in Calls, Dial(k)
        PROVE  /\ \A j \in Calls : j # k => step'[j] = step[j] /\ call'[j] = call[j]
               /\ \A b \in Answers : step'[b] = step[b] /\ answer'[b] = answer[b]
               /\ step[k] = "none"
    BY <1>1, <2>1, DistinctAssumption DEF Dial, RequestsOK, Wires
  <2>2. ASSUME NEW n \in notices, NEW a \in Answers, Answer(n, a)
        PROVE  /\ \A j \in Calls : step'[j] = step[j] /\ call'[j] = call[j]
               /\ \A b \in Answers : b # a => step'[b] = step[b] /\ answer'[b] = answer[b]
               /\ step[a] = "none"
    BY <1>1, <2>2, DistinctAssumption DEF Answer, RequestsOK, Wires
  <2>3. CASE UNCHANGED <<step, call, answer>>
    BY <2>3
  <2> QED
    BY <2>1, <2>2, <2>3 DEF ClientStep, ComeOrGo, Ignore, HangUp, Running
<1>4. \A s \in Ids : sessions[s] \in Calls \union {None}
  BY <1>1 DEF TablesOK
<1>5. \A b \in Answers : holds[b] \in Calls \union {None}
  BY <1>1 DEF EntriesOK
<1>6. EntryFree'
  BY <1>2, <1>3, <1>4 DEF Owned, EntryFree, Group
<1>7. HeldRight'
  <2> SUFFICES ASSUME NEW a \in Answers, holds[a] # None
               PROVE  /\ step'[a] \in {"holding", "sent"} /\ step'[holds[a]] \in Running
                      /\ answer'[a] = [dev |-> call'[holds[a]].to, id |-> call'[holds[a]].id]
                      /\ GroupOf[call'[holds[a]].to] = GroupOf[call'[holds[a]].from]
    BY <1>2 DEF HeldRight, Group
  <2>1. /\ holds[a] \in Calls /\ step[a] \in {"holding", "sent"} /\ step[holds[a]] \in Running
        /\ answer[a] = [dev |-> call[holds[a]].to, id |-> call[holds[a]].id]
        /\ GroupOf[call[holds[a]].to] = GroupOf[call[holds[a]].from]
    BY <1>5 DEF Owned, HeldRight, Group
  <2>2. /\ step'[holds[a]] = step[holds[a]] /\ call'[holds[a]] = call[holds[a]]
        /\ step'[a] = step[a] /\ answer'[a] = answer[a]
    BY <1>3, <2>1
  <2> QED
    BY <2>1, <2>2
<1>8. TakenOnce'
  BY <1>2 DEF Owned, TakenOnce
<1>9. InChannel' /\ Received'
  BY <1>1, <1>2, <1>3 DEF Owned, InChannel, Received, EntriesOK
<1> QED
  BY <1>6, <1>7, <1>8, <1>9 DEF Owned

LEMMA OwnedInductive == Spec => []Owned
<1>1. Init => Owned
  BY DEF Init, Owned, EntryFree, HeldRight, TakenOnce, InChannel, Received
<1>2. Counted /\ Owned /\ [Next]_vars => Owned'
  <2> SUFFICES ASSUME Counted, Owned, [Next]_vars PROVE Owned'
    OBVIOUS
  <2>1. CASE UNCHANGED vars
    BY <2>1 DEF vars, Owned, EntryFree, HeldRight, TakenOnce, InChannel, Received, Group
  <2> QED
    BY <2>1, CallStepOwned, AcceptOwned, DeliverOwned, ClientOwned DEF Next, AnswerStep
<1> QED
  BY <1>1, <1>2, CountedInductive, PTL DEF Spec

(* The relay joins a call only with the device it was for, of its group,   *)
(* and an answer with one call, for any number of concurrent requests and  *)
(* even when session ids repeat.                                           *)
THEOREM RelayJoinsRight == Spec => []JoinedRight
  BY CountedInductive, OwnedInductive, OwnedImplies, PTL

(* p.ch <- c in handleAccept never finds the channel full. *)
THEOREM AcceptNeverBlocks == Spec => []NeverBlocked
  BY CountedInductive, OwnedInductive, OwnedImplies, PTL

-----------------------------------------------------------------------------
(* Entries of the table.  WaitingIsAnswerable is not inductive: the step   *)
(* that removes an entry is another handler's, perhaps one that has gone   *)
(* on to its clean-up.  So the same is said of all handlers that will      *)
(* still remove what is under their id.                                    *)

Freed(s) ==
  \E j \in Calls : Answered(j) /\ call[j].id = s /\ step[j] \in WaitNoMore

EntryOrHeld ==
  \A k \in Calls : step[k] \in Busy =>
    sessions[call[k].id] = k \/ Answered(k) \/ Freed(call[k].id)

(* What a step must do for each request: its entry is there again, or an   *)
(* answer has it, or its id was answered before, or its handler goes on    *)
(* and keeps the entry.                                                    *)
AnsweredNext(k) == \E a \in Answers : holds'[a] = k
FreedNext(s) ==
  \E j \in Calls : AnsweredNext(j) /\ call'[j].id = s /\ step'[j] \in WaitNoMore

EntryStays(k) ==
  step'[k] \in Busy =>
    \/ sessions'[call'[k].id] = k
    \/ AnsweredNext(k)
    \/ FreedNext(call[k].id) /\ call'[k] = call[k]
    \/ /\ step[k] \in Busy /\ call'[k] = call[k]
       /\ sessions[call[k].id] = k => sessions'[call[k].id] = k

HoldsOn ==
  \A a \in Answers : holds[a] # None =>
    /\ holds'[a] = holds[a] /\ call'[holds[a]].id = call[holds[a]].id
    /\ step[holds[a]] \in WaitNoMore => step'[holds[a]] \in WaitNoMore

LEMMA HeldKept ==
  ASSUME HoldsOn
  PROVE  /\ \A k \in Calls : Answered(k) => AnsweredNext(k)
         /\ \A s : Freed(s) => FreedNext(s)
<1>1. ASSUME NEW k \in Calls, Answered(k)
      PROVE  /\ AnsweredNext(k) /\ call'[k].id = call[k].id
             /\ step[k] \in WaitNoMore => step'[k] \in WaitNoMore
  <2>1. PICK a \in Answers : holds[a] = k
    BY <1>1 DEF Answered
  <2>2. holds[a] # None
    BY <2>1, DistinctAssumption
  <2> QED
    BY <2>1, <2>2 DEF HoldsOn, AnsweredNext
<1> QED
  BY <1>1 DEF Freed, FreedNext

LEMMA EntriesKept ==
  ASSUME EntryOrHeld, HoldsOn, \A k \in Calls : EntryStays(k)
  PROVE  EntryOrHeld'
<1> SUFFICES ASSUME NEW k \in Calls, step'[k] \in Busy
             PROVE  sessions'[call'[k].id] = k \/ AnsweredNext(k) \/ FreedNext(call'[k].id)
  BY DEF EntryOrHeld, Answered, Freed, AnsweredNext, FreedNext
<1>1. EntryStays(k)
  OBVIOUS
<1>2. CASE FreedNext(call[k].id) /\ call'[k] = call[k]
  BY <1>2
<1>3. CASE /\ step[k] \in Busy /\ call'[k] = call[k]
           /\ sessions[call[k].id] = k => sessions'[call[k].id] = k
  <2>1. sessions[call[k].id] = k \/ Answered(k) \/ Freed(call[k].id)
    BY <1>3 DEF EntryOrHeld
  <2>2. /\ Answered(k) => AnsweredNext(k)
        /\ Freed(call[k].id) => FreedNext(call[k].id)
    BY HeldKept
  <2> QED
    BY <1>3, <2>1, <2>2
<1> QED
  BY <1>1, <1>2, <1>3 DEF EntryStays

LEMMA CallStepEntries ==
  ASSUME Counted, Owned, EntryOrHeld, NEW k \in Calls, CallStep(k)
  PROVE  EntryOrHeld'
<1>1. RequestsOK /\ EntriesOK /\ TablesOK /\ k \in Wires /\ UNCHANGED <<call, answer, holds>>
  BY DEF Counted, TypeOK, Wires, CallStep, Connect, Notify, TakeAnswer, TimeOut, Remove, Reply,
         Fail, PipeEnds, CleanUp, Drain
<1>2. /\ HoldsOn /\ \A j \in Calls : Answered(j) => AnsweredNext(j)
      /\ \A s : Freed(s) => FreedNext(s)
  <2>1. ASSUME NEW j \in Calls, step[j] \in WaitNoMore PROVE step'[j] \in WaitNoMore
    BY <1>1, <2>1
       DEF CallStep, Connect, Notify, TakeAnswer, TimeOut, Remove, Reply, Fail, PipeEnds, CleanUp,
           Drain, RequestsOK, Wires, WaitNoMore
  <2>2. \A a \in Answers : holds[a] # None => holds[a] \in Calls
    BY <1>1 DEF EntriesOK
  <2> QED
    BY <1>1, <2>1, <2>2, HeldKept DEF HoldsOn
<1> SUFFICES ASSUME NEW j \in Calls, step'[j] \in Busy
             PROVE  \/ sessions'[call'[j].id] = j
                    \/ AnsweredNext(j)
                    \/ FreedNext(call[j].id) /\ call'[j] = call[j]
                    \/ /\ step[j] \in Busy /\ call'[j] = call[j]
                       /\ sessions[call[j].id] = j => sessions'[call[j].id] = j
  BY <1>2, EntriesKept DEF EntryStays
<1>3. step[k] # "none" /\ call[k].id \in Ids /\ call'[j] = call[j]
  BY <1>1, CallKnown
     DEF CallStep, Connect, Notify, TakeAnswer, TimeOut, Remove, Reply, PipeEnds, CleanUp, Drain
<1>4. j # k => step'[j] = step[j] /\ call[j].id \in Ids
  BY <1>1, CallKnown
     DEF CallStep, Connect, Notify, TakeAnswer, TimeOut, Remove, Reply, Fail, PipeEnds, CleanUp,
         Drain, RequestsOK, Wires, Busy
<1>5. CASE Connect(k)
  <2>1. CASE MayEnter(k)
    <3>1. /\ sessions' = [sessions EXCEPT ![call[k].id] = k] /\ sessions[call[k].id] = None
          /\ step[k] = "asked"
      BY <1>5, <2>1 DEF Connect, MayEnter
    <3>2. sessions'[call[k].id] = k
      BY <1>1, <1>3, <3>1 DEF TablesOK
    <3>3. j # k /\ sessions[call[j].id] = j => sessions'[call[j].id] = j
      BY <1>1, <1>4, <3>1, DistinctAssumption DEF TablesOK
    <3> QED
      BY <1>3, <1>4, <3>2, <3>3
  <2>2. CASE ~MayEnter(k)
    <3>1. step'[k] \notin Busy /\ sessions' = sessions
      BY <1>1, <1>5, <2>2 DEF Connect, RequestsOK, Busy
    <3> QED
      BY <1>3, <1>4, <3>1
  <2> QED
    BY <2>1, <2>2
<1>6. CASE Notify(k) \/ TakeAnswer(k) \/ TimeOut(k) \/ Reply(k) \/ PipeEnds(k) \/ Drain(k)
  <2>1. sessions' = sessions
    BY <1>6 DEF Notify, TakeAnswer, TimeOut, Reply, Fail, PipeEnds, Drain
  <2>2. step'[k] \in Busy => step[k] \in Busy
    BY <1>1, <1>6 DEF Notify, TakeAnswer, TimeOut, Reply, Fail, PipeEnds, Drain, Busy, RequestsOK
  <2> QED
    BY <1>3, <1>4, <2>1, <2>2
<1>7. CASE Remove(k) \/ CleanUp(k)
  <2>1. /\ sessions' = [sessions EXCEPT ![call[k].id] = None] /\ step[k] \in Busy
        /\ Remove(k) => step[k] = "joined"
        /\ CleanUp(k) => step'[k] \notin Busy
    BY <1>1, <1>7 DEF Remove, CleanUp, Busy, RequestsOK
  <2>2. j # k /\ call[j].id # call[k].id => sessions'[call[j].id] = sessions[call[j].id]
    BY <1>1, <1>4, <2>1 DEF TablesOK
  <2>3. step'[k] \in WaitNoMore /\ call'[k] = call[k]
    BY <1>1, <1>7 DEF Remove, CleanUp, RequestsOK, WaitNoMore
  <2>4. CASE Answered(k) \/ Freed(call[k].id)
    <3>1. FreedNext(call[k].id)
      BY <1>2, <2>3, <2>4 DEF FreedNext
    <3> QED
      BY <1>2, <1>3, <1>4, <2>2, <2>4, <3>1
  <2>5. CASE ~Answered(k) /\ ~Freed(call[k].id)
    <3>1. sessions[call[k].id] = k
      BY <2>1, <2>5 DEF EntryOrHeld
    <3>2. ~Remove(k)
      <4> SUFFICES ASSUME Remove(k) PROVE FALSE
        OBVIOUS
      <4>1. other[k] # None /\ other[k] \in Answers
        BY <1>1, <2>1 DEF EntriesOK
      <4>2. holds[other[k]] = k
        BY <4>1 DEF Owned, Received
      <4> QED
        BY <2>5, <4>1, <4>2 DEF Answered
    <3>3. j # k
      BY <1>7, <2>1, <3>2
    <3> QED
      BY <1>3, <1>4, <2>2, <3>1, <3>3
  <2> QED
    BY <2>4, <2>5
<1> QED
  BY <1>5, <1>6, <1>7 DEF CallStep

LEMMA OtherStepEntries ==
  ASSUME Counted, Owned, EntryOrHeld,
         (\E a \in Answers : AnswerStep(a)) \/ ClientStep \/ UNCHANGED vars
  PROVE  EntryOrHeld'
<1>1. RequestsOK /\ EntriesOK /\ TablesOK
  BY DEF Counted, TypeOK
<1>2. \A a \in Answers : holds[a] # None => holds[a] \in Calls /\ step[holds[a]] # "none"
  <2> SUFFICES ASSUME NEW a \in Answers, holds[a] # None
               PROVE  holds[a] \in Calls /\ step[holds[a]] # "none"
    OBVIOUS
  <2>1. holds[a] \in Calls
    BY <1>1 DEF EntriesOK
  <2>2. step[holds[a]] \in Running
    BY DEF Owned, HeldRight
  <2> QED
    BY <2>1, <2>2 DEF Running
<1>3. CASE ClientStep \/ UNCHANGED vars
  <2>1. UNCHANGED <<sessions, holds>>
    BY <1>3 DEF ClientStep, ComeOrGo, Dial, Ignore, Answer, HangUp, vars
  <2>2. \A j \in Calls : /\ step[j] # "none" => step'[j] = step[j] /\ call'[j] = call[j]
                         /\ step[j] = "none" => step'[j] \in {"none", "asked"}
    BY <1>1, <1>3, DistinctAssumption
       DEF ClientStep, ComeOrGo, Dial, Ignore, Answer, HangUp, vars, RequestsOK, Wires
  <2>3. HoldsOn
    <3> SUFFICES ASSUME NEW a \in Answers, holds[a] # None
                 PROVE  /\ holds'[a] = holds[a] /\ call'[holds[a]].id = call[holds[a]].id
                        /\ step[holds[a]] \in WaitNoMore => step'[holds[a]] \in WaitNoMore
      BY DEF HoldsOn
    <3>1. call'[holds[a]] = call[holds[a]] /\ step'[holds[a]] = step[holds[a]]
      BY <1>2, <2>2
    <3> QED
      BY <2>1, <3>1
  <2>4. \A j \in Calls : EntryStays(j)
    <3> SUFFICES ASSUME NEW j \in Calls, step'[j] \in Busy
                 PROVE  step'[j] = step[j] /\ call'[j] = call[j]
      BY <2>1 DEF EntryStays
    <3> QED
      BY <2>2 DEF Busy
  <2> QED
    BY <2>3, <2>4, EntriesKept
<1>4. ASSUME NEW a \in Answers, AnswerStep(a) PROVE EntryOrHeld'
  <2>1. call' = call /\ \A j \in Calls : step'[j] = step[j]
    BY <1>1, <1>4, DistinctAssumption DEF AnswerStep, Accept, Deliver, RequestsOK, Wires
  <2>2. CASE UNCHANGED <<sessions, holds>>
    <3>1. HoldsOn
      BY <1>2, <2>1, <2>2 DEF HoldsOn
    <3>2. \A j \in Calls : EntryStays(j)
      BY <2>1, <2>2 DEF EntryStays
    <3> QED
      BY <3>1, <3>2, EntriesKept
  <2>3. CASE /\ Accept(a) /\ Asked(sessions[answer[a].id], a)
    <3> DEFINE s == answer[a].id  j == sessions[s]
    <3>1. /\ sessions' = [sessions EXCEPT ![s] = None] /\ holds' = [holds EXCEPT ![a] = j]
          /\ step[a] = "asked" /\ j # None
      BY <2>3 DEF Accept, Asked
    <3>2. s \in Ids /\ j \in Calls /\ call[j].id = s
      BY <1>1, <3>1, AnswerKnown DEF TablesOK, Owned, EntryFree
    <3>3. holds[a] = None
      BY <3>1 DEF Owned, HeldRight
    <3>4. HoldsOn
      BY <1>1, <1>2, <2>1, <3>1, <3>3 DEF EntriesOK, HoldsOn
    <3>5. AnsweredNext(j)
      BY <1>1, <3>1 DEF EntriesOK, AnsweredNext
    <3>6. ASSUME NEW i \in Calls PROVE EntryStays(i)
      <4>1. CASE i = j
        BY <3>5, <4>1 DEF EntryStays
      <4>2. CASE i # j /\ step[i] \in Busy
        <5>1. call[i].id \in Ids
          BY <1>1, <4>2, CallKnown DEF Busy
        <5>2. sessions[call[i].id] = i => sessions'[call[i].id] = i
          BY <1>1, <3>1, <4>2, <5>1 DEF TablesOK
        <5> QED
          BY <2>1, <4>2, <5>2 DEF EntryStays
      <4> QED
        BY <2>1, <4>1, <4>2 DEF EntryStays
    <3> QED
      BY <3>4, <3>6, EntriesKept
  <2> QED
    BY <1>4, <2>2, <2>3 DEF AnswerStep, Accept, Deliver
<1> QED
  BY <1>3, <1>4

LEMMA EntriesInductive == Spec => []EntryOrHeld
<1>1. Init => EntryOrHeld
  BY DEF Init, EntryOrHeld, Busy, Wires
<1>2. Counted /\ Owned /\ EntryOrHeld /\ [Next]_vars => EntryOrHeld'
  BY CallStepEntries, OtherStepEntries DEF Next
<1> QED
  BY <1>1, <1>2, CountedInductive, OwnedInductive, PTL DEF Spec

(* handleAccept finds the call it is for: whatever other requests come in  *)
(* with the same id and however their handlers end, the entry of a call    *)
(* that waits goes only with its own answer, or when a call with its id,   *)
(* answered before, cleans up late.                                        *)
THEOREM WaitingStaysAnswerable == Spec => []WaitingIsAnswerable
<1>1. EntryOrHeld => WaitingIsAnswerable
  BY DEF EntryOrHeld, Freed, WaitingIsAnswerable, Busy
<1> QED
  BY <1>1, EntriesInductive, PTL

-----------------------------------------------------------------------------
(* Connections.  A handler on its way out has closed them.                 *)

Out == {"cleanup", "drain", "done"}

EndsClosed ==
  \A k \in Calls :
    /\ step[k] \in {"none", "asked", "notify", "waiting"} => other[k] = None
    /\ step[k] \in Out => k \in closed /\ (other[k] # None => other[k] \in closed)

LEMMA CallStepCloses ==
  ASSUME Counted, EndsClosed, NEW k \in Calls, CallStep(k)
  PROVE  EndsClosed'
<1>1. RequestsOK /\ EntriesOK /\ TablesOK /\ k \in Wires
  BY DEF Counted, TypeOK, Wires
<1>2. closed \subseteq closed'
  BY DEF CallStep, Connect, Notify, TakeAnswer, TimeOut, Remove, Reply, Fail, PipeEnds, CleanUp,
         Drain
<1>3. \A j \in Calls : j # k => step'[j] = step[j] /\ other'[j] = other[j]
  BY <1>1
     DEF CallStep, Connect, Notify, TakeAnswer, TimeOut, Remove, Reply, Fail, PipeEnds, CleanUp,
         Drain, RequestsOK, EntriesOK, Wires
<1>4. /\ step'[k] \in {"none", "asked", "notify", "waiting"} => other'[k] = None
      /\ step'[k] \in Out => k \in closed' /\ (other'[k] # None => other'[k] \in closed')
  <2>1. CASE Connect(k)
    BY <1>1, <2>1 DEF Connect, EndsClosed, RequestsOK, EntriesOK, Out
  <2>2. CASE Notify(k) \/ TimeOut(k)
    BY <1>1, <2>2 DEF Notify, TimeOut, Fail, EndsClosed, RequestsOK, EntriesOK, Out
  <2>3. CASE TakeAnswer(k) \/ Remove(k)
    BY <1>1, <2>3 DEF TakeAnswer, Remove, RequestsOK, Out
  <2>4. CASE Reply(k) \/ PipeEnds(k)
    BY <1>1, <2>4 DEF Reply, PipeEnds, EndsClosed, RequestsOK, EntriesOK, Out
  <2>5. CASE CleanUp(k) \/ Drain(k)
    BY <1>1, <2>5 DEF CleanUp, Drain, EndsClosed, RequestsOK, EntriesOK, Out
  <2> QED
    BY <2>1, <2>2, <2>3, <2>4, <2>5 DEF CallStep
<1> QED
  BY <1>2, <1>3, <1>4 DEF EndsClosed

LEMMA OtherStepCloses ==
  ASSUME Counted, EndsClosed,
         (\E a \in Answers : AnswerStep(a)) \/ ClientStep \/ UNCHANGED vars
  PROVE  EndsClosed'
<1>1. RequestsOK
  BY DEF Counted, TypeOK
<1>2. other' = other /\ closed \subseteq closed'
  BY DEF AnswerStep, Accept, Deliver, ClientStep, ComeOrGo, Dial, Ignore, Answer, HangUp, vars
<1>3. \A j \in Calls : step'[j] = step[j] \/ (step[j] = "none" /\ step'[j] = "asked")
  <2>1. ASSUME NEW a \in Answers, AnswerStep(a) PROVE \A j \in Calls : step'[j] = step[j]
    BY <1>1, <2>1, DistinctAssumption DEF AnswerStep, Accept, Deliver, RequestsOK, Wires
  <2>2. ASSUME ClientStep \/ UNCHANGED vars
        PROVE  \A j \in Calls : step'[j] = step[j] \/ (step[j] = "none" /\ step'[j] = "asked")
    <3>1. CASE step' = step
      BY <3>1
    <3>2. ASSUME NEW k \in Calls, Dial(k)
          PROVE  \A j \in Calls : step'[j] = step[j] \/ (step[j] = "none" /\ step'[j] = "asked")
      BY <1>1, <3>2 DEF Dial, RequestsOK, Wires
    <3>3. ASSUME NEW n \in notices, NEW a \in Answers, Answer(n, a)
          PROVE  \A j \in Calls : step'[j] = step[j]
      BY <1>1, <3>3, DistinctAssumption DEF Answer, RequestsOK, Wires
    <3> QED
      BY <2>2, <3>1, <3>2, <3>3 DEF ClientStep, ComeOrGo, Ignore, HangUp, vars
  <2> QED
    BY <2>1, <2>2
<1> QED
  BY <1>2, <1>3 DEF EndsClosed, Out

(* However a call ends (refused, not told, not answered, joined and over), *)
(* the relay has closed it and the answer it was joined with.              *)
THEOREM EndedStaysClosed == Spec => []EndedIsClosed
<1>1. Init => EndsClosed
  BY DEF Init, EndsClosed, Out, Wires
<1>2. Counted /\ EndsClosed /\ [Next]_vars => EndsClosed'
  BY CallStepCloses, OtherStepCloses DEF Next
<1>3. EndsClosed => EndedIsClosed
  BY DEF EndsClosed, EndedIsClosed, Out
<1> QED
  BY <1>1, <1>2, <1>3, CountedInductive, PTL DEF Spec

-----------------------------------------------------------------------------
(* The handlers implement Rendezvous.  Who has been told anything: nobody  *)
(* before it is joined or given up, and an answer in a channel or with a   *)
(* handler that has not replied has heard nothing yet.                     *)

Early == {"none", "asked", "notify", "waiting", "joined", "replying"}

CallsTold ==
  \A k \in Calls :
    /\ step[k] = "none" => call[k] = None
    /\ step[k] \in Early => got[k] = "none" /\ (other[k] # None => got[other[k]] = "none")

AnswersTold ==
  \A a \in Answers :
    /\ step[a] = "none" => answer[a] = None
    /\ step[a] \in {"none", "asked", "holding"} => got[a] = "none"

ChannelsTold == \A k \in Calls : chan[k] # None => got[chan[k]] = "none"

(* A notice is of a call that was made.                                    *)
NoticesCalled == \A n \in notices : \E k \in Calls : call[k] = n

Told == CallsTold /\ AnswersTold /\ ChannelsTold /\ NoticesCalled

Meets == Counted /\ Owned /\ EndsClosed /\ Told

LEMMA MeetsTypes ==
  ASSUME Meets
  PROVE  /\ RequestsOK /\ EntriesOK /\ TablesOK
         /\ got \in [Wires -> {"none", "ok", "err"}]
         /\ \A k \in Calls : k \in Wires /\ k # None /\ k \notin Answers
         /\ \A a \in Answers : a \in Wires /\ a # None /\ a \notin Calls
         /\ \A k \in Calls : other[k] \in Answers \union {None} /\ chan[k] \in Answers \union {None}
  BY DistinctAssumption DEF Meets, Counted, TypeOK, TablesOK, EntriesOK, Wires

(* What a handler of a call leaves alone. *)
LEMMA CallStepFrame ==
  ASSUME Meets, NEW k \in Calls, CallStep(k)
  PROVE  /\ UNCHANGED <<call, answer>> /\ step[k] # "none" /\ step'[k] # "none"
         /\ \A x \in Wires : x # k => step'[x] = step[x]
         /\ \A j \in Calls : j # k => other'[j] = other[j] /\ chan'[j] = chan[j]
         /\ chan'[k] \in {chan[k], None}
         /\ other'[k] = other[k] \/ (step[k] = "waiting" /\ other'[k] = chan[k])
         /\ \A x \in Wires : x # k /\ x # other[k] => got'[x] = got[x]
         /\ step'[k] \in Early => got' = got
         /\ step'[k] \in Early => step[k] \in Early
         /\ notices' \subseteq notices \union {call[k]}
<1>1. /\ RequestsOK /\ EntriesOK /\ got \in [Wires -> {"none", "ok", "err"}] /\ k \in Wires
      /\ other[k] \in Answers \union {None}
  BY MeetsTypes
<1>2. CASE Connect(k)
  BY <1>1, <1>2 DEF Connect, Replied, RequestsOK, EntriesOK, Early
<1>3. CASE Notify(k) \/ TimeOut(k)
  BY <1>1, <1>3 DEF Notify, TimeOut, Fail, Replied, RequestsOK, EntriesOK, Early
<1>4. CASE TakeAnswer(k) \/ Remove(k)
  BY <1>1, <1>4 DEF TakeAnswer, Remove, RequestsOK, EntriesOK, Early
<1>5. CASE Reply(k) \/ PipeEnds(k)
  BY <1>1, <1>5 DEF Reply, PipeEnds, Replied, RequestsOK, EntriesOK, Early
<1>6. CASE CleanUp(k) \/ Drain(k)
  BY <1>1, <1>6 DEF CleanUp, Drain, RequestsOK, EntriesOK, Early
<1>7. QED
  BY <1>2, <1>3, <1>4, <1>5, <1>6 DEF CallStep

LEMMA CallStepTold ==
  ASSUME Meets, NEW k \in Calls, CallStep(k)
  PROVE  Told'
<1>1. /\ UNCHANGED <<call, answer>> /\ step[k] # "none" /\ step'[k] # "none"
      /\ \A x \in Wires : x # k => step'[x] = step[x]
      /\ \A j \in Calls : j # k => other'[j] = other[j] /\ chan'[j] = chan[j]
      /\ chan'[k] \in {chan[k], None}
      /\ other'[k] = other[k] \/ (step[k] = "waiting" /\ other'[k] = chan[k])
      /\ \A x \in Wires : x # k /\ x # other[k] => got'[x] = got[x]
      /\ step'[k] \in Early => got' = got
      /\ step'[k] \in Early => step[k] \in Early
      /\ notices' \subseteq notices \union {call[k]}
  BY CallStepFrame
<1>2. /\ \A j \in Calls : j \in Wires /\ j # None /\ j \notin Answers
      /\ \A a \in Answers : a \in Wires /\ a # None /\ a \notin Calls
      /\ \A j \in Calls : other[j] \in Answers \union {None} /\ chan[j] \in Answers \union {None}
  BY MeetsTypes
<1>3. /\ \A j \in Calls : other[j] # None => step[other[j]] = "sent" /\ holds[other[j]] = j
      /\ \A j \in Calls : chan[j] # None => holds[chan[j]] = j /\ other[j] # chan[j]
  BY DEF Meets, Owned, Received, InChannel
<1>4. \A j \in Calls : /\ j # k /\ other[j] # None => other[j] # other[k]
                       /\ chan[j] # None => chan[j] # other[k]
  BY <1>2, <1>3
<1>5. CallsTold /\ AnswersTold /\ ChannelsTold /\ NoticesCalled
  BY DEF Meets, Told
<1>6. ASSUME NEW j \in Calls
      PROVE  /\ step'[j] = "none" => call[j] = None
             /\ step'[j] \in Early =>
                  got'[j] = "none" /\ (other'[j] # None => got'[other'[j]] = "none")
  <2>1. CASE j = k
    BY <1>1, <1>5, <2>1 DEF CallsTold, ChannelsTold
  <2>2. CASE j # k
    <3>1. step'[j] = step[j] /\ other'[j] = other[j] /\ got'[j] = got[j]
      BY <1>1, <1>2, <2>2
    <3>2. other[j] # None => got'[other[j]] = got[other[j]]
      BY <1>1, <1>2, <1>4, <2>2
    <3>3. QED
      BY <1>5, <3>1, <3>2 DEF CallsTold
  <2>3. QED
    BY <2>1, <2>2
<1>7. ASSUME NEW a \in Answers
      PROVE  /\ step'[a] = "none" => answer[a] = None
             /\ step'[a] \in {"none", "asked", "holding"} => got'[a] = "none"
  <2>1. step'[a] = step[a]
    BY <1>1, <1>2
  <2>2. step[a] \in {"none", "asked", "holding"} => got'[a] = got[a]
    BY <1>1, <1>2, <1>3
  <2>3. QED
    BY <1>5, <2>1, <2>2 DEF AnswersTold
<1>8. ASSUME NEW j \in Calls, chan'[j] # None
      PROVE  got'[chan'[j]] = "none"
  <2>1. chan'[j] = chan[j]
    BY <1>1, <1>8
  <2>2. got'[chan[j]] = got[chan[j]]
    BY <1>1, <1>2, <1>4, <1>8, <2>1
  <2>3. QED
    BY <1>5, <1>8, <2>1, <2>2 DEF ChannelsTold
<1>9. NoticesCalled'
  BY <1>1, <1>5 DEF NoticesCalled
<1>10. QED
  BY <1>1, <1>6, <1>7, <1>8, <1>9 DEF Told, CallsTold, AnswersTold, ChannelsTold

LEMMA AnswerStepTold ==
  ASSUME Meets, NEW a \in Answers, AnswerStep(a)
  PROVE  Told'
<1>1. /\ RequestsOK /\ EntriesOK /\ got \in [Wires -> {"none", "ok", "err"}]
      /\ \A j \in Calls : j \in Wires /\ j # None /\ j \notin Answers
      /\ \A b \in Answers : b \in Wires /\ b # None /\ b \notin Calls
  BY MeetsTypes
<1>2. /\ \A j \in Calls : other[j] # None => step[other[j]] = "sent"
      /\ \A j \in Calls : chan[j] # None => step[chan[j]] = "sent"
  BY DEF Meets, Owned, Received, InChannel
<1>3. CallsTold /\ AnswersTold /\ ChannelsTold /\ NoticesCalled
  BY DEF Meets, Told
<1>4. /\ UNCHANGED <<call, answer, other, notices>> /\ step[a] \in {"asked", "holding"}
      /\ step'[a] \in {"holding", "sent", "done"} /\ \A x \in Wires : x # a => step'[x] = step[x]
      /\ \A x \in Wires : x # a => got'[x] = got[x]
      /\ step'[a] # "done" => got' = got
  BY <1>1 DEF AnswerStep, Accept, Deliver, Replied, RequestsOK
<1>5. \A j \in Calls : chan'[j] = chan[j] \/ (chan'[j] = a /\ step'[a] = "sent")
  BY <1>1 DEF AnswerStep, Accept, Deliver, RequestsOK, EntriesOK
<1>6. CallsTold'
  BY <1>1, <1>2, <1>3, <1>4 DEF CallsTold, Meets, Counted, TypeOK, EntriesOK
<1>7. AnswersTold'
  BY <1>1, <1>3, <1>4 DEF AnswersTold
<1>8. ChannelsTold'
  <2>1. got[a] = "none"
    BY <1>3, <1>4 DEF AnswersTold
  <2>2. ASSUME NEW j \in Calls, chan[j] # None
        PROVE  got'[chan[j]] = got[chan[j]]
    <3>1. chan[j] \in Wires /\ chan[j] # a
      BY <1>1, <1>2, <1>4, <2>2 DEF EntriesOK
    <3>2. QED
      BY <1>4, <3>1
  <2>3. QED
    BY <1>3, <1>4, <1>5, <2>1, <2>2 DEF ChannelsTold
<1>9. NoticesCalled'
  BY <1>3, <1>4 DEF NoticesCalled
<1>10. QED
  BY <1>6, <1>7, <1>8, <1>9 DEF Told

LEMMA ClientStepTold ==
  ASSUME Meets, ClientStep
  PROVE  Told'
<1>1. /\ RequestsOK /\ EntriesOK /\ TablesOK
      /\ \A j \in Calls : j \in Wires /\ j # None /\ j \notin Answers
      /\ \A b \in Answers : b \in Wires /\ b # None /\ b \notin Calls
  BY MeetsTypes
<1>2. CallsTold /\ AnswersTold /\ ChannelsTold /\ NoticesCalled
  BY DEF Meets, Told
<1>3. UNCHANGED <<got, other, chan>>
  BY DEF ClientStep, ComeOrGo, Dial, Ignore, Answer, HangUp
<1>4. ASSUME NEW k \in Calls, Dial(k) PROVE Told'
  <2>1. /\ step[k] = "none" /\ step'[k] = "asked" /\ notices' = notices /\ answer' = answer
        /\ \A x \in Wires : x # k => step'[x] = step[x]
        /\ \A j \in Calls : j # k => call'[j] = call[j]
    BY <1>1, <1>4 DEF Dial, RequestsOK
  <2>2. call[k] = None
    BY <1>2, <2>1 DEF CallsTold
  <2>3. None \notin notices
    BY <1>1, DistinctAssumption DEF TablesOK, Notices
  <2>4. NoticesCalled'
    BY <1>2, <2>1, <2>2, <2>3 DEF NoticesCalled
  <2>5. CallsTold'
    <3>1. \A j \in Calls : step'[j] \in Early => step[j] \in Early
      BY <1>1, <2>1 DEF Early
    <3>2. \A j \in Calls : step'[j] = "none" => step[j] = "none" /\ call'[j] = call[j]
      BY <1>1, <2>1
    <3>3. QED
      BY <1>2, <1>3, <3>1, <3>2 DEF CallsTold
  <2>6. AnswersTold' /\ ChannelsTold'
    BY <1>1, <1>2, <1>3, <2>1 DEF AnswersTold, ChannelsTold
  <2>7. QED
    BY <2>4, <2>5, <2>6 DEF Told
<1>5. ASSUME NEW n \in notices, NEW a \in Answers, Answer(n, a) PROVE Told'
  <2>1. /\ step[a] = "none" /\ step'[a] = "asked" /\ notices' = notices \ {n} /\ call' = call
        /\ \A x \in Wires : x # a => step'[x] = step[x]
        /\ \A b \in Answers : b # a => answer'[b] = answer[b]
    BY <1>1, <1>5 DEF Answer, RequestsOK
  <2>2. NoticesCalled' /\ ChannelsTold'
    BY <1>2, <1>3, <2>1 DEF NoticesCalled, ChannelsTold
  <2>3. CallsTold'
    BY <1>1, <1>2, <1>3, <2>1 DEF CallsTold
  <2>4. AnswersTold'
    BY <1>1, <1>2, <1>3, <2>1 DEF AnswersTold
  <2>5. QED
    BY <2>2, <2>3, <2>4 DEF Told
<1>6. ASSUME UNCHANGED <<call, step, answer>>, notices' \subseteq notices PROVE Told'
  BY <1>2, <1>3, <1>6 DEF Told, CallsTold, AnswersTold, ChannelsTold, NoticesCalled
<1>7. QED
  BY <1>4, <1>5, <1>6 DEF ClientStep, ComeOrGo, Ignore, HangUp

LEMMA MeetsInductive == Spec => []Meets
<1>1. Init => Told
  BY DEF Init, Told, CallsTold, AnswersTold, ChannelsTold, NoticesCalled, Wires
<1>2. Meets /\ [Next]_vars => Told'
  <2> SUFFICES ASSUME Meets, [Next]_vars PROVE Told'
    OBVIOUS
  <2>1. CASE UNCHANGED vars
    BY <2>1 DEF vars, Meets, Told, CallsTold, AnswersTold, ChannelsTold, NoticesCalled
  <2>2. QED
    BY <2>1, CallStepTold, AnswerStepTold, ClientStepTold DEF Next
<1>3. Init => EndsClosed
  BY DEF Init, EndsClosed, Out, Wires
<1>4. Counted /\ EndsClosed /\ [Next]_vars => EndsClosed'
  BY CallStepCloses, OtherStepCloses DEF Next
<1>5. QED
  BY <1>1, <1>2, <1>3, <1>4, CountedInductive, OwnedInductive, PTL DEF Spec, Meets

(* A handler's step, as Rendezvous sees it. *)

Over == {k \in Calls : step[k] \in {"cleanup", "drain", "done"}}

LEMMA OverNext ==
  ASSUME RequestsOK, NEW k \in Calls, NEW t \in CallSteps, step[k] # "none",
         step' = [step EXCEPT ![k] = t], UNCHANGED <<call, answer>>
  PROVE  Over' = IF t \in Out THEN Over \union {k} ELSE Over \ {k}
<1>1. /\ step'[k] = t
      /\ \A j \in Calls : j # k => step'[j] = step[j]
  BY CallStepType DEF Wires
<1>2. QED
  BY <1>1 DEF Over, Out

LEMMA CallStepMaps ==
  ASSUME Meets, NEW k \in Calls, CallStep(k)
  PROVE  [Meeting!Next]_(Meeting!meetVars)
<1>1. /\ RequestsOK /\ EntriesOK /\ TablesOK /\ got \in [Wires -> {"none", "ok", "err"}]
      /\ k \in Wires /\ k # None /\ k \notin Answers
      /\ other[k] \in Answers \union {None} /\ chan[k] \in Answers \union {None}
      /\ \A a \in Answers : a \in Wires /\ a # None /\ a \notin Calls
  BY MeetsTypes
<1>2. call' = call /\ answer' = answer /\ step[k] # "none" /\ call[k] # None
  BY <1>1, CallStepFrame DEF RequestsOK
<1>3. /\ step[k] \in {"none", "asked", "notify", "waiting"} => other[k] = None
      /\ step[k] \in Early => got[k] = "none" /\ (other[k] # None => got[other[k]] = "none")
      /\ chan[k] # None => got[chan[k]] = "none"
  BY DEF Meets, EndsClosed, Told, CallsTold, ChannelsTold
<1>4. \A t \in CallSteps : step' = [step EXCEPT ![k] = t] =>
        Over' = IF t \in Out THEN Over \union {k} ELSE Over \ {k}
  BY <1>1, <1>2, OverNext
<1>5. step[k] \notin Out => k \notin Over
  BY DEF Over, Out
<1>6. step[k] \in Out => k \in Over
  BY DEF Over, Out
<1>7. ASSUME step[k] \in {"asked", "notify", "waiting"}, Over' = Over \union {k}, other' = other,
             got' = Replied(k, "err")
      PROVE  Meeting!Next
  <2>1. got[k] = "none" /\ other[k] = None /\ k \notin Over
    BY <1>3, <1>5, <1>7 DEF Early, Out
  <2>2. Meeting!Tell(k, "err")
    BY <1>1, <1>7, <2>1 DEF Meeting!Tell, Replied
  <2>3. Meeting!Fail(k)
    BY <1>2, <1>7, <2>1, <2>2 DEF Meeting!Fail, Over
  <2>4. QED
    BY <2>3 DEF Meeting!Next
<1>8. ASSUME Over' = Over, other' = other, got' = got
      PROVE  UNCHANGED Meeting!meetVars
  BY <1>2, <1>8 DEF Meeting!meetVars, Over
<1>9. CASE Connect(k)
  <2>1. CASE MayEnter(k)
    BY <1>4, <1>5, <1>8, <1>9, <2>1 DEF Connect, CallSteps, Out
  <2>2. CASE ~MayEnter(k)
    BY <1>4, <1>7, <1>9, <2>2 DEF Connect, CallSteps, Out
  <2>3. QED
    BY <2>1, <2>2
<1>10. CASE Notify(k) \/ TimeOut(k)
  <2>1. /\ step[k] \in {"notify", "waiting"} /\ other' = other
        /\ \/ step' = [step EXCEPT ![k] = "waiting"] /\ got' = got
           \/ step' = [step EXCEPT ![k] = "cleanup"] /\ got' = Replied(k, "err")
    BY <1>10 DEF Notify, TimeOut, Fail
  <2>2. CASE step' = [step EXCEPT ![k] = "waiting"] /\ got' = got
    BY <1>4, <1>5, <1>8, <2>1, <2>2 DEF CallSteps, Out
  <2>3. CASE step' = [step EXCEPT ![k] = "cleanup"] /\ got' = Replied(k, "err")
    BY <1>4, <1>7, <2>1, <2>3 DEF CallSteps, Out
  <2>4. QED
    BY <2>1, <2>2, <2>3
<1>11. CASE TakeAnswer(k)
  <2> DEFINE a == chan[k]
  <2>1. /\ step[k] = "waiting" /\ a # None /\ other' = [other EXCEPT ![k] = a]
        /\ step' = [step EXCEPT ![k] = "joined"] /\ got' = got
    BY <1>11 DEF TakeAnswer
  <2>2. a \in Answers /\ got[a] = "none" /\ other[k] = None /\ k \notin Over /\ Over' = Over
    BY <1>1, <1>3, <1>4, <1>5, <2>1 DEF CallSteps, Out
  <2>3. holds[a] = k /\ \A j \in Calls : other[j] # a
    BY <1>1, <2>1, <2>2 DEF Meets, Owned, InChannel, Received
  <2>4. /\ answer[a] = [dev |-> call[k].to, id |-> call[k].id]
        /\ GroupOf[call[k].to] = GroupOf[call[k].from]
    BY <1>1, <2>2, <2>3 DEF Meets, Owned, HeldRight, Group
  <2>5. Meeting!Join(k, a)
    BY <1>2, <2>1, <2>2, <2>3, <2>4 DEF Meeting!Join, Meeting!Free, Over
  <2>6. QED
    BY <2>2, <2>5 DEF Meeting!Next
<1>12. CASE Remove(k)
  BY <1>4, <1>5, <1>8, <1>12 DEF Remove, CallSteps, Out
<1>13. CASE Reply(k)
  <2> DEFINE a == other[k]
  <2>1. /\ step[k] = "replying" /\ other' = other /\ a # None /\ a \in Answers
        /\ got[k] = "none" /\ got[a] = "none" /\ k \notin Over
    BY <1>1, <1>3, <1>5, <1>13 DEF Reply, EntriesOK, Early, Out
  <2>2. CASE /\ got' = [Replied(k, "ok") EXCEPT ![a] = IF a \in hung THEN @ ELSE "ok"]
             /\ step' = [step EXCEPT ![k] = "piping"]
    <3> DEFINE told == {k, a} \ hung
    <3>1. got' = [x \in DOMAIN got |-> IF x \in told THEN "ok" ELSE got[x]]
      BY <1>1, <2>1, <2>2 DEF Replied
    <3>2. Over' = Over
      BY <1>4, <2>1, <2>2 DEF CallSteps, Out
    <3>3. told \in SUBSET {k, a}
      OBVIOUS
    <3> HIDE DEF told
    <3>4. Meeting!Confirm(k)
      BY <1>2, <2>1, <3>1, <3>2, <3>3 DEF Meeting!Confirm, Over
    <3>5. QED
      BY <3>4 DEF Meeting!Next
  <2>3. CASE got' = Replied(k, "ok") /\ step' = [step EXCEPT ![k] = "cleanup"]
    <3> DEFINE told == {k} \ hung
    <3>1. got' = [x \in DOMAIN got |-> IF x \in told THEN "ok" ELSE got[x]]
      BY <1>1, <2>1, <2>3 DEF Replied
    <3>2. Over' = Over \union {k}
      BY <1>4, <2>3 DEF CallSteps, Out
    <3>3. told \in SUBSET {k, a} /\ a \notin told
      BY <1>1, <2>1
    <3> HIDE DEF told
    <3>4. Meeting!Confirm(k)
      BY <1>2, <2>1, <3>1, <3>2, <3>3 DEF Meeting!Confirm, Over
    <3>5. QED
      BY <3>4 DEF Meeting!Next
  <2>4. QED
    BY <1>13, <2>2, <2>3 DEF Reply
<1>14. CASE PipeEnds(k)
  <2>1. /\ step[k] = "piping" /\ other' = other /\ got' = got /\ other[k] # None
        /\ k \notin Over /\ Over' = Over \union {k}
    BY <1>1, <1>4, <1>5, <1>14 DEF PipeEnds, EntriesOK, CallSteps, Out
  <2>2. Meeting!End(k)
    BY <1>2, <2>1 DEF Meeting!End, Over
  <2>3. QED
    BY <2>2 DEF Meeting!Next
<1>15. CASE CleanUp(k) \/ Drain(k)
  BY <1>4, <1>6, <1>8, <1>15 DEF CleanUp, Drain, CallSteps, Out
<1>16. QED
  BY <1>9, <1>10, <1>11, <1>12, <1>13, <1>14, <1>15 DEF CallStep

LEMMA AnswerStepMaps ==
  ASSUME Meets, NEW a \in Answers, AnswerStep(a)
  PROVE  [Meeting!Next]_(Meeting!meetVars)
<1>1. /\ RequestsOK /\ got \in [Wires -> {"none", "ok", "err"}]
      /\ a \in Wires /\ a # None /\ a \notin Calls
  BY MeetsTypes
<1>2. /\ UNCHANGED <<call, answer, other>> /\ step[a] \in {"asked", "holding"}
      /\ \A x \in Wires : x # a => step'[x] = step[x]
      /\ got' = got \/ got' = Replied(a, "err")
  BY <1>1 DEF AnswerStep, Accept, Deliver, RequestsOK
<1>3. Over' = Over
  BY <1>1, <1>2 DEF Over, Wires
<1>4. CASE got' = got
  BY <1>2, <1>3, <1>4 DEF Meeting!meetVars, Over
<1>5. CASE got' = Replied(a, "err")
  <2>1. got[a] = "none"
    BY <1>2 DEF Meets, Told, AnswersTold
  <2>2. Meeting!Tell(a, "err")
    BY <1>1, <1>5, <2>1 DEF Meeting!Tell, Replied
  <2>3. answer[a] # None
    BY <1>1, <1>2 DEF RequestsOK
  <2>4. \A k \in Calls : other[k] # a
    BY <1>1, <1>2 DEF Meets, Owned, Received
  <2>5. Meeting!Refuse(a)
    BY <1>2, <1>3, <2>2, <2>3, <2>4 DEF Meeting!Refuse, Meeting!Free, Over
  <2>6. QED
    BY <2>5 DEF Meeting!Next
<1>6. QED
  BY <1>2, <1>4, <1>5

LEMMA ClientStepMaps ==
  ASSUME Meets, ClientStep
  PROVE  [Meeting!Next]_(Meeting!meetVars)
<1>1. /\ RequestsOK /\ TablesOK
      /\ \A j \in Calls : j \in Wires /\ j # None /\ j \notin Answers
      /\ \A b \in Answers : b \in Wires /\ b # None /\ b \notin Calls
  BY MeetsTypes
<1>2. UNCHANGED <<got, other>>
  BY DEF ClientStep, ComeOrGo, Dial, Ignore, Answer, HangUp
<1>3. ASSUME NEW k \in Calls, Dial(k) PROVE Meeting!Next
  <2>1. /\ step[k] = "none" /\ step'[k] = "asked" /\ answer' = answer
        /\ \A x \in Wires : x # k => step'[x] = step[x]
        /\ \E r \in [from : Devices, to : Devices, id : Ids] :
             r.from # r.to /\ call' = [call EXCEPT ![k] = r]
    BY <1>1, <1>3 DEF Dial, RequestsOK, CallInfo
  <2>2. Over' = Over
    BY <1>1, <2>1 DEF Over
  <2>3. call[k] = None
    BY <2>1 DEF Meets, Told, CallsTold
  <2>4. Meeting!Ask(k)
    BY <1>2, <2>1, <2>2, <2>3 DEF Meeting!Ask, Over
  <2>5. QED
    BY <2>4 DEF Meeting!Next
<1>4. ASSUME NEW n \in notices, NEW a \in Answers, Answer(n, a) PROVE Meeting!Next
  <2>1. /\ step[a] = "none" /\ call' = call
        /\ answer' = [answer EXCEPT ![a] = [dev |-> n.to, id |-> n.id]]
        /\ \A x \in Wires : x # a => step'[x] = step[x]
    BY <1>1, <1>4 DEF Answer, RequestsOK
  <2>2. Over' = Over
    BY <1>1, <2>1 DEF Over
  <2>3. answer[a] = None
    BY <2>1 DEF Meets, Told, AnswersTold
  <2>4. PICK k \in Calls : call[k] = n
    BY DEF Meets, Told, NoticesCalled
  <2>5. call[k] # None
    BY <1>1, <2>4, DistinctAssumption DEF TablesOK, Notices
  <2>6. Meeting!Offer(a)
    BY <1>2, <2>1, <2>2, <2>3, <2>4, <2>5 DEF Meeting!Offer, Over
  <2>7. QED
    BY <2>6 DEF Meeting!Next
<1>5. ASSUME UNCHANGED <<call, step, answer>> PROVE UNCHANGED Meeting!meetVars
  BY <1>2, <1>5 DEF Meeting!meetVars
<1>6. QED
  BY <1>3, <1>4, <1>5 DEF ClientStep, ComeOrGo, Ignore, HangUp

(* relay.go: for any devices, connections and session ids that repeat, and *)
(* however handlers, deadlines and clients that hang up interleave, the    *)
(* relay joins and refuses as Rendezvous does: an answer is joined at most *)
(* once, with a call to its device that nobody else answered and that has  *)
(* not failed, and nobody is told twice.                                   *)
THEOREM RelayIsRendezvous == Spec => IsRendezvous
<1>1. Init => Meeting!Init
  BY DEF Init, Meeting!Init, Wires
<1>2. Meets /\ [Next]_vars => [Meeting!Next]_(Meeting!meetVars)
  <2> SUFFICES ASSUME Meets, [Next]_vars PROVE [Meeting!Next]_(Meeting!meetVars)
    OBVIOUS
  <2>1. CASE UNCHANGED vars
    BY <2>1 DEF vars, Meeting!meetVars
  <2>2. QED
    BY <2>1, CallStepMaps, AnswerStepMaps, ClientStepMaps DEF Next
<1>3. QED
  BY <1>1, <1>2, MeetsInductive, PTL DEF Spec, IsRendezvous, Meeting!Spec
=============================================================================
