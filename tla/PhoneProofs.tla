---------------------------- MODULE PhoneProofs -----------------------------
(***************************************************************************)
(* What unlocking with a phone keeps to for any number of phones, users,   *)
(* services and attempts and any bound on the keys; and what a computer    *)
(* shows of its phones' calls, notifications and status keeps to for any   *)
(* number of phones, notifications, players and packets.                   *)
(***************************************************************************)
EXTENDS Unlock, PhoneNotices, SequenceTheorems, TLAPS

(* Unlocking. *)

(* Every variable has its type, setup all of its fields.                   *)
Typed ==
  /\ UnlockOK
  /\ setup \in [step : {"no", "ask", "prove", "root", "remove"},
                phone : Signers \union {0}, key : Keys]

(* An answer is the signature that the fingerprint made.                   *)
AnswersSigned == \A c \in Challenges : answer[c] # 0 => fingers[c] = answer[c]

(* SetupUnlock carries the key it asked for.                               *)
SetupHasKey == setup.step \in {"ask", "prove"} => setup.key # 0

(* What is being installed is a key, and the lines follow it; the key that *)
(* is being removed goes before the first line.                            *)
RootsOrderly ==
  \A u \in Users : /\ root[u] = "key" => installs[u] # 0
                   /\ root[u] = "lines" => trusted[u] # 0
                   /\ root[u] = "forget" => next[u] = 1

(* A removal has been through the services before the next one, and none   *)
(* of them has lines again.                                                *)
Clearing(u) == root[u] = "unline" /\ \A i \in 1 .. next[u] - 1 : Services[i] \notin lined

Somebody == \E u \in Users : trusted[u] # 0

(* LinesHaveKey alone would let the last removal end with lines left: one  *)
(* that is at it must have cleared what it has passed.                     *)
LinesEnd == lined # {} => broken \/ Somebody \/ \E u \in Users : Clearing(u)

UInv == Typed /\ AnswersSigned /\ PassedWasTouched /\ SetupHasKey /\ RootsOrderly /\ LinesEnd

-----------------------------------------------------------------------------
LEMMA Known == 0 \in Keys /\ 1 \in 1 .. Len(Services) + 1 /\ Len(Services) \in Nat /\ Me \in Users
  BY UnlockAssumption, LenProperties DEF Keys

LEMMA UnlockStarts == UnlockInit => UInv
<1> SUFFICES ASSUME UnlockInit PROVE UInv
  OBVIOUS
<1>1. setup.step = "no" /\ setup.key = 0
  BY DEF UnlockInit, NoSetup
<1>2. UnlockOK
  <2>1. /\ up \subseteq Signers /\ forgets \subseteq Signers /\ config \in Signers \union {0}
        /\ phoneKey \in [Signers -> Keys] /\ keys \in Keys
    BY Known DEF UnlockInit
  <2>2. /\ root \in [Users -> {"no", "done", "failed"} \union Installing \union Removing]
        /\ trusted \in [Users -> Keys] /\ installs \in [Users -> Keys]
        /\ next \in [Users -> 1 .. Len(Services) + 1]
    BY Known DEF UnlockInit
  <2>3. lined \subseteq Range(Services) /\ broken \in BOOLEAN
    BY DEF UnlockInit
  <2>4. /\ try \in [Attempts -> {"no", "sent", "passed", "refused"}] /\ tryKey \in [Attempts -> Keys]
        /\ carrying \in [Attempts -> {"no", "got", "asking", "over"}]
        /\ carries \in [Attempts -> Signers \union {0}]
    BY Known DEF UnlockInit
  <2>5. /\ asks \in [Challenges -> {"no", "asked", "answered", "failed"}]
        /\ askedOf \in [Challenges -> Signers \union {0}]
        /\ answer \in [Challenges -> Keys] /\ fingers \in [Challenges -> Keys]
    BY Known DEF UnlockInit
  <2> QED
    BY <1>1, <2>1, <2>2, <2>3, <2>4, <2>5, Known DEF UnlockOK
<1>3. setup \in [step : {"no", "ask", "prove", "root", "remove"},
                 phone : Signers \union {0}, key : Keys]
  BY UnlockAssumption DEF UnlockInit, Keys, NoSetup
<1> QED
  BY <1>2, <1>3 DEF UnlockInit, UInv, Typed, AnswersSigned, PassedWasTouched, SetupHasKey, NoSetup,
     RootsOrderly, LinesEnd

-----------------------------------------------------------------------------
(* Types. *)

LEMMA PhoneTypes ==
  ASSUME Typed, NEW p \in Signers, PhoneUp(p) \/ PhoneDown(p) \/ SetupUnlock(p) \/ Forget(p)
  PROVE  Typed'
<1>1. CASE PhoneUp(p)
  BY <1>1 DEF PhoneUp, Typed, UnlockOK, signVars, setupVars, rootVars, tryVars
<1>2. CASE PhoneDown(p)
  BY <1>2 DEF PhoneDown, Typed, UnlockOK, setupVars, rootVars, tryVars
<1>3. CASE SetupUnlock(p)
  <2>1. keys + 1 \in Keys
    BY <1>3, UnlockAssumption DEF SetupUnlock, Typed, UnlockOK, Keys
  <2>2. setup' \in [step : {"no", "ask"}, phone : Signers \union {0}, key : Keys]
    BY <1>3, <2>1, Known DEF SetupUnlock, NoSetup
  <2> QED
    BY <1>3, <2>1, <2>2 DEF SetupUnlock, Typed, UnlockOK, signVars, rootVars, tryVars
<1>4. CASE Forget(p)
  <2>1. phoneKey' \in [Signers -> Keys]
    BY <1>4, Known DEF Forget, Typed, UnlockOK
  <2> QED
    BY <1>4, <2>1 DEF Forget, Typed, UnlockOK, signVars, rootVars, tryVars
<1> QED
  BY <1>1, <1>2, <1>3, <1>4

LEMMA SignTypes ==
  ASSUME Typed, NEW c \in Challenges, PhoneSigns(c) \/ PhoneRefuses(c) \/ AskTimeout(c)
  PROVE  Typed'
<1>1. CASE PhoneSigns(c)
  <2>1. phoneKey[askedOf[c]] \in Keys
    BY <1>1 DEF PhoneSigns, Typed, UnlockOK
  <2>2. /\ asks' \in [Challenges -> {"no", "asked", "answered", "failed"}]
        /\ answer' \in [Challenges -> Keys] /\ fingers' \in [Challenges -> Keys]
    BY <1>1, <2>1 DEF PhoneSigns, Typed, UnlockOK
  <2> QED
    BY <1>1, <2>2 DEF PhoneSigns, Typed, UnlockOK, phoneVars, setupVars, rootVars, tryVars
<1>2. CASE PhoneRefuses(c) \/ AskTimeout(c)
  BY <1>2 DEF PhoneRefuses, AskTimeout, Typed, UnlockOK, phoneVars, setupVars, rootVars, tryVars
<1> QED
  BY <1>1, <1>2

LEMMA StartTypes ==
  ASSUME Typed, NEW u \in Users, NEW op \in Installing \union Removing, NEW k \in Keys,
         StartRoot(u, op, k)
  PROVE  /\ root' \in [Users -> {"no", "done", "failed"} \union Installing \union Removing]
         /\ installs' \in [Users -> Keys] /\ next' \in [Users -> 1 .. Len(Services) + 1]
         /\ UNCHANGED <<trusted, lined, broken>>
<1>1. 1 \in 1 .. Len(Services) + 1
  BY UnlockAssumption, LenProperties
<1> QED
  BY <1>1 DEF StartRoot, Typed, UnlockOK

LEMMA SetupTypes ==
  ASSUME Typed, AskProof \/ CheckProof \/ DisableUnlock \/ RootReturns
  PROVE  Typed'
<1>1. 0 \in Keys /\ NoSetup \in [step : {"no"}, phone : {0}, key : {0}] /\ Me \in Users
  BY UnlockAssumption DEF Keys, NoSetup
<1>2. CASE AskProof
  <2>1. setup' \in [step : {"prove"}, phone : Signers \union {0}, key : Keys]
    BY <1>2 DEF AskProof, Typed
  <2>2. asks' \in [Challenges -> {"no", "asked", "answered", "failed"}]
    BY <1>2 DEF AskProof, AskPhone, Typed, UnlockOK
  <2>3. askedOf' \in [Challenges -> Signers \union {0}]
    BY <1>2 DEF AskProof, AskPhone, Typed, UnlockOK
  <2> QED
    BY <1>2, <2>1, <2>2, <2>3 DEF AskProof, AskPhone, Typed, UnlockOK, phoneVars, rootVars, tryVars
<1>3. CASE CheckProof
  <2>1. "key" \in Installing \union Removing /\ setup.key \in Keys
    BY DEF Installing, Typed
  <2>2. setup' \in [step : {"no", "root"}, phone : Signers \union {0}, key : Keys]
    BY <1>1, <1>3 DEF CheckProof, Typed
  <2> QED
    BY <1>1, <1>3, <2>1, <2>2, StartTypes
       DEF CheckProof, Typed, UnlockOK, phoneVars, rootVars, tryVars, signVars
<1>4. CASE DisableUnlock
  <2>1. "forget" \in Installing \union Removing
    BY DEF Removing
  <2>2. setup' \in [step : {"remove"}, phone : {0}, key : {0}]
    BY <1>1, <1>4 DEF DisableUnlock
  <2> QED
    BY <1>1, <1>4, <2>1, <2>2, StartTypes
       DEF DisableUnlock, Typed, UnlockOK, phoneVars, tryVars, signVars
<1>5. CASE RootReturns
  BY <1>1, <1>5 DEF RootReturns, Typed, UnlockOK, phoneVars, tryVars, signVars
<1> QED
  BY <1>2, <1>3, <1>4, <1>5

LEMMA RootTypes ==
  ASSUME Typed, NEW u \in Users, OtherRoot(u) \/ RootStep(u)
  PROVE  Typed'
<1>1. CASE OtherRoot(u)
  <2>1. 0 \in Keys /\ {"key", "forget"} \subseteq Installing \union Removing
    BY UnlockAssumption DEF Keys, Installing, Removing
  <2>2. CASE keys < MaxKeys /\ keys' = keys + 1 /\ StartRoot(u, "key", keys + 1)
    <3>1. keys + 1 \in Keys
      BY <2>2, UnlockAssumption DEF Typed, UnlockOK, Keys
    <3> QED
      BY <1>1, <2>1, <2>2, <3>1, StartTypes
         DEF OtherRoot, Typed, UnlockOK, setupVars, tryVars, signVars
  <2>3. CASE UNCHANGED keys /\ StartRoot(u, "forget", 0)
    BY <1>1, <2>1, <2>3, StartTypes DEF OtherRoot, Typed, UnlockOK, setupVars, tryVars, signVars
  <2>4. CASE root[u] \in {"done", "failed"} /\ root' = [root EXCEPT ![u] = "no"]
             /\ UNCHANGED <<installs, next, trusted, lined, broken, keys>>
    BY <1>1, <2>4 DEF OtherRoot, Typed, UnlockOK, setupVars, tryVars, signVars
  <2> QED
    BY <1>1, <2>2, <2>3, <2>4 DEF OtherRoot
<1>2. CASE RootStep(u)
  <2>1. next[u] <= Len(Services) => /\ Services[next[u]] \in Range(Services)
                                    /\ next[u] + 1 \in 1 .. Len(Services) + 1
    BY UnlockAssumption, LenProperties DEF Range, Typed, UnlockOK
  <2>2. PICK s \in {"no", "done", "failed"} \union Installing \union Removing :
           root' = [root EXCEPT ![u] = s]
    <3>1. CASE UninstallKey(u)
      BY <3>1 DEF UninstallKey, Removing
    <3>2. CASE InstallKey(u) \/ RootDone(u) \/ RootFails(u)
      BY <3>2 DEF InstallKey, RootDone, RootFails, Installing
    <3>3. CASE AddLines(u) \/ RemoveLines(u)
      <4>1. root' = [root EXCEPT ![u] = root[u]]
        BY <3>3 DEF AddLines, RemoveLines, Typed, UnlockOK
      <4> QED
        BY <4>1 DEF Typed, UnlockOK
    <3> QED
      BY <1>2, <3>1, <3>2, <3>3 DEF RootStep
  <2>3. trusted' \in [Users -> Keys]
    <3>1. CASE InstallKey(u) \/ UninstallKey(u)
      <4>1. PICK k \in Keys : trusted' = [trusted EXCEPT ![u] = k]
        BY <3>1, Known DEF InstallKey, UninstallKey, Typed, UnlockOK
      <4> QED
        BY <4>1 DEF Typed, UnlockOK
    <3>2. CASE UNCHANGED trusted
      BY <3>2 DEF Typed, UnlockOK
    <3> QED
      BY <1>2, <3>1, <3>2 DEF RootStep, AddLines, RemoveLines, RootDone, RootFails
  <2>4. next' \in [Users -> 1 .. Len(Services) + 1] /\ lined' \subseteq Range(Services)
    BY <1>2, <2>1
       DEF RootStep, InstallKey, UninstallKey, AddLines, RemoveLines, RootDone, RootFails, Typed,
           UnlockOK
  <2>5. broken' \in BOOLEAN /\ installs' = installs
    BY <1>2
       DEF RootStep, InstallKey, UninstallKey, AddLines, RemoveLines, RootDone, RootFails, Typed,
           UnlockOK
  <2> QED
    BY <1>2, <2>2, <2>3, <2>4, <2>5
       DEF RootStep, Typed, UnlockOK, phoneVars, setupVars, tryVars, signVars
<1> QED
  BY <1>1, <1>2

Attempt(a) ==
  Authenticate(a) \/ ServeUnlock(a) \/ AskForAttempt(a) \/ CarryBack(a) \/ AuthTimeout(a)

LEMMA AttemptTypes ==
  ASSUME Typed, NEW a \in Attempts, Attempt(a)
  PROVE  Typed'
<1>1. CASE Authenticate(a)
  <2>1. trusted[Me] \in Keys
    BY Known DEF Typed, UnlockOK
  <2>2. /\ try' \in [Attempts -> {"no", "sent", "passed", "refused"}]
        /\ tryKey' \in [Attempts -> Keys]
        /\ carrying' \in [Attempts -> {"no", "got", "asking", "over"}]
    BY <1>1, <2>1 DEF Authenticate, Typed, UnlockOK
  <2> QED
    BY <1>1, <2>2 DEF Authenticate, Typed, UnlockOK, phoneVars, setupVars, rootVars, signVars
<1>2. CASE ServeUnlock(a)
  <2>1. config \in Signers \union {0} /\ UNCHANGED <<tryKey, signVars, phoneVars, setupVars, rootVars>>
    BY <1>2 DEF ServeUnlock, Typed, UnlockOK
  <2>2. carrying' \in [Attempts -> {"no", "got", "asking", "over"}]
    <3>1. \/ carrying' = [carrying EXCEPT ![a] = "asking"]
          \/ carrying' = [carrying EXCEPT ![a] = "over"]
      BY <1>2 DEF ServeUnlock
    <3>2. carrying \in [Attempts -> {"no", "got", "asking", "over"}]
      BY DEF Typed, UnlockOK
    <3> QED BY <3>1, <3>2
  <2>3. carries' \in [Attempts -> Signers \union {0}]
    BY <1>2, <2>1 DEF ServeUnlock, Typed, UnlockOK
  <2>4. try' \in [Attempts -> {"no", "sent", "passed", "refused"}]
    <3>1. try' = try \/ try' = [try EXCEPT ![a] = "refused"]
      BY <1>2 DEF ServeUnlock
    <3>2. try \in [Attempts -> {"no", "sent", "passed", "refused"}]
      BY DEF Typed, UnlockOK
    <3> QED BY <3>1, <3>2
  <2> QED
    BY <2>1, <2>2, <2>3, <2>4 DEF Typed, UnlockOK, phoneVars, setupVars, rootVars, signVars
<1>3. CASE AskForAttempt(a)
  <2>1. asks' \in [Challenges -> {"no", "asked", "answered", "failed"}]
    BY <1>3 DEF AskForAttempt, AskPhone, Typed, UnlockOK
  <2>2. askedOf' \in [Challenges -> Signers \union {0}]
    BY <1>3 DEF AskForAttempt, AskPhone, Typed, UnlockOK
  <2> QED
    BY <1>3, <2>1, <2>2
       DEF AskForAttempt, AskPhone, Typed, UnlockOK, phoneVars, setupVars, rootVars, tryVars
<1>4. CASE CarryBack(a) \/ AuthTimeout(a)
  <2>1. /\ try' \in [Attempts -> {"no", "sent", "passed", "refused"}]
        /\ carrying' \in [Attempts -> {"no", "got", "asking", "over"}]
    BY <1>4 DEF CarryBack, AuthTimeout, Typed, UnlockOK
  <2> QED
    BY <1>4, <2>1 DEF CarryBack, AuthTimeout, Typed, UnlockOK, phoneVars, setupVars, rootVars, signVars
<1> QED
  BY <1>1, <1>2, <1>3, <1>4 DEF Attempt

-----------------------------------------------------------------------------
(* Who is let in. *)

LEMMA AttemptSigned ==
  ASSUME Typed, AnswersSigned, PassedWasTouched, NEW a \in Attempts, Attempt(a)
  PROVE  AnswersSigned' /\ PassedWasTouched'
<1>1. a \in Challenges /\ Attempts \subseteq Challenges
  BY DEF Challenges
<1>2. UNCHANGED <<answer, fingers>>
  BY DEF Attempt, Authenticate, ServeUnlock, AskForAttempt, AskPhone, CarryBack, AuthTimeout, signVars
<1>3. AnswersSigned'
  BY <1>2 DEF AnswersSigned
<1>4. CASE Authenticate(a)
  <2>1. SUFFICES ASSUME NEW b \in Attempts, try'[b] = "passed"
                 PROVE  fingers'[b] = tryKey'[b] /\ tryKey'[b] # 0
    BY <1>3 DEF PassedWasTouched
  <2>2. b # a /\ try[b] = "passed" /\ tryKey'[b] = tryKey[b]
    BY <1>4, <2>1 DEF Authenticate, Typed, UnlockOK
  <2> QED
    BY <1>2, <2>2 DEF PassedWasTouched
<1>5. CASE CarryBack(a)
  BY <1>1, <1>2, <1>5 DEF CarryBack, Verifies, AnswersSigned, PassedWasTouched, Typed, UnlockOK
<1>6. CASE ServeUnlock(a) \/ AskForAttempt(a) \/ AuthTimeout(a)
  <2>1. SUFFICES ASSUME NEW b \in Attempts, try'[b] = "passed"
                 PROVE  fingers'[b] = tryKey'[b] /\ tryKey'[b] # 0
    BY <1>3 DEF PassedWasTouched
  <2>2. try[b] = "passed" /\ tryKey' = tryKey
    BY <1>6, <2>1 DEF ServeUnlock, AskForAttempt, AuthTimeout, Typed, UnlockOK, tryVars
  <2> QED
    BY <1>2, <2>2 DEF PassedWasTouched
<1> QED
  BY <1>3, <1>4, <1>5, <1>6 DEF Attempt

LEMMA SignSigned ==
  ASSUME Typed, AnswersSigned, PassedWasTouched, NEW c \in Challenges,
         PhoneSigns(c) \/ PhoneRefuses(c) \/ AskTimeout(c)
  PROVE  AnswersSigned' /\ PassedWasTouched'
<1>1. Attempts \subseteq Challenges
  BY DEF Challenges
<1>2. CASE PhoneSigns(c)
  BY <1>1, <1>2 DEF PhoneSigns, AnswersSigned, PassedWasTouched, Typed, UnlockOK, tryVars
<1>3. CASE PhoneRefuses(c) \/ AskTimeout(c)
  BY <1>3 DEF PhoneRefuses, AskTimeout, AnswersSigned, PassedWasTouched, tryVars
<1> QED
  BY <1>2, <1>3

\* Nothing else touches answers, signatures and attempts.
LEMMA OthersSigned ==
  ASSUME AnswersSigned, PassedWasTouched, UNCHANGED <<answer, fingers, try, tryKey>>
  PROVE  AnswersSigned' /\ PassedWasTouched'
  BY DEF AnswersSigned, PassedWasTouched

-----------------------------------------------------------------------------
(* Which services have lines. *)

LEMMA RootsSame ==
  ASSUME RootsOrderly, LinesEnd, UNCHANGED rootVars
  PROVE  RootsOrderly' /\ LinesEnd'
  BY DEF RootsOrderly, LinesEnd, Somebody, Clearing, rootVars

\* A user whose root program rests is not the one who clears.
LEMMA RootStarts ==
  ASSUME Typed, RootsOrderly, LinesEnd, NEW u \in Users, NEW k,
         (StartRoot(u, "key", k) /\ k # 0) \/ StartRoot(u, "forget", k)
  PROVE  RootsOrderly' /\ LinesEnd'
<1>1. RootsOrderly'
  <2>1. SUFFICES ASSUME NEW v \in Users
                 PROVE  /\ root'[v] = "key" => installs'[v] # 0
                        /\ root'[v] = "lines" => trusted'[v] # 0
                        /\ root'[v] = "forget" => next'[v] = 1
    BY DEF RootsOrderly
  <2>2. CASE v # u
    BY <2>2 DEF StartRoot, RootsOrderly, Typed, UnlockOK
  <2>3. CASE v = u
    BY <2>3 DEF StartRoot, Typed, UnlockOK
  <2> QED
    BY <2>2, <2>3
<1>2. \A v \in Users : Clearing(v) => Clearing(v)'
  BY DEF StartRoot, Clearing, Typed, UnlockOK
<1> QED
  BY <1>1, <1>2 DEF StartRoot, LinesEnd, Somebody

LEMMA RootRests ==
  ASSUME Typed, RootsOrderly, LinesEnd, NEW u \in Users, root[u] \in {"done", "failed"},
         root' = [root EXCEPT ![u] = "no"],
         UNCHANGED <<installs, next, trusted, lined, broken>>
  PROVE  RootsOrderly' /\ LinesEnd'
<1>1. RootsOrderly'
  BY DEF RootsOrderly, Typed, UnlockOK
<1>2. \A v \in Users : Clearing(v) => Clearing(v)'
  BY DEF Clearing, Typed, UnlockOK
<1> QED
  BY <1>1, <1>2 DEF LinesEnd, Somebody

LEMMA StepOrderly ==
  ASSUME Typed, RootsOrderly, NEW u \in Users, RootStep(u)
  PROVE  RootsOrderly'
<1>1. CASE InstallKey(u)
  BY <1>1 DEF InstallKey, RootsOrderly, Typed, UnlockOK
<1>2. CASE UninstallKey(u)
  BY <1>2 DEF UninstallKey, RootsOrderly, Typed, UnlockOK
<1>3. CASE AddLines(u) \/ RemoveLines(u)
  BY <1>3 DEF AddLines, RemoveLines, RootsOrderly, Typed, UnlockOK
<1>4. CASE RootDone(u) \/ RootFails(u)
  BY <1>4 DEF RootDone, RootFails, RootsOrderly, Typed, UnlockOK
<1> QED
  BY <1>1, <1>2, <1>3, <1>4 DEF RootStep

\* One who clears goes on clearing while no lines are added and it is not
\* the one who moves.
LEMMA ClearsOn ==
  ASSUME Typed, NEW u \in Users, NEW s, root' = [root EXCEPT ![u] = s], lined' \subseteq lined,
         NEW v \in Users, v # u, next'[v] = next[v], Clearing(v)
  PROVE  Clearing(v)'
  BY DEF Clearing, Typed, UnlockOK

LEMMA StepLines ==
  ASSUME Typed, RootsOrderly, LinesEnd, NEW u \in Users, RootStep(u)
  PROVE  LinesEnd'
<1>1. CASE InstallKey(u)
  <2>1. trusted'[u] # 0
    BY <1>1 DEF InstallKey, RootsOrderly, Typed, UnlockOK
  <2> QED
    BY <2>1 DEF LinesEnd, Somebody
<1>2. CASE UninstallKey(u)
  <2>1. CASE OthersTrust(u)
    <3>1. PICK v \in Users \ {u} : trusted[v] # 0
      BY <2>1 DEF OthersTrust
    <3>2. trusted'[v] # 0
      BY <1>2, <3>1 DEF UninstallKey, Typed, UnlockOK
    <3> QED
      BY <3>2 DEF LinesEnd, Somebody
  <2>2. CASE ~OthersTrust(u)
    <3>1. root'[u] = "unline" /\ next'[u] = 1
      BY <1>2, <2>2 DEF UninstallKey, RootsOrderly, Typed, UnlockOK
    <3>2. Clearing(u)'
      BY <3>1 DEF Clearing
    <3> QED
      BY <3>2 DEF LinesEnd
  <2> QED
    BY <2>1, <2>2
<1>3. CASE AddLines(u)
  <2>1. trusted'[u] # 0
    BY <1>3 DEF AddLines, RootsOrderly
  <2> QED
    BY <2>1 DEF LinesEnd, Somebody
<1>4. CASE RemoveLines(u)
  <2>1. lined' \subseteq lined /\ UNCHANGED <<root, trusted, broken>>
    BY <1>4 DEF RemoveLines
  <2>2. \A v \in Users : v # u => next'[v] = next[v]
    BY <1>4 DEF RemoveLines, Typed, UnlockOK
  <2>3. ASSUME NEW v \in Users, Clearing(v) PROVE Clearing(v)'
    <3>1. CASE v # u
      BY <2>1, <2>2, <2>3, <3>1 DEF Clearing
    <3>2. CASE v = u
      <4>1. next'[u] = next[u] + 1 /\ next[u] \in Nat /\ lined' = lined \ {Services[next[u]]}
        BY <1>4, Known DEF RemoveLines, Typed, UnlockOK
      <4>2. ASSUME NEW i \in 1 .. next'[u] - 1 PROVE Services[i] \notin lined'
        <5>1. i \in 1 .. next[u] - 1 \/ i = next[u]
          BY <4>1, <4>2
        <5> QED
          BY <2>3, <3>2, <4>1, <5>1 DEF Clearing
      <4> QED
        BY <2>1, <2>3, <3>2, <4>2 DEF Clearing
    <3> QED
      BY <3>1, <3>2
  <2> QED
    BY <2>1, <2>3 DEF LinesEnd, Somebody
<1>5. CASE RootDone(u)
  <2>1. UNCHANGED <<next, trusted, lined, broken>> /\ root' = [root EXCEPT ![u] = "done"]
    BY <1>5 DEF RootDone
  <2>2. Clearing(u) => lined = {}
    <3>1. SUFFICES ASSUME Clearing(u), NEW x \in lined PROVE FALSE
      OBVIOUS
    <3>2. PICK i \in 1 .. Len(Services) : Services[i] = x
      BY UnlockAssumption, Known, LenProperties DEF Typed, UnlockOK, Range
    <3>3. i \in 1 .. next[u] - 1
      BY <1>5, <3>2, Known DEF RootDone, Typed, UnlockOK
    <3> QED
      BY <3>1, <3>2, <3>3 DEF Clearing
  <2>3. \A v \in Users : v # u /\ Clearing(v) => Clearing(v)'
    BY <2>1, ClearsOn
  <2> QED
    BY <2>1, <2>2, <2>3 DEF LinesEnd, Somebody
<1>6. CASE RootFails(u)
  <2>1. UNCHANGED <<next, trusted, lined>> /\ root' = [root EXCEPT ![u] = "failed"]
        /\ broken' = (broken \/ root[u] = "unline")
    BY <1>6 DEF RootFails
  <2>2. \A v \in Users : v # u /\ Clearing(v) => Clearing(v)'
    BY <2>1, ClearsOn
  <2>3. Clearing(u) => broken'
    BY <2>1 DEF Clearing
  <2> QED
    BY <2>1, <2>2, <2>3 DEF LinesEnd, Somebody
<1> QED
  BY <1>1, <1>2, <1>3, <1>4, <1>5, <1>6 DEF RootStep

-----------------------------------------------------------------------------
LEMMA UnlockSteps ==
  ASSUME UInv, [UnlockNext]_uVars
  PROVE  UInv'
<1> USE DEF UInv
<1>1. CASE UNCHANGED uVars
  <2>1. Typed'
    BY <1>1 DEF uVars, Typed, UnlockOK
  <2> QED
    BY <1>1, <2>1, RootsSame, OthersSigned DEF uVars, rootVars, SetupHasKey
<1>2. ASSUME NEW a \in Attempts, Attempt(a) PROVE UInv'
  <2>1. UNCHANGED rootVars /\ UNCHANGED setup
    BY <1>2 DEF Attempt, Authenticate, ServeUnlock, AskForAttempt, CarryBack, AuthTimeout, setupVars
  <2> QED
    BY <1>2, <2>1, AttemptTypes, AttemptSigned, RootsSame DEF SetupHasKey
<1>3. ASSUME NEW c \in Challenges, PhoneSigns(c) \/ PhoneRefuses(c) \/ AskTimeout(c) PROVE UInv'
  <2>1. UNCHANGED rootVars /\ UNCHANGED setup
    BY <1>3 DEF PhoneSigns, PhoneRefuses, AskTimeout, setupVars
  <2> QED
    BY <1>3, <2>1, SignTypes, SignSigned, RootsSame DEF SetupHasKey
<1>4. ASSUME NEW p \in Signers, PhoneUp(p) \/ PhoneDown(p) \/ SetupUnlock(p) \/ Forget(p) PROVE UInv'
  <2>1. UNCHANGED rootVars /\ UNCHANGED <<answer, fingers, try, tryKey>>
    BY <1>4 DEF PhoneUp, PhoneDown, SetupUnlock, Forget, signVars, tryVars
  <2>2. SetupHasKey'
    BY <1>4, UnlockAssumption
       DEF PhoneUp, PhoneDown, SetupUnlock, Forget, setupVars, SetupHasKey, NoSetup, Typed, UnlockOK, Keys
  <2> QED
    BY <1>4, <2>1, <2>2, PhoneTypes, RootsSame, OthersSigned
<1>5. ASSUME AskProof \/ CheckProof \/ DisableUnlock \/ RootReturns PROVE UInv'
  <2>1. UNCHANGED <<answer, fingers, try, tryKey>>
    BY <1>5 DEF AskProof, AskPhone, CheckProof, DisableUnlock, RootReturns, signVars, tryVars
  <2>2. SetupHasKey'
    BY <1>5 DEF AskProof, CheckProof, DisableUnlock, RootReturns, SetupHasKey, NoSetup, Typed
  <2>3. RootsOrderly' /\ LinesEnd'
    <3>1. CASE UNCHANGED rootVars
      BY <3>1, RootsSame
    <3>2. CASE StartRoot(Me, "key", setup.key) /\ setup.step = "prove"
      BY <3>2, Known, RootStarts DEF SetupHasKey
    <3>3. CASE StartRoot(Me, "forget", 0)
      BY <3>3, Known, RootStarts
    <3>4. CASE RootReturns
      BY <3>4, Known, RootRests DEF RootReturns
    <3> QED
      BY <1>5, <3>1, <3>2, <3>3, <3>4 DEF AskProof, CheckProof, DisableUnlock
  <2> QED
    BY <1>5, <2>1, <2>2, <2>3, SetupTypes, OthersSigned
<1>6. ASSUME NEW u \in Users, OtherRoot(u) \/ RootStep(u) PROVE UInv'
  <2>1. UNCHANGED <<answer, fingers, try, tryKey, setup>>
    BY <1>6 DEF OtherRoot, RootStep, signVars, tryVars, setupVars
  <2>2. RootsOrderly' /\ LinesEnd'
    <3>1. CASE StartRoot(u, "key", keys + 1)
      <4>1. keys + 1 # 0
        BY UnlockAssumption DEF Typed, UnlockOK, Keys
      <4> QED
        BY <3>1, <4>1, RootStarts
    <3>2. CASE StartRoot(u, "forget", 0)
      BY <3>2, RootStarts
    <3>3. CASE /\ root[u] \in {"done", "failed"} /\ root' = [root EXCEPT ![u] = "no"]
               /\ UNCHANGED <<installs, next, trusted, lined, broken>>
      BY <3>3, RootRests
    <3>4. CASE RootStep(u)
      BY <3>4, StepOrderly, StepLines
    <3> QED
      BY <1>6, <3>1, <3>2, <3>3, <3>4 DEF OtherRoot
  <2> QED
    BY <1>6, <2>1, <2>2, RootTypes, OthersSigned DEF SetupHasKey
<1> QED
  BY <1>1, <1>2, <1>3, <1>4, <1>5, <1>6 DEF UnlockNext, Attempt

LEMMA AlwaysUnlock == UnlockSpec => []UInv
  BY UnlockStarts, UnlockSteps, PTL DEF UnlockSpec

(* Every variable has its type in every state (unlock_app.go and           *)
(* palt-unlock's main.go).                                                 *)
THEOREM UnlockTypeCorrect == UnlockSpec => []UnlockOK
<1>1. UInv => UnlockOK
  BY DEF UInv, Typed
<1> QED
  BY <1>1, AlwaysUnlock, PTL

(* authenticate: an attempt that passes had a fingerprint for its own      *)
(* challenge, with the key that was trusted when it began, however many    *)
(* keys, phones and attempts there are.                                    *)
THEOREM LetInByFinger == UnlockSpec => []PassedWasTouched
<1>1. UInv => PassedWasTouched
  BY DEF UInv
<1> QED
  BY <1>1, AlwaysUnlock, PTL

(* uninstall: however any number of users' installs and removals overlap,  *)
(* the services have PALT's lines only while somebody's key is trusted, a  *)
(* removal is at it, or one broke off half-way.                            *)
THEOREM LinesOnlyWithKey == UnlockSpec => []LinesHaveKey
<1>1. UInv => LinesHaveKey
  BY DEF UInv, LinesEnd, LinesHaveKey, Somebody, Clearing
<1> QED
  BY <1>1, AlwaysUnlock, PTL

-----------------------------------------------------------------------------
(* Calls and notifications. *)

CallPackets == [event : CallEvents, note : {0}]
About(n)    == [event : {"posted", "removed"}, note : {n}]
Packets     == CallPackets \union [event : {"posted", "removed"}, note : Notes]

Begins == {"ringing", "talking"}
Ends   == {"missed", "ended"}

(* A link's reader: the call or the notification it is at, and how far.    *)
Reading(i) ==
  [step : {"idle", "pause", "hold", "notify", "register", "store", "close"},
   event : CallEvents \union {"none"}, note : {0} \union Notes, id : {i}, held : SUBSET Players]
ReaderFits(h) ==
  /\ h \in Reading(h.id)
  /\ h.step = "idle" => h = Idle
  /\ h.note # 0 => h.step \in {"notify", "register", "store"}
  /\ h.note = 0 /\ h.step \in {"pause", "hold"} => h.event \in Begins
  /\ h.note = 0 /\ h.step \in {"notify", "register", "store"} => h.event = "ringing"
  /\ h.step = "close" => h.event \in Ends \union {"talking"}

PhonesOK ==
  /\ call \in [Mobiles -> CallStates] /\ notes \in [Mobiles -> SUBSET Notes]
  /\ hushed \in [Mobiles -> SUBSET ({0} \union Notes)] /\ untold \in [Mobiles -> SUBSET Notes]
  /\ linkedTo \subseteq Mobiles /\ events \in [Mobiles -> Nat]
  /\ (\A p \in Mobiles : events[p] <= MaxEvents[p]) /\ moves \in 0 .. MaxMoves /\ cut \in BOOLEAN
  /\ toldPC \in [Mobiles -> Seq(Packets)] /\ toldPhone \in [Mobiles -> Seq(Notes)]
HeldOK ==
  /\ active \in [Mobiles -> CallStates]
  /\ recent \in [Mobiles -> SUBSET Notes] /\ DOMAIN ids = NoteKeys
  /\ resumable \in [Mobiles -> SUBSET Players] /\ playing \subseteq Players /\ byUs \subseteq Players
ReadersOK == DOMAIN handler = Mobiles /\ \A p \in Mobiles : ReaderFits(handler[p])
(* Callbacks are about notifications only. *)
ScreenOK ==
  /\ \A s \in screen : s[2] \in NoteKeys
  /\ \A i \in DOMAIN pending : pending[i] \in NoteKeys
  /\ \A c \in closings : c[1] \in NoteKeys /\ c[1][2] # 0
ETyped == PhonesOK /\ HeldOK /\ ReadersOK /\ ScreenOK

LEMMA TypedIsOK == ETyped => EventsOK
<1> SUFFICES ASSUME ETyped PROVE EventsOK
  OBVIOUS
<1>1. \A p \in Mobiles : events[p] \in 0 .. MaxEvents[p]
  BY EventsAssumption DEF ETyped, PhonesOK
<1> QED
  BY <1>1 DEF ETyped, PhonesOK, HeldOK, ReadersOK, ReaderFits, Reading, ScreenOK, EventsOK

LEMMA StartsTyped == EventsInit => ETyped
<1> SUFFICES ASSUME EventsInit PROVE ETyped
  OBVIOUS
<1>1. ReaderFits(Idle)
  BY DEF ReaderFits, Reading, Idle
<1>2. PhonesOK
  <2>1. \A p \in Mobiles : toldPC[p] \in Seq(Packets) /\ toldPhone[p] \in Seq(Notes)
    BY EmptySeq DEF EventsInit
  <2>2. DOMAIN MaxEvents = Mobiles /\ \A p \in Mobiles : 0 <= MaxEvents[p]
    BY EventsAssumption
  <2> QED
    <3>1. events \in [Mobiles -> Nat] /\ \A p \in Mobiles : events[p] <= MaxEvents[p]
      BY <2>2, EventsAssumption DEF EventsInit
    <3>2. moves \in 0 .. MaxMoves /\ cut \in BOOLEAN
      <4>1. MaxMoves \in Nat
        BY EventsAssumption
      <4>2. moves = 0 /\ cut = FALSE
        BY DEF EventsInit
      <4>3. moves \in 0 .. MaxMoves
        BY <4>1, <4>2
      <4> QED
        BY <4>2, <4>3
    <3>3. toldPC \in [Mobiles -> Seq(Packets)] /\ toldPhone \in [Mobiles -> Seq(Notes)]
      BY <2>1 DEF EventsInit
    <3> QED
      BY <3>1, <3>2, <3>3 DEF EventsInit, PhonesOK, CallStates
<1> QED
  BY <1>1, <1>2 DEF EventsInit, ETyped, HeldOK, ReadersOK, ScreenOK, CallStates

-----------------------------------------------------------------------------
(* What an action does to the readers. *)

LEMMA ReaderMoves ==
  ASSUME ReadersOK, NEW p \in Mobiles, NEW r, ReaderFits(r), Becomes(p, r)
  PROVE  /\ ReadersOK' /\ handler'[p] = r
         /\ \A q \in Mobiles \ {p} : handler'[q] = handler[q]
  BY DEF ReadersOK, Becomes

LEMMA ReadersStay == ReadersOK /\ UNCHANGED handler => ReadersOK'
  BY DEF ReadersOK

(* Every action of a reader takes it to one of these. *)
LEMMA ReaderSteps ==
  ASSUME NEW h, ReaderFits(h)
  PROVE  /\ ReaderFits(Idle)
         /\ \A n \in Notes : ReaderFits([Idle EXCEPT !.step = "notify", !.note = n])
         /\ \A e \in CallEvents : \A i :
              ReaderFits([Idle EXCEPT !.step = IF e = "ringing" THEN "pause" ELSE "close",
                                      !.event = e, !.id = i])
         /\ h.step = "notify" => \A i : ReaderFits([h EXCEPT !.step = "register", !.id = i])
         /\ h.step = "register" => ReaderFits([h EXCEPT !.step = "store"])
         /\ h.step = "pause" => \A m \in SUBSET Players : ReaderFits([h EXCEPT !.step = "hold", !.held = m])
         /\ h.step \in {"pause", "hold"} /\ h.event = "ringing" => ReaderFits([h EXCEPT !.step = "notify"])
         /\ h.step = "close" /\ h.event = "talking" => ReaderFits([h EXCEPT !.step = "pause"])
<1> USE DEF ReaderFits, Reading, Idle, CallEvents, Begins, Ends
<1>1. ReaderFits(Idle)
  OBVIOUS
<1>2. ASSUME NEW n \in Notes PROVE ReaderFits([Idle EXCEPT !.step = "notify", !.note = n])
  BY EventsAssumption
<1>3. ASSUME NEW e \in CallEvents, NEW i
      PROVE  ReaderFits([Idle EXCEPT !.step = IF e = "ringing" THEN "pause" ELSE "close",
                                     !.event = e, !.id = i])
  <2>1. CASE e = "ringing"
    <3>1. ReaderFits([Idle EXCEPT !.step = "pause", !.event = e, !.id = i])
      BY <2>1
    <3> QED BY <2>1, <3>1
  <2>2. CASE e # "ringing"
    <3>1. ReaderFits([Idle EXCEPT !.step = "close", !.event = e, !.id = i])
      BY <2>2
    <3> QED BY <2>2, <3>1
  <2> QED BY <2>1, <2>2
<1>4. ASSUME h.step = "notify", NEW i PROVE ReaderFits([h EXCEPT !.step = "register", !.id = i])
  BY <1>4
<1>5. ASSUME h.step = "register" PROVE ReaderFits([h EXCEPT !.step = "store"])
  BY <1>5
<1>6. ASSUME h.step = "pause", NEW m \in SUBSET Players
      PROVE  ReaderFits([h EXCEPT !.step = "hold", !.held = m])
  BY <1>6
<1>7. ASSUME h.step \in {"pause", "hold"}, h.event = "ringing" PROVE ReaderFits([h EXCEPT !.step = "notify"])
  BY <1>7
<1>8. ASSUME h.step = "close", h.event = "talking" PROVE ReaderFits([h EXCEPT !.step = "pause"])
  BY <1>8
<1> QED
  BY <1>1, <1>2, <1>3, <1>4, <1>5, <1>6, <1>7, <1>8

LEMMA FirstPacket ==
  ASSUME ETyped, NEW p \in Mobiles, toldPC[p] # <<>>
  PROVE  /\ Head(toldPC[p]) \in Packets /\ Event(p) = Head(toldPC[p])
         /\ Event(p).event \in CallEvents => Event(p) \in CallPackets
         /\ Event(p).event \in {"posted", "removed"} =>
              Event(p).note \in Notes /\ Event(p) \in About(Event(p).note)
         /\ Tail(toldPC[p]) \in Seq(Packets)
<1>1. toldPC[p] \in Seq(Packets)
  BY DEF ETyped, PhonesOK
<1>2. Head(toldPC[p]) \in Packets /\ Tail(toldPC[p]) \in Seq(Packets)
  BY <1>1, HeadTailProperties
<1> QED
  BY <1>2 DEF Event, Packets, CallPackets, About, CallEvents

-----------------------------------------------------------------------------
(* Types. *)

LEMMA EventTyped ==
  ASSUME ETyped, NEW p \in Mobiles, Happens(p), toldPC' \in [Mobiles -> Seq(Packets)], cut' \in BOOLEAN,
         call' \in [Mobiles -> CallStates], notes' \in [Mobiles -> SUBSET Notes],
         untold' \in [Mobiles -> SUBSET Notes], hushed' = hushed, toldPhone' = toldPhone
  PROVE  ETyped'
<1>1. events[p] + 1 <= MaxEvents[p] /\ events' = [events EXCEPT ![p] = @ + 1]
  <2>1. events[p] \in Nat /\ MaxEvents[p] \in Nat
    BY EventsAssumption DEF ETyped, PhonesOK
  <2> QED BY <2>1 DEF Happens
<1>2. events' \in [Mobiles -> Nat] /\ \A q \in Mobiles : events'[q] <= MaxEvents[q]
  BY <1>1 DEF ETyped, PhonesOK
<1>3. UNCHANGED <<linkedTo, moves, active, recent, handler, ids, resumable, playing, byUs,
                  screen, pending, signalled, closings>>
  BY DEF Happens, playerVars, desktopVars
<1>4. PhonesOK'
  BY <1>2, <1>3 DEF ETyped, PhonesOK
<1> QED
  BY <1>3, <1>4 DEF ETyped, HeldOK, ReadersOK, ScreenOK

LEMMA TellTyped ==
  ASSUME ETyped, NEW p \in Mobiles, NEW e, NEW n, EventPacket(e, n) \in Packets,
         TellPC(p, e, n) \/ (Happens(p) /\ UNCHANGED <<toldPC, cut>>)
  PROVE  Happens(p) /\ toldPC' \in [Mobiles -> Seq(Packets)] /\ cut' \in BOOLEAN
<1>1. toldPC \in [Mobiles -> Seq(Packets)] /\ cut \in BOOLEAN
  BY DEF ETyped, PhonesOK
<1>2. Append(toldPC[p], EventPacket(e, n)) \in Seq(Packets)
  BY <1>1, AppendProperties
<1>3. toldPC' \in [Mobiles -> Seq(Packets)]
  BY <1>1, <1>2 DEF TellPC
<1> QED
  BY <1>1, <1>3 DEF TellPC

LEMMA PhoneTyped ==
  ASSUME ETyped, NEW p \in Mobiles,
         \/ RetellCall(p) \/ \E s \in CallStates : CallEvent(p, s)
         \/ \E n \in Notes : Post(p, n) \/ RemoveNote(p, n)
  PROVE  ETyped'
<1>0. /\ call \in [Mobiles -> CallStates] /\ notes \in [Mobiles -> SUBSET Notes]
      /\ untold \in [Mobiles -> SUBSET Notes]
  BY DEF ETyped, PhonesOK
<1>1. \A e \in CallEvents : EventPacket(e, 0) \in Packets
  BY DEF Packets, CallPackets, EventPacket
<1>2. \A e \in {"posted", "removed"}, n \in Notes : EventPacket(e, n) \in Packets
  BY DEF Packets, EventPacket
<1>3. CASE RetellCall(p)
  <2>1. call[p] \in CallEvents /\ TellPC(p, call[p], 0) /\ UNCHANGED <<call, notes, hushed, untold, toldPhone>>
    BY <1>0, <1>3 DEF RetellCall, CallStates, CallEvents
  <2> QED
    BY <1>0, <1>1, <2>1, TellTyped, EventTyped
<1>4. ASSUME NEW s \in CallStates, CallEvent(p, s) PROVE ETyped'
  <2>1. PICK e \in CallEvents : TellPC(p, e, 0) \/ (Happens(p) /\ UNCHANGED <<toldPC, cut>>)
    BY <1>4 DEF CallEvent, CallStates, CallEvents
  <2>2. UNCHANGED <<notes, hushed, untold, toldPhone>> /\ call' \in [Mobiles -> CallStates]
    BY <1>0, <1>4 DEF CallEvent
  <2>3. Happens(p) /\ toldPC' \in [Mobiles -> Seq(Packets)] /\ cut' \in BOOLEAN
    BY <1>1, <2>1, TellTyped
  <2> QED
    BY <1>0, <2>2, <2>3, EventTyped
<1>5. ASSUME NEW n \in Notes, Post(p, n) \/ RemoveNote(p, n) PROVE ETyped'
  <2>1. PICK e \in {"posted", "removed"} : TellPC(p, e, n) \/ (Happens(p) /\ UNCHANGED <<toldPC, cut>>)
    BY <1>5 DEF Post, RemoveNote
  <2>2. UNCHANGED <<call, hushed, toldPhone>>
    BY <1>5 DEF Post, RemoveNote
  <2>3. \E N \in SUBSET Notes, U \in SUBSET Notes :
          notes' = [notes EXCEPT ![p] = N] /\ untold' = [untold EXCEPT ![p] = U]
    BY <1>0, <1>5 DEF Post, RemoveNote
  <2>4. notes' \in [Mobiles -> SUBSET Notes] /\ untold' \in [Mobiles -> SUBSET Notes]
    BY <1>0, <2>3
  <2>5. Happens(p) /\ toldPC' \in [Mobiles -> Seq(Packets)] /\ cut' \in BOOLEAN
    BY <1>2, <2>1, TellTyped
  <2> QED
    BY <1>0, <2>2, <2>4, <2>5, EventTyped
<1> QED
  BY <1>3, <1>4, <1>5

LEMMA DismissedTyped ==
  ASSUME ETyped, NEW p \in Mobiles, DismissOnPhone(p)
  PROVE  ETyped' /\ Head(toldPhone[p]) \in Notes /\ EventPacket("removed", Head(toldPhone[p])) \in Packets
<1> DEFINE n == Head(toldPhone[p])
<1>1. toldPhone[p] \in Seq(Notes) /\ toldPhone[p] # <<>>
  BY DEF DismissOnPhone, ETyped, PhonesOK
<1>2. n \in Notes /\ Tail(toldPhone[p]) \in Seq(Notes)
  BY <1>1, HeadTailProperties
<1>3. EventPacket("removed", n) \in Packets
  BY <1>2 DEF Packets, EventPacket
<1>4. Append(toldPC[p], EventPacket("removed", n)) \in Seq(Packets)
  BY <1>3, AppendProperties DEF ETyped, PhonesOK
<1>5. /\ toldPhone' = [toldPhone EXCEPT ![p] = Tail(@)]
      /\ notes' = [notes EXCEPT ![p] = @ \ {n}]
      /\ toldPC' \in {toldPC, [toldPC EXCEPT ![p] = Append(@, EventPacket("removed", n))]}
      /\ \E U \in {untold[p], untold[p] \ {n}, untold[p] \union {n}} : untold' = [untold EXCEPT ![p] = U]
      /\ UNCHANGED <<call, hushed, events, linkedTo, moves, cut, active, recent, handler, ids, resumable,
                     playing, byUs, screen, pending, signalled, closings>>
  BY DEF DismissOnPhone, linkVars, playerVars, desktopVars
<1> HIDE DEF n
<1>6. toldPC' \in [Mobiles -> Seq(Packets)]
  BY <1>4, <1>5 DEF ETyped, PhonesOK
<1>7. toldPhone' \in [Mobiles -> Seq(Notes)] /\ notes' \in [Mobiles -> SUBSET Notes]
  BY <1>2, <1>5 DEF ETyped, PhonesOK
<1>9. untold' \in [Mobiles -> SUBSET Notes]
  BY <1>2, <1>5 DEF ETyped, PhonesOK
<1>8. PhonesOK'
  BY <1>5, <1>6, <1>7, <1>9 DEF ETyped, PhonesOK
<1> QED
  BY <1>2, <1>3, <1>5, <1>8 DEF ETyped, HeldOK, ReadersOK, ScreenOK, n

LEMMA LinkTyped ==
  ASSUME ETyped, NEW p \in Mobiles, LinkGoes(p) \/ LinkComes(p)
  PROVE  ETyped'
<1>1. <<>> \in Seq(Packets) /\ <<>> \in Seq(Notes)
  BY EmptySeq
<1>2. toldPC' \in [Mobiles -> Seq(Packets)] /\ toldPhone' \in [Mobiles -> Seq(Notes)]
  BY <1>1 DEF LinkGoes, LinkComes, onPhone, ETyped, PhonesOK
<1>3. linkedTo' \subseteq Mobiles /\ moves' \in 0 .. MaxMoves
  BY EventsAssumption DEF LinkGoes, LinkComes, ETyped, PhonesOK
<1>4. cut' \in BOOLEAN
  BY DEF LinkGoes, LinkComes, ETyped, PhonesOK
<1>5. UNCHANGED <<call, notes, hushed, untold, events, active, recent, handler, ids, resumable,
                  playing, byUs, screen, pending, signalled, closings>>
  BY DEF LinkGoes, LinkComes, onPhone, playerVars, desktopVars
<1>6. PhonesOK'
  BY <1>2, <1>3, <1>4, <1>5 DEF ETyped, PhonesOK
<1> QED
  BY <1>5, <1>6 DEF ETyped, HeldOK, ReadersOK, ScreenOK

(* What is on the screen and in the callbacks only gets less, or one more. *)
LEMMA CloseTyped == ASSUME ScreenOK, NEW id, Close(id) PROVE ScreenOK'
  BY DEF ScreenOK, Close

LEMMA KeyTyped ==
  ASSUME ReadersOK, NEW p \in Mobiles
  PROVE  Key(p) \in NoteKeys /\ <<p, 0>> \in NoteKeys /\ \A n \in Notes : <<p, n>> \in NoteKeys
  BY DEF ReadersOK, ReaderFits, Reading, Key, NoteKeys

LEMMA PhonesStay ==
  ASSUME PhonesOK, UNCHANGED <<call, notes, hushed, untold, toldPC, toldPhone, linkedTo, events, moves, cut>>
  PROVE  PhonesOK'
  BY DEF PhonesOK

LEMMA ShowTyped ==
  ASSUME ETyped, NEW p \in Mobiles, Notify(p) \/ NotifyFails(p) \/ Register(p) \/ StoreId(p)
  PROVE  ETyped'
<1>0. ReaderFits(handler[p]) /\ Key(p) \in NoteKeys
  BY KeyTyped DEF ETyped, ReadersOK
<1>1. PhonesOK'
  BY PhonesStay DEF Notify, NotifyFails, Register, StoreId, onPhone, linkVars, ETyped
<1>2. HeldOK'
  BY DEF Notify, NotifyFails, Register, StoreId, playerVars, ETyped, HeldOK
<1>3. CASE Notify(p)
  <2>1. PICK id : /\ screen' = screen \union {<<id, Key(p)>>}
                  /\ Becomes(p, [handler[p] EXCEPT !.step = "register", !.id = id])
                  /\ UNCHANGED <<pending, signalled, closings>> /\ handler[p].step = "notify"
    BY <1>3 DEF Notify, At
  <2>2. ScreenOK'
    BY <1>0, <2>1 DEF ETyped, ScreenOK
  <2>3. ReaderFits([handler[p] EXCEPT !.step = "register", !.id = id])
    BY <1>0, <2>1, ReaderSteps
  <2> QED
    BY <1>1, <1>2, <2>1, <2>2, <2>3, ReaderMoves DEF ETyped
<1>4. CASE NotifyFails(p)
  <2>1. ScreenOK'
    BY <1>4 DEF NotifyFails, ETyped, ScreenOK
  <2>2. ReaderFits(Idle) /\ Becomes(p, Idle)
    BY <1>0, <1>4, ReaderSteps DEF NotifyFails
  <2> QED
    BY <1>1, <1>2, <2>1, <2>2, ReaderMoves DEF ETyped
<1>5. CASE Register(p)
  <2>1. ScreenOK'
    BY <1>0, <1>5 DEF Register, ETyped, ScreenOK
  <2>2. Becomes(p, [handler[p] EXCEPT !.step = "store"]) /\ handler[p].step = "register"
    BY <1>5 DEF Register, At
  <2>3. ReaderFits([handler[p] EXCEPT !.step = "store"])
    BY <1>0, <2>2, ReaderSteps
  <2> QED
    BY <1>1, <1>2, <2>1, <2>2, <2>3, ReaderMoves DEF ETyped
<1>6. CASE StoreId(p)
  <2>1. ScreenOK'
    BY <1>6 DEF StoreId, desktopVars, ETyped, ScreenOK
  <2>2. ReaderFits(Idle) /\ Becomes(p, Idle)
    BY <1>0, <1>6, ReaderSteps DEF StoreId
  <2> QED
    BY <1>1, <1>2, <2>1, <2>2, ReaderMoves DEF ETyped
<1> QED
  BY <1>3, <1>4, <1>5, <1>6

(* What the reader of a call does. *)
LEMMA CallTyped ==
  ASSUME ETyped, NEW p \in Mobiles, PausePlaying(p) \/ HoldPlayers(p) \/ Talking(p) \/ CallOver(p)
  PROVE  ETyped'
<1>0. ReaderFits(handler[p]) /\ ReaderFits(Idle) /\ handler[p].held \subseteq Players
  <2>1. ReaderFits(handler[p])
    BY DEF ETyped, ReadersOK
  <2> QED
    BY <2>1, ReaderSteps DEF ReaderFits, Reading
<1>1. PhonesOK'
  BY PhonesStay DEF PausePlaying, HoldPlayers, Talking, CallOver, onPhone, linkVars, ETyped
<1>2. HeldOK'
  <2>1. CASE PausePlaying(p)
    BY <2>1 DEF PausePlaying, playerVars, ETyped, HeldOK
  <2>2. CASE HoldPlayers(p)
    <3>1. HeldPlayers(p) \in SUBSET Players
      BY <1>0 DEF HeldPlayers, ETyped, HeldOK
    <3> QED BY <2>2, <3>1 DEF HoldPlayers, playerVars, ETyped, HeldOK
  <2>3. CASE Talking(p)
    BY <2>3 DEF Talking, playerVars, ETyped, HeldOK
  <2>4. CASE CallOver(p)
    BY <2>4 DEF CallOver, ETyped, HeldOK
  <2> QED BY <2>1, <2>2, <2>3, <2>4
<1>3. ScreenOK'
  BY CloseTyped DEF PausePlaying, HoldPlayers, Talking, CallOver, desktopVars, ETyped, ScreenOK
<1>4. \E r : ReaderFits(r) /\ Becomes(p, r)
  <2>1. CASE PausePlaying(p)
    BY <1>0, <2>1, ReaderSteps DEF PausePlaying, At, ETyped, HeldOK
  <2>2. CASE HoldPlayers(p)
    BY <1>0, <2>2, ReaderSteps DEF HoldPlayers, At
  <2>3. CASE Talking(p)
    BY <1>0, <2>3, ReaderSteps DEF Talking, At
  <2>4. CASE CallOver(p)
    BY <1>0, <2>4 DEF CallOver
  <2> QED BY <2>1, <2>2, <2>3, <2>4
<1>5. ReadersOK'
  BY <1>4, ReaderMoves DEF ETyped
<1> QED
  BY <1>1, <1>2, <1>3, <1>5 DEF ETyped

LEMMA ReadTyped ==
  ASSUME ETyped, NEW p \in Mobiles, ReadCall(p) \/ ReadPosted(p) \/ ReadRemoved(p)
  PROVE  ETyped'
<1> DEFINE k == Event(p)
<1>0. /\ toldPC[p] # <<>> /\ toldPC' = [toldPC EXCEPT ![p] = Tail(@)]
      /\ UNCHANGED <<call, notes, hushed, untold, toldPhone, linkedTo, events, moves, cut>>
  BY DEF ReadCall, ReadPosted, ReadRemoved, onPhone, linkVars
<1>1. Tail(toldPC[p]) \in Seq(Packets)
  BY <1>0, FirstPacket
<1>2. PhonesOK'
  BY <1>0, <1>1 DEF ETyped, PhonesOK
<1>3. ReaderFits(handler[p])
  BY DEF ETyped, ReadersOK
<1>4. CASE ReadCall(p)
  <2>1. k.event \in CallEvents
    BY <1>4 DEF ReadCall
  <2>2. HeldOK'
    BY <1>4, <2>1 DEF ReadCall, playerVars, CallEvents, CallStates, ETyped, HeldOK
  <2>3. ScreenOK'
    BY <1>4 DEF ReadCall, desktopVars, ETyped, ScreenOK
  <2>4. Becomes(p, [Idle EXCEPT !.step = IF k.event = "ringing" THEN "pause" ELSE "close",
                                !.event = k.event, !.id = ids[<<p, 0>>]])
    BY <1>4 DEF ReadCall
  <2>5. ReaderFits([Idle EXCEPT !.step = IF k.event = "ringing" THEN "pause" ELSE "close",
                                !.event = k.event, !.id = ids[<<p, 0>>]])
    BY <1>3, <2>1, ReaderSteps
  <2>6. ReadersOK'
    BY <2>4, <2>5, ReaderMoves DEF ETyped
  <2> QED
    BY <1>2, <2>2, <2>3, <2>6 DEF ETyped
<1>5. CASE ReadPosted(p)
  <2>1. k.note \in Notes
    BY <1>0, <1>5, FirstPacket DEF ReadPosted
  <2>2. HeldOK'
    BY <1>5, <2>1 DEF ReadPosted, playerVars, ETyped, HeldOK
  <2>3. ScreenOK'
    BY <1>5 DEF ReadPosted, desktopVars, ETyped, ScreenOK
  <2>4. ReaderFits([Idle EXCEPT !.step = "notify", !.note = k.note])
    BY <1>3, <2>1, ReaderSteps
  <2>5. handler' = handler \/ Becomes(p, [Idle EXCEPT !.step = "notify", !.note = k.note])
    BY <1>5 DEF ReadPosted, Becomes
  <2>6. ReadersOK'
    BY <2>4, <2>5, ReaderMoves, ReadersStay DEF ETyped
  <2> QED
    BY <1>2, <2>2, <2>3, <2>6 DEF ETyped
<1>6. CASE ReadRemoved(p)
  <2>1. HeldOK'
    BY <1>6 DEF ReadRemoved, Unlist, playerVars, ETyped, HeldOK
  <2>2. ScreenOK'
    BY <1>6, CloseTyped DEF ReadRemoved, Unlist, ETyped
  <2>3. ReadersOK'
    BY <1>6, ReadersStay DEF ReadRemoved, ETyped
  <2> QED
    BY <1>2, <2>1, <2>2, <2>3 DEF ETyped
<1> QED
  BY <1>4, <1>5, <1>6

LEMMA SendTyped ==
  ASSUME PhonesOK, NEW p \in Mobiles, NEW n \in Notes, SendDismiss(p, n),
         UNCHANGED <<call, notes, hushed, untold, toldPC, linkedTo, events, moves, cut>>
  PROVE  PhonesOK'
<1>1. Append(toldPhone[p], n) \in Seq(Notes)
  BY AppendProperties DEF PhonesOK
<1>2. toldPhone' \in [Mobiles -> Seq(Notes)]
  BY <1>1 DEF PhonesOK, SendDismiss
<1> QED
  BY <1>2 DEF PhonesOK

LEMMA UserTyped ==
  ASSUME ETyped,
         \/ \E p \in Mobiles, n \in Notes : Dismiss(p, n)
         \/ \E p \in Mobiles, n \in {0} \union Notes : Hush(p, n)
         \/ UserCloses \/ SignalComes \/ OnClosed \/ \E m \in Players : UserPlays(m)
  PROVE  ETyped'
<1>1. ASSUME NEW p \in Mobiles, NEW n \in Notes, Dismiss(p, n) PROVE ETyped'
  <2>1. PhonesOK'
    BY <1>1, SendTyped DEF Dismiss, linkVars, ETyped
  <2>2. HeldOK'
    BY <1>1 DEF Dismiss, Unlist, playerVars, ETyped, HeldOK
  <2>3. ScreenOK' /\ ReadersOK'
    BY <1>1, CloseTyped, ReadersStay DEF Dismiss, Unlist, ETyped
  <2> QED
    BY <2>1, <2>2, <2>3 DEF ETyped
<1>2. CASE UserCloses \/ SignalComes
  <2>1. PhonesOK'
    BY <1>2, PhonesStay DEF UserCloses, SignalComes, onPhone, linkVars, ETyped
  <2>2. HeldOK' /\ ReadersOK'
    BY <1>2, ReadersStay DEF UserCloses, SignalComes, playerVars, ETyped, HeldOK
  <2>3. ScreenOK'
    <3>1. CASE UserCloses
      BY <3>1 DEF UserCloses, ETyped, ScreenOK
    <3>2. CASE SignalComes
      BY <3>2 DEF SignalComes, ETyped, ScreenOK
    <3> QED BY <1>2, <3>1, <3>2
  <2> QED
    BY <2>1, <2>2, <2>3 DEF ETyped
<1>3. CASE OnClosed
  <2>1. PICK c \in closings :
          /\ closings' = closings \ {c} /\ ids' = [ids EXCEPT ![c[1]] = 0]
          /\ SendDismiss(c[1][1], c[1][2]) \/ UNCHANGED toldPhone
          /\ UNCHANGED <<call, notes, hushed, untold, events, toldPC, linkVars, active, recent, handler, resumable,
                         playerVars, screen, pending, signalled>>
    BY <1>3 DEF OnClosed
  <2>2. c[1][1] \in Mobiles /\ c[1][2] \in Notes
    BY DEF ETyped, ScreenOK, NoteKeys
  <2>3. PhonesOK'
    BY <2>1, <2>2, SendTyped, PhonesStay DEF linkVars, ETyped
  <2>4. HeldOK' /\ ReadersOK' /\ ScreenOK'
    BY <2>1, ReadersStay DEF playerVars, ETyped, HeldOK, ScreenOK
  <2> QED
    BY <2>3, <2>4 DEF ETyped
<1>4. ASSUME NEW m \in Players, UserPlays(m) PROVE ETyped'
  <2>1. PhonesOK'
    BY <1>4, EventsAssumption DEF UserPlays, onPhone, ETyped, PhonesOK
  <2>2. HeldOK'
    BY <1>4 DEF UserPlays, ETyped, HeldOK
  <2>3. ReadersOK' /\ ScreenOK'
    BY <1>4, ReadersStay DEF UserPlays, desktopVars, ETyped, ScreenOK
  <2> QED
    BY <2>1, <2>2, <2>3 DEF ETyped
<1>5. ASSUME NEW p \in Mobiles, NEW n \in {0} \union Notes, Hush(p, n) PROVE ETyped'
  <2>1. /\ moves' \in 0 .. MaxMoves
        /\ UNCHANGED <<call, notes, untold, toldPC, toldPhone, linkedTo, events, cut>>
    BY <1>5, EventsAssumption DEF Hush, ETyped, PhonesOK
  <2>2. hushed' \in [Mobiles -> SUBSET ({0} \union Notes)]
    <3>1. hushed \in [Mobiles -> SUBSET ({0} \union Notes)]
      BY DEF ETyped, PhonesOK
    <3>2. \/ hushed' = [hushed EXCEPT ![p] = hushed[p] \union {n}]
          \/ hushed' = [hushed EXCEPT ![p] = hushed[p] \ {n}]
      BY <1>5 DEF Hush
    <3>3. \A H \in SUBSET ({0} \union Notes) :
            [hushed EXCEPT ![p] = H] \in [Mobiles -> SUBSET ({0} \union Notes)]
      BY <3>1
    <3>4. hushed[p] \union {n} \in SUBSET ({0} \union Notes) /\ hushed[p] \ {n} \in SUBSET ({0} \union Notes)
      BY <3>1, <1>5
    <3> QED
      BY <3>2, <3>3, <3>4
  <2>3. PhonesOK'
    BY <2>1, <2>2 DEF ETyped, PhonesOK
  <2>4. HeldOK' /\ ReadersOK' /\ ScreenOK'
    BY <1>5, ReadersStay DEF Hush, playerVars, desktopVars, ETyped, HeldOK, ScreenOK
  <2> QED
    BY <2>3, <2>4 DEF ETyped
<1> QED
  BY <1>1, <1>2, <1>3, <1>4, <1>5

LEMMA TypesKeep == ETyped /\ [EventsNext]_eVars => ETyped'
<1> SUFFICES ASSUME ETyped, [EventsNext]_eVars PROVE ETyped'
  OBVIOUS
<1>1. CASE UNCHANGED eVars
  BY <1>1 DEF eVars, ETyped, PhonesOK, HeldOK, ReadersOK, ScreenOK
<1>2. CASE EventsNext
  BY <1>2, PhoneTyped, DismissedTyped, LinkTyped, ShowTyped, CallTyped, ReadTyped, UserTyped DEF EventsNext
<1> QED
  BY <1>1, <1>2

-----------------------------------------------------------------------------
(* What the packets under way say last, of a call or of a notification. *)

LastIn(q, K, i) == i \in 1 .. Len(q) /\ q[i] \in K /\ \A j \in 1 .. Len(q) : j > i => q[j] \notin K
NoneIn(q, K)    == \A i \in 1 .. Len(q) : q[i] \notin K
SaysLast(q, K, E) == \A i : LastIn(q, K, i) => q[i].event \in E

LEMMA OneMore ==
  ASSUME NEW q \in Seq(Packets), NEW x \in Packets, NEW K, NEW E
  PROVE  /\ Append(q, x) \in Seq(Packets)
         /\ x \in K => ~NoneIn(Append(q, x), K) /\ (x.event \in E => SaysLast(Append(q, x), K, E))
         /\ x \notin K /\ NoneIn(Append(q, x), K) => NoneIn(q, K)
         /\ x \notin K /\ SaysLast(q, K, E) => SaysLast(Append(q, x), K, E)
<1> DEFINE r == Append(q, x)
<1>1. /\ Len(q) \in Nat /\ r \in Seq(Packets) /\ Len(r) = Len(q) + 1 /\ r[Len(q) + 1] = x
      /\ \A i \in 1 .. Len(q) : r[i] = q[i]
  BY AppendProperties, LenProperties
<1> HIDE DEF r
<1>2. ASSUME x \in K
      PROVE  ~NoneIn(r, K) /\ (x.event \in E => SaysLast(r, K, E))
  <2>1. ~NoneIn(r, K)
    BY <1>1, <1>2 DEF NoneIn
  <2>2. ASSUME NEW i, LastIn(r, K, i) PROVE i = Len(q) + 1
    BY <1>1, <1>2, <2>2 DEF LastIn
  <2> QED
    BY <1>1, <2>1, <2>2 DEF SaysLast
<1>3. ASSUME x \notin K, NoneIn(r, K)
      PROVE  NoneIn(q, K)
  BY <1>1, <1>3 DEF NoneIn
<1>4. ASSUME x \notin K, SaysLast(q, K, E)
      PROVE  SaysLast(r, K, E)
  <2>1. ASSUME NEW i, LastIn(r, K, i) PROVE r[i].event \in E
    <3>1. i \in 1 .. Len(q)
      BY <1>1, <1>4, <2>1 DEF LastIn
    <3>2. LastIn(q, K, i)
      BY <1>1, <2>1, <3>1 DEF LastIn
    <3> QED
      BY <1>1, <1>4, <3>1, <3>2 DEF SaysLast
  <2> QED
    BY <2>1 DEF SaysLast
<1> QED
  BY <1>1, <1>2, <1>3, <1>4 DEF r

LEMMA OneLess ==
  ASSUME NEW q \in Seq(Packets), q # <<>>, NEW K, NEW E
  PROVE  /\ SaysLast(q, K, E) => SaysLast(Tail(q), K, E)
         /\ NoneIn(Tail(q), K) /\ Head(q) \notin K => NoneIn(q, K)
         /\ NoneIn(Tail(q), K) /\ Head(q) \in K /\ SaysLast(q, K, E) => Head(q).event \in E
<1> DEFINE r == Tail(q)
<1>1. /\ Len(q) \in Nat \ {0} /\ r \in Seq(Packets) /\ Len(r) = Len(q) - 1 /\ Head(q) = q[1]
      /\ \A i \in 1 .. Len(r) : r[i] = q[i + 1]
  BY HeadTailProperties, EmptySeq, LenProperties
<1> HIDE DEF r
<1>2. \A j \in 1 .. Len(q) : j # 1 => j - 1 \in 1 .. Len(r) /\ r[j - 1] = q[j]
  BY <1>1
<1>3. ASSUME SaysLast(q, K, E), NEW i, LastIn(r, K, i) PROVE r[i].event \in E
  <2>1. i \in 1 .. Len(r) /\ i + 1 \in 1 .. Len(q) /\ r[i] = q[i + 1]
    BY <1>1, <1>3 DEF LastIn
  <2>2. ASSUME NEW j \in 1 .. Len(q), j > i + 1 PROVE q[j] \notin K
    <3>1. j - 1 \in 1 .. Len(r) /\ j - 1 > i /\ r[j - 1] = q[j]
      BY <1>1, <1>2, <2>1, <2>2
    <3> QED BY <1>3, <3>1 DEF LastIn
  <2>3. LastIn(q, K, i + 1)
    BY <1>3, <2>1, <2>2 DEF LastIn
  <2> QED
    BY <1>3, <2>1, <2>3 DEF SaysLast
<1>4. ASSUME NoneIn(r, K), Head(q) \notin K PROVE NoneIn(q, K)
  <2>1. \A j \in 1 .. Len(q) : j # 1 => q[j] \notin K
    BY <1>1, <1>2, <1>4 DEF NoneIn
  <2> QED BY <1>1, <1>4, <2>1 DEF NoneIn
<1>5. ASSUME NoneIn(r, K), Head(q) \in K, SaysLast(q, K, E) PROVE Head(q).event \in E
  <2>1. \A j \in 1 .. Len(q) : j # 1 => q[j] \notin K
    BY <1>1, <1>2, <1>5 DEF NoneIn
  <2>2. LastIn(q, K, 1)
    BY <1>1, <1>5, <2>1 DEF LastIn
  <2> QED BY <1>1, <1>5, <2>2 DEF SaysLast
<1> QED
  BY <1>3, <1>4, <1>5 DEF SaysLast, r

LEMMA NothingSaid ==
  ASSUME NEW K, NEW E
  PROVE  NoneIn(<<>>, K) /\ SaysLast(<<>>, K, E)
  BY DEF NoneIn, SaysLast, LastIn

(* A change of what is last said when nothing is. *)
LEMMA NoneSays ==
  ASSUME NEW q, NEW K, NEW E, NoneIn(q, K)
  PROVE  SaysLast(q, K, E)
  BY DEF NoneIn, SaysLast, LastIn

-----------------------------------------------------------------------------
(* The list of notifications: the last packet about one whose coming or    *)
(* going was told is right, and when none is under way the list is, but    *)
(* for what is being dismissed.                                            *)

NoteSays(n, shown) == IF n \in shown THEN {"posted"} ELSE {"removed"}
Dismissing(p, n)   == \E i \in 1 .. Len(toldPhone[p]) : toldPhone[p][i] = n
ListKnown(p, n) ==
  /\ SaysLast(toldPC[p], About(n), NoteSays(n, notes[p]))
  /\ NoneIn(toldPC[p], About(n)) =>
       \/ n \in recent[p] <=> n \in notes[p]
       \/ n \in notes[p] /\ Dismissing(p, n)
ListInv == ETyped /\ (~cut => \A p \in Mobiles : \A n \in Notes \ untold[p] : ListKnown(p, n))

LEMMA ListStarts == EventsInit => ListInv
<1> SUFFICES ASSUME EventsInit PROVE ListInv
  OBVIOUS
<1>1. \A p \in Mobiles : toldPC[p] = <<>> /\ notes[p] = {} /\ recent[p] = {}
  BY DEF EventsInit
<1>2. ASSUME NEW p \in Mobiles, NEW n \in Notes PROVE ListKnown(p, n)
  BY <1>1, NothingSaid DEF ListKnown
<1> QED
  BY <1>2, StartsTyped DEF ListInv

LEMMA ListStays ==
  ASSUME NEW p \in Mobiles, NEW n \in Notes, ListKnown(p, n),
         toldPC'[p] = toldPC[p], n \in notes'[p] <=> n \in notes[p], n \in recent'[p] <=> n \in recent[p],
         toldPhone'[p] = toldPhone[p]
  PROVE  ListKnown(p, n)'
<1>1. NoteSays(n, notes'[p]) = NoteSays(n, notes[p])
  BY DEF NoteSays
<1> QED
  BY <1>1 DEF ListKnown, Dismissing

LEMMA CallsSayNothing ==
  ASSUME NEW x \in CallPackets, NEW n
  PROVE  x \notin About(n)
  BY DEF CallPackets, About, CallEvents

(* What a phone's event tells and changes. *)
LEMMA EventTells ==
  ASSUME ETyped, NEW p \in Mobiles,
         \/ RetellCall(p) \/ \E s \in CallStates : CallEvent(p, s)
         \/ \E m \in Notes : Post(p, m) \/ RemoveNote(p, m)
  PROVE  \/ \E e \in CallEvents : TellPC(p, e, 0) /\ UNCHANGED <<notes, untold>>
         \/ \E m \in Notes : /\ TellPC(p, "posted", m) /\ notes' = [notes EXCEPT ![p] = @ \union {m}]
                             /\ untold' = [untold EXCEPT ![p] = @ \ {m}]
         \/ \E m \in Notes : /\ TellPC(p, "removed", m) /\ notes' = [notes EXCEPT ![p] = @ \ {m}]
                             /\ untold' = [untold EXCEPT ![p] = @ \ {m}]
         \/ /\ Happens(p) /\ UNCHANGED <<toldPC, cut>>
            /\ \A q \in Mobiles \ {p} : notes'[q] = notes[q] /\ untold'[q] = untold[q]
            /\ \A n \in Notes \ untold'[p] : n \notin untold[p] /\ (n \in notes'[p] <=> n \in notes[p])
<1>0. /\ call \in [Mobiles -> CallStates] /\ notes \in [Mobiles -> SUBSET Notes]
      /\ untold \in [Mobiles -> SUBSET Notes]
  BY DEF ETyped, PhonesOK
<1>1. CASE RetellCall(p)
  BY <1>0, <1>1 DEF RetellCall, CallStates, CallEvents
<1>2. ASSUME NEW s \in CallStates, CallEvent(p, s)
      PROVE  /\ UNCHANGED <<notes, untold>>
             /\ (\E e \in CallEvents : TellPC(p, e, 0)) \/ (Happens(p) /\ UNCHANGED <<toldPC, cut>>)
  BY <1>2 DEF CallEvent, CallStates, CallEvents
<1>3. ASSUME NEW m \in Notes, Post(p, m)
      PROVE  \/ /\ TellPC(p, "posted", m) /\ notes' = [notes EXCEPT ![p] = @ \union {m}]
                /\ untold' = [untold EXCEPT ![p] = @ \ {m}]
             \/ /\ Happens(p) /\ UNCHANGED <<toldPC, cut>>
                /\ \A q \in Mobiles \ {p} : notes'[q] = notes[q] /\ untold'[q] = untold[q]
                /\ \A n \in Notes \ untold'[p] : n \notin untold[p] /\ (n \in notes'[p] <=> n \in notes[p])
  <2>1. CASE hushed[p] \intersect {0, m} = {}
    BY <1>3, <2>1 DEF Post
  <2>2. CASE hushed[p] \intersect {0, m} # {}
    <3>1. /\ notes' = [notes EXCEPT ![p] = @ \union {m}] /\ Happens(p) /\ UNCHANGED <<toldPC, cut>>
          /\ untold' = [untold EXCEPT ![p] = @ \union ({m} \ notes[p])]
      BY <1>3, <2>2 DEF Post
    <3> QED BY <1>0, <3>1
  <2> QED BY <2>1, <2>2
<1>4. ASSUME NEW m \in Notes, RemoveNote(p, m)
      PROVE  \/ /\ TellPC(p, "removed", m) /\ notes' = [notes EXCEPT ![p] = @ \ {m}]
                /\ untold' = [untold EXCEPT ![p] = @ \ {m}]
             \/ /\ Happens(p) /\ UNCHANGED <<toldPC, cut>>
                /\ \A q \in Mobiles \ {p} : notes'[q] = notes[q] /\ untold'[q] = untold[q]
                /\ \A n \in Notes \ untold'[p] : n \notin untold[p] /\ (n \in notes'[p] <=> n \in notes[p])
  <2>1. CASE 0 \notin hushed[p]
    BY <1>4, <2>1 DEF RemoveNote
  <2>2. CASE 0 \in hushed[p]
    <3>1. /\ notes' = [notes EXCEPT ![p] = @ \ {m}] /\ Happens(p) /\ UNCHANGED <<toldPC, cut>>
          /\ untold' = [untold EXCEPT ![p] = @ \union {m}]
      BY <1>4, <2>2 DEF RemoveNote
    <3> QED BY <1>0, <3>1
  <2> QED BY <2>1, <2>2
<1> QED
  BY <1>1, <1>2, <1>3, <1>4

LEMMA ListOnPhone ==
  ASSUME ListInv, ~cut', NEW p \in Mobiles,
         \/ RetellCall(p) \/ \E s \in CallStates : CallEvent(p, s)
         \/ \E m \in Notes : Post(p, m) \/ RemoveNote(p, m),
         NEW q \in Mobiles, NEW n \in Notes \ untold'[q]
  PROVE  ListKnown(q, n)'
<1>0. /\ toldPC \in [Mobiles -> Seq(Packets)] /\ notes \in [Mobiles -> SUBSET Notes]
      /\ untold \in [Mobiles -> SUBSET Notes]
  BY DEF ListInv, ETyped, PhonesOK
<1>1. UNCHANGED <<recent, toldPhone>>
  BY DEF RetellCall, CallEvent, Post, RemoveNote, TellPC, Happens
<1>2. CASE /\ Happens(p) /\ UNCHANGED <<toldPC, cut>>
           /\ \A r \in Mobiles \ {p} : notes'[r] = notes[r] /\ untold'[r] = untold[r]
           /\ \A k \in Notes \ untold'[p] : k \notin untold[p] /\ (k \in notes'[p] <=> k \in notes[p])
  <2>1. n \notin untold[q] /\ (n \in notes'[q] <=> n \in notes[q])
    BY <1>2
  <2>2. ListKnown(q, n)
    BY <1>2, <2>1 DEF ListInv
  <2> QED BY <1>1, <1>2, <2>1, <2>2, ListStays
<1>3. ASSUME NEW e, NEW m, TellPC(p, e, m),
             \/ e \in CallEvents /\ m = 0 /\ UNCHANGED <<notes, untold>>
             \/ /\ m \in Notes /\ untold' = [untold EXCEPT ![p] = @ \ {m}]
                /\ \/ e = "posted" /\ notes' = [notes EXCEPT ![p] = @ \union {m}]
                   \/ e = "removed" /\ notes' = [notes EXCEPT ![p] = @ \ {m}]
      PROVE  ListKnown(q, n)'
  <2> DEFINE x == EventPacket(e, m)
  <2>1. ~cut /\ p \in linkedTo /\ toldPC' = [toldPC EXCEPT ![p] = Append(@, x)]
    BY <1>3 DEF TellPC
  <2>2. /\ x \in Packets /\ toldPC[p] \in Seq(Packets) /\ toldPC'[p] = Append(toldPC[p], x)
        /\ x.event = e /\ x.note = m
    BY <1>0, <1>3, <2>1 DEF Packets, CallPackets, EventPacket
  <2>3. CASE q # p
    <3>1. toldPC'[q] = toldPC[q] /\ notes'[q] = notes[q] /\ untold'[q] = untold[q]
      BY <1>0, <1>3, <2>1, <2>3
    <3>2. ListKnown(q, n)
      BY <2>1, <3>1 DEF ListInv
    <3> QED BY <1>1, <3>1, <3>2, ListStays
  <2>4. CASE q = p /\ x \in About(n)
    <3>1. m = n /\ e \in {"posted", "removed"}
      BY <2>2, <2>4 DEF About
    <3>2. x.event \in NoteSays(n, notes'[p])
      <4>1. CASE e = "posted"
        BY <1>0, <1>3, <2>2, <3>1, <4>1 DEF NoteSays, CallEvents
      <4>2. CASE e = "removed"
        BY <1>0, <1>3, <2>2, <3>1, <4>2 DEF NoteSays, CallEvents
      <4> QED BY <3>1, <4>1, <4>2
    <3>3. ~NoneIn(toldPC'[p], About(n)) /\ SaysLast(toldPC'[p], About(n), NoteSays(n, notes'[p]))
      <4>1. x \in Packets /\ x \in About(n)
        BY <2>2, <2>4
      <4> HIDE DEF x
      <4> QED BY <2>2, <3>2, <4>1, OneMore
    <3> QED BY <2>4, <3>3 DEF ListKnown
  <2>5. CASE q = p /\ x \notin About(n)
    <3>1. n # m
      <4>1. m = n => e \in {"posted", "removed"}
        BY <1>3, EventsAssumption
      <4> QED BY <2>5, <4>1 DEF About, EventPacket
    <3>2. n \notin untold[p] /\ (n \in notes'[p] <=> n \in notes[p])
      BY <1>0, <1>3, <2>5, <3>1
    <3>3. ListKnown(p, n)
      BY <2>1, <3>2 DEF ListInv
    <3>4. NoteSays(n, notes'[p]) = NoteSays(n, notes[p])
      BY <3>2 DEF NoteSays
    <3>5. SaysLast(toldPC[p], About(n), NoteSays(n, notes[p]))
      BY <3>3 DEF ListKnown
    <3>6. /\ NoneIn(toldPC'[p], About(n)) => NoneIn(toldPC[p], About(n))
          /\ SaysLast(toldPC'[p], About(n), NoteSays(n, notes[p]))
      <4>1. x \in Packets /\ x \notin About(n)
        BY <2>2, <2>5
      <4> HIDE DEF x
      <4> QED BY <2>2, <3>5, <4>1, OneMore
    <3> QED BY <1>1, <2>5, <3>2, <3>3, <3>4, <3>6 DEF ListKnown, Dismissing
  <2> QED BY <2>3, <2>4, <2>5
<1> QED
  BY <1>2, <1>3, EventTells DEF ListInv

LEMMA ListDismissed ==
  ASSUME ListInv, ~cut', NEW p \in Mobiles, DismissOnPhone(p), NEW q \in Mobiles, NEW n \in Notes \ untold'[q]
  PROVE  ListKnown(q, n)'
<1> DEFINE m == Head(toldPhone[p])  x == EventPacket("removed", m)
<1>1. m \in Notes /\ x \in Packets
  BY DismissedTyped DEF ListInv
<1>2. /\ toldPhone[p] # <<>> /\ toldPhone' = [toldPhone EXCEPT ![p] = Tail(@)]
      /\ notes' = [notes EXCEPT ![p] = @ \ {m}]
      /\ m \in notes[p] /\ 0 \notin hushed[p] =>
           toldPC' = [toldPC EXCEPT ![p] = Append(@, x)] /\ untold' = [untold EXCEPT ![p] = @ \ {m}]
      /\ m \in notes[p] /\ 0 \in hushed[p] =>
           toldPC' = toldPC /\ untold' = [untold EXCEPT ![p] = @ \union {m}]
      /\ m \notin notes[p] => toldPC' = toldPC /\ untold' = [untold EXCEPT ![p] = @]
      /\ recent' = recent /\ ~cut
  BY DEF DismissOnPhone, linkVars
<1> HIDE DEF m
<1>3. /\ toldPC \in [Mobiles -> Seq(Packets)] /\ notes \in [Mobiles -> SUBSET Notes]
      /\ toldPhone \in [Mobiles -> Seq(Notes)] /\ untold \in [Mobiles -> SUBSET Notes]
  BY DEF ListInv, ETyped, PhonesOK
<1>8. ASSUME q # p \/ m # n \/ m \notin notes[p] PROVE ListKnown(q, n)
  <2>1. n \notin untold[q]
    BY <1>2, <1>3, <1>8
  <2> QED BY <1>2, <2>1 DEF ListInv
<1>4. CASE q # p
  <2>1. toldPC'[q] = toldPC[q] /\ notes'[q] = notes[q] /\ toldPhone'[q] = toldPhone[q]
    BY <1>2, <1>3, <1>4
  <2> QED BY <1>2, <1>4, <1>8, <2>1, ListStays
<1>5. CASE q = p /\ m = n /\ m \in notes[p]
  <2>0. 0 \notin hushed[p]
    BY <1>2, <1>3, <1>5
  <2>1. toldPC'[p] = Append(toldPC[p], x) /\ toldPC[p] \in Seq(Packets)
    BY <1>2, <1>3, <1>5, <2>0
  <2>2. x \in About(n) /\ x.event \in NoteSays(n, notes'[p])
    BY <1>2, <1>3, <1>5 DEF About, EventPacket, NoteSays
  <2>3. ~NoneIn(toldPC'[p], About(n)) /\ SaysLast(toldPC'[p], About(n), NoteSays(n, notes'[p]))
    BY <1>1, <2>1, <2>2, OneMore
  <2> QED BY <1>5, <2>3 DEF ListKnown
<1>6. CASE q = p /\ m = n /\ m \notin notes[p]
  <2>1. toldPC'[p] = toldPC[p] /\ notes'[p] = notes[p] /\ n \notin notes[p]
    BY <1>2, <1>3, <1>6
  <2> QED BY <1>2, <1>3, <1>6, <1>8, <2>1 DEF ListKnown
<1>7. CASE q = p /\ m # n
  <2>1. n \in notes'[p] <=> n \in notes[p]
    BY <1>2, <1>3, <1>7
  <2>2. NoteSays(n, notes'[p]) = NoteSays(n, notes[p])
    BY <2>1 DEF NoteSays
  <2>3. /\ NoneIn(toldPC'[p], About(n)) => NoneIn(toldPC[p], About(n))
        /\ SaysLast(toldPC'[p], About(n), NoteSays(n, notes'[p]))
    <3>1. x \notin About(n)
      BY <1>7 DEF About, EventPacket
    <3>2. CASE m \in notes[p] /\ 0 \notin hushed[p]
      <4>1. toldPC'[p] = Append(toldPC[p], x) /\ toldPC[p] \in Seq(Packets)
        BY <1>2, <1>3, <3>2
      <4>2. SaysLast(toldPC[p], About(n), NoteSays(n, notes[p]))
        BY <1>7, <1>8 DEF ListKnown
      <4>3. /\ NoneIn(toldPC'[p], About(n)) => NoneIn(toldPC[p], About(n))
            /\ SaysLast(toldPC'[p], About(n), NoteSays(n, notes[p]))
        <5> HIDE DEF x
        <5> QED BY <1>1, <3>1, <4>1, <4>2, OneMore
      <4> QED BY <2>2, <4>3
    <3>3. CASE ~(m \in notes[p] /\ 0 \notin hushed[p])
      BY <1>2, <1>3, <1>7, <1>8, <2>2, <3>3 DEF ListKnown
    <3> QED BY <3>2, <3>3
  <2>4. Dismissing(p, n) => Dismissing(p, n)'
    <3>1. toldPhone'[p] = Tail(toldPhone[p]) /\ toldPhone[p] \in Seq(Notes) /\ toldPhone[p] # <<>>
      BY <1>2, <1>3
    <3>2. /\ Len(toldPhone[p]) \in Nat /\ Len(Tail(toldPhone[p])) = Len(toldPhone[p]) - 1
          /\ toldPhone[p][1] = m
          /\ \A i \in 1 .. Len(Tail(toldPhone[p])) : Tail(toldPhone[p])[i] = toldPhone[p][i + 1]
      BY <3>1, HeadTailProperties, LenProperties DEF m
    <3>3. ASSUME NEW i \in 1 .. Len(toldPhone[p]), toldPhone[p][i] = n
          PROVE  i - 1 \in 1 .. Len(toldPhone'[p]) /\ toldPhone'[p][i - 1] = n
      <4>1. i # 1
        BY <1>7, <3>2, <3>3
      <4> QED BY <3>1, <3>2, <3>3, <4>1
    <3> QED BY <3>3 DEF Dismissing
  <2> QED BY <1>2, <1>3, <1>7, <1>8, <2>1, <2>3, <2>4 DEF ListKnown
<1> QED
  BY <1>4, <1>5, <1>6, <1>7

LEMMA ListRead ==
  ASSUME ListInv, ~cut', NEW p \in Mobiles, ReadCall(p) \/ ReadPosted(p) \/ ReadRemoved(p),
         NEW q \in Mobiles, NEW n \in Notes \ untold'[q]
  PROVE  ListKnown(q, n)'
<1> DEFINE k == Event(p)
<1>1. /\ toldPC[p] # <<>> /\ toldPC' = [toldPC EXCEPT ![p] = Tail(@)]
      /\ UNCHANGED <<notes, untold, toldPhone>> /\ ~cut
  BY DEF ReadCall, ReadPosted, ReadRemoved, onPhone, linkVars
<1>2. /\ k = Head(toldPC[p])
      /\ k.event \in CallEvents => k \in CallPackets
      /\ k.event \in {"posted", "removed"} => k.note \in Notes /\ k \in About(k.note)
  BY <1>1, FirstPacket DEF ListInv
<1>3. /\ toldPC \in [Mobiles -> Seq(Packets)] /\ recent \in [Mobiles -> SUBSET Notes]
      /\ ListKnown(q, n)
  BY <1>1 DEF ListInv, ETyped, PhonesOK, HeldOK
<1>4. \/ k.event \in CallEvents /\ recent' = recent
      \/ k.event = "posted" /\ recent' = [recent EXCEPT ![p] = @ \union {k.note}]
      \/ k.event = "removed" /\ recent' = [recent EXCEPT ![p] = @ \ {k.note}]
  BY DEF ReadCall, ReadPosted, ReadRemoved, Unlist
<1> HIDE DEF k
<1>5. CASE q # p
  <2>1. toldPC'[q] = toldPC[q] /\ recent'[q] = recent[q]
    BY <1>1, <1>3, <1>4, <1>5
  <2> QED BY <1>1, <1>3, <2>1, ListStays
<1>6. /\ toldPC'[p] = Tail(toldPC[p]) /\ toldPC[p] \in Seq(Packets)
      /\ q = p => SaysLast(toldPC[p], About(n), NoteSays(n, notes[p]))
  BY <1>1, <1>3 DEF ListKnown
<1>7. ASSUME q = p
      PROVE
      /\ SaysLast(toldPC'[p], About(n), NoteSays(n, notes[p]))
      /\ NoneIn(toldPC'[p], About(n)) /\ k \notin About(n) => NoneIn(toldPC[p], About(n))
      /\ NoneIn(toldPC'[p], About(n)) /\ k \in About(n) => k.event \in NoteSays(n, notes[p])
  BY <1>1, <1>2, <1>6, <1>7, OneLess
<1>8. CASE q = p /\ k \in About(n)
  <2>1. k.note = n /\ k.event \in {"posted", "removed"}
    BY <1>8 DEF About
  <2>2. ASSUME NoneIn(toldPC'[p], About(n)) PROVE n \in recent'[p] <=> n \in notes[p]
    <3>1. k.event \in NoteSays(n, notes[p])
      BY <1>7, <1>8, <2>2
    <3>2. k.event \notin CallEvents
      BY <2>1 DEF CallEvents
    <3> QED BY <1>3, <1>4, <2>1, <3>1, <3>2 DEF NoteSays
  <2> QED BY <1>1, <1>7, <1>8, <2>2 DEF ListKnown
<1>9. CASE q = p /\ k \notin About(n)
  <2>1. n \in recent'[p] <=> n \in recent[p]
    <3>1. k.event \in {"posted", "removed"} => k.note # n
      BY <1>2, <1>9
    <3> QED BY <1>3, <1>4, <3>1
  <2> QED BY <1>1, <1>3, <1>7, <1>9, <2>1 DEF ListKnown, Dismissing
<1> QED
  BY <1>5, <1>8, <1>9

(* A dismissal is sent, and perhaps the list is shorter for it. *)
LEMMA ListSends ==
  ASSUME ListInv, ~cut', NEW p \in Mobiles, NEW m \in Notes,
         \/ Dismiss(p, m)
         \/ SendDismiss(p, m) /\ UNCHANGED <<toldPC, notes, untold, recent, cut>>,
         NEW q \in Mobiles, NEW n \in Notes \ untold'[q]
  PROVE  ListKnown(q, n)'
<1>1. /\ SendDismiss(p, m) /\ UNCHANGED <<toldPC, notes, untold, cut>>
      /\ \/ recent' = recent
         \/ p \in linkedTo /\ recent' = [recent EXCEPT ![p] = @ \ {m}] /\ m \in recent[p]
  <2>1. CASE Dismiss(p, m)
    BY <2>1 DEF Dismiss, Unlist, linkVars
  <2>2. CASE SendDismiss(p, m) /\ UNCHANGED <<toldPC, notes, untold, recent, cut>>
    BY <2>2
  <2> QED BY <2>1, <2>2
<1>2. /\ toldPhone \in [Mobiles -> Seq(Notes)] /\ recent \in [Mobiles -> SUBSET Notes]
      /\ ListKnown(q, n)
  BY <1>1 DEF ListInv, ETyped, PhonesOK, HeldOK
<1>3. CASE q # p
  <2>1. toldPhone'[q] = toldPhone[q] /\ recent'[q] = recent[q]
    BY <1>1, <1>2, <1>3 DEF SendDismiss
  <2> QED BY <1>1, <1>2, <2>1, ListStays
<1>4. CASE q = p
  <2>1. /\ toldPhone[p] \in Seq(Notes)
        /\ toldPhone'[p] = IF p \in linkedTo THEN Append(toldPhone[p], m) ELSE toldPhone[p]
    BY <1>1, <1>2 DEF SendDismiss
  <2>2. LET w == Append(toldPhone[p], m) IN
          /\ Len(toldPhone[p]) \in Nat /\ Len(w) = Len(toldPhone[p]) + 1 /\ w[Len(w)] = m
          /\ \A i \in 1 .. Len(toldPhone[p]) : w[i] = toldPhone[p][i]
    BY <2>1, AppendProperties, LenProperties
  <2>3. Dismissing(p, n) => Dismissing(p, n)'
    BY <2>1, <2>2 DEF Dismissing
  <2>4. p \in linkedTo => Dismissing(p, m)'
    BY <2>1, <2>2 DEF Dismissing
  <2>5. CASE recent' = recent \/ n # m
    <3>1. n \in recent'[p] <=> n \in recent[p]
      BY <1>1, <1>2, <2>5
    <3> QED BY <1>1, <1>2, <1>4, <2>3, <3>1 DEF ListKnown
  <2>6. CASE n = m /\ p \in linkedTo /\ m \in recent[p] /\ recent' = [recent EXCEPT ![p] = @ \ {m}]
    <3>1. Dismissing(p, n)'
      BY <2>4, <2>6
    <3> QED BY <1>1, <1>2, <1>4, <2>6, <3>1 DEF ListKnown
  <2> QED BY <1>1, <2>5, <2>6
<1> QED
  BY <1>3, <1>4

LEMMA ListKeeps == ListInv /\ [EventsNext]_eVars => ListInv'
<1> SUFFICES ASSUME ListInv, [EventsNext]_eVars PROVE ListInv'
  OBVIOUS
<1>1. ETyped'
  BY TypesKeep DEF ListInv
<1> SUFFICES ASSUME ~cut', NEW q \in Mobiles, NEW n \in Notes \ untold'[q] PROVE ListKnown(q, n)'
  BY <1>1 DEF ListInv
<1>2. ASSUME UNCHANGED <<toldPC, notes, untold, recent, toldPhone, cut>> PROVE ListKnown(q, n)'
  BY <1>2, ListStays DEF ListInv
<1>3. ASSUME NEW p \in Mobiles, LinkGoes(p) PROVE ListKnown(q, n)'
  <2>1. /\ toldPC[p] = <<>> /\ toldPhone[p] = <<>> /\ ~cut
        /\ toldPC' = [toldPC EXCEPT ![p] = <<>>] /\ toldPhone' = [toldPhone EXCEPT ![p] = <<>>]
        /\ UNCHANGED <<notes, untold, recent>>
    BY <1>3 DEF LinkGoes
  <2>2. toldPC'[q] = toldPC[q] /\ toldPhone'[q] = toldPhone[q]
    BY <2>1 DEF ListInv, ETyped, PhonesOK
  <2> QED BY <2>1, <2>2, ListStays DEF ListInv
<1>4. ASSUME NEW p \in Mobiles,
             \/ LinkComes(p) \/ (\E m \in {0} \union Notes : Hush(p, m)) \/ Notify(p) \/ NotifyFails(p) \/ Register(p) \/ StoreId(p)
             \/ PausePlaying(p) \/ HoldPlayers(p) \/ Talking(p) \/ CallOver(p)
      PROVE  ListKnown(q, n)'
  BY <1>2, <1>4 DEF LinkComes, Hush, Notify, NotifyFails, Register, StoreId, PausePlaying, HoldPlayers, Talking,
     CallOver, onPhone, linkVars
<1>5. ASSUME UserCloses \/ SignalComes \/ \E m \in Players : UserPlays(m) PROVE ListKnown(q, n)'
  BY <1>2, <1>5 DEF UserCloses, SignalComes, UserPlays, onPhone, linkVars
<1>6. CASE OnClosed
  <2>1. PICK c \in closings :
          /\ SendDismiss(c[1][1], c[1][2]) \/ UNCHANGED toldPhone
          /\ UNCHANGED <<toldPC, notes, untold, recent, cut>>
    BY <1>6 DEF OnClosed, linkVars
  <2>2. c[1][1] \in Mobiles /\ c[1][2] \in Notes
    BY DEF ListInv, ETyped, ScreenOK, NoteKeys
  <2> QED BY <1>2, <2>1, <2>2, ListSends
<1>7. CASE UNCHANGED eVars
  BY <1>2, <1>7 DEF eVars
<1> QED
  BY <1>3, <1>4, <1>5, <1>6, <1>7, ListOnPhone, ListDismissed, ListRead, ListSends DEF EventsNext

(* What is listed for a phone is what it shows, once all that was sent     *)
(* either way has been handled (onPhoneNotification, dismissals here, on   *)
(* the desktop and on the phone at once), unless a packet was lost, and    *)
(* but for what came or went while the user kept it from the computer.     *)
THEOREM ListFollows == EventsSpec => []ListFollowsPhone
<1>1. ListInv => ListFollowsPhone
  <2> SUFFICES ASSUME ListInv, NEW p \in Mobiles, ~cut, Handled(p), toldPhone[p] = <<>>
               PROVE  recent[p] \ untold[p] = notes[p] \ untold[p]
    BY DEF ListFollowsPhone
  <2>1. recent[p] \subseteq Notes /\ notes[p] \subseteq Notes
    BY DEF ListInv, ETyped, PhonesOK, HeldOK
  <2>2. ASSUME NEW n \in Notes \ untold[p] PROVE n \in recent[p] <=> n \in notes[p]
    <3>1. ListKnown(p, n) /\ NoneIn(toldPC[p], About(n)) /\ ~Dismissing(p, n)
      BY NothingSaid DEF ListInv, Handled, Dismissing
    <3> QED BY <3>1 DEF ListKnown
  <2> QED BY <2>1, <2>2
<1> QED
  BY <1>1, ListStarts, ListKeeps, PTL DEF EventsSpec

(* Types of the phones' events and of what the computer keeps of them.     *)
THEOREM EventsTypeCorrect == EventsSpec => []EventsOK
  BY TypedIsOK, StartsTyped, TypesKeep, PTL DEF EventsSpec

-----------------------------------------------------------------------------
(* Calls.  Of a call that is over a phone said last that it is, and when   *)
(* none of that is under way, its reader is at it, or the call is over.    *)

CallMode(h)  == h.step # "idle" /\ h.note = 0
Ringing(p)   == {s \in screen \ orphans : s[2] = <<p, 0>>}
RingsAs(p)   == IF handler[p].note = 0 /\ handler[p].step \in {"register", "store"}
                THEN handler[p].id ELSE ids[<<p, 0>>]
RingKnown(p) ==
  /\ \A s \in Ringing(p) : s = <<RingsAs(p), <<p, 0>>>>
  /\ handler[p].step = "close" => handler[p].id = ids[<<p, 0>>]
OnlyCallers(p) ==
  p \notin Callers => call[p] = "none" /\ NoneIn(toldPC[p], CallPackets) /\ ~CallMode(handler[p])
Over(p) == Ringing(p) = {} /\ resumable[p] = {}
Told(p) ==
  call[p] = "none" =>
    /\ SaysLast(toldPC[p], CallPackets, Ends)
    /\ NoneIn(toldPC[p], CallPackets) =>
         IF CallMode(handler[p]) THEN handler[p].event \in Ends ELSE Over(p)
CallKnown(p) == RingKnown(p) /\ OnlyCallers(p) /\ (~cut => Told(p))
AtHold(p)    == IF handler[p].step = "hold" THEN handler[p].held ELSE {}
PausedKnown  == \A m \in byUs : \E p \in Mobiles : m \in resumable[p] \/ m \in AtHold(p)
CallInv      == ETyped /\ PausedKnown /\ \A p \in Mobiles : CallKnown(p)

LEMMA CallsStart == EventsInit => CallInv
<1> SUFFICES ASSUME EventsInit PROVE CallInv
  OBVIOUS
<1>1. ASSUME NEW p \in Mobiles PROVE CallKnown(p)
  <2>1. /\ call[p] = "none" /\ toldPC[p] = <<>> /\ handler[p] = Idle /\ screen = {}
        /\ resumable[p] = {}
    BY DEF EventsInit
  <2>2. ~CallMode(handler[p]) /\ handler[p].step # "close"
    BY <2>1 DEF CallMode, Idle
  <2>3. RingKnown(p) /\ Over(p)
    BY <2>1, <2>2 DEF RingKnown, Ringing, Over
  <2> QED
    BY <2>1, <2>2, <2>3, NothingSaid DEF CallKnown, OnlyCallers, Told
<1>2. PausedKnown
  BY DEF EventsInit, PausedKnown
<1> QED
  BY <1>1, <1>2, StartsTyped DEF CallInv

(* What leaves a phone's call alone. *)
CallAlone(p) ==
  /\ call'[p] = call[p] /\ ids'[<<p, 0>>] = ids[<<p, 0>>] /\ resumable'[p] = resumable[p]
  /\ Ringing(p)' \subseteq Ringing(p) /\ (cut => cut')

LEMMA CallStays ==
  ASSUME NEW p \in Mobiles, CallKnown(p), CallAlone(p), toldPC'[p] = toldPC[p], handler'[p] = handler[p]
  PROVE  CallKnown(p)'
<1>1. RingKnown(p)'
  BY DEF CallKnown, CallAlone, RingKnown, RingsAs
<1>2. OnlyCallers(p)'
  BY DEF CallKnown, CallAlone, OnlyCallers
<1>3. Over(p) => Over(p)'
  BY DEF Over, CallAlone
<1>4. ~cut' => Told(p)'
  BY <1>3 DEF CallKnown, CallAlone, Told
<1> QED
  BY <1>1, <1>2, <1>4 DEF CallKnown

(* A packet about a notification is told. *)
LEMMA CallUntold ==
  ASSUME ETyped, NEW p \in Mobiles, CallKnown(p), CallAlone(p), handler'[p] = handler[p],
         NEW x \in Packets, x \notin CallPackets, toldPC'[p] = Append(toldPC[p], x)
  PROVE  CallKnown(p)'
<1>1. RingKnown(p)'
  BY DEF CallKnown, CallAlone, RingKnown, RingsAs
<1>2. Over(p) => Over(p)'
  BY DEF Over, CallAlone
<1>3. toldPC[p] \in Seq(Packets)
  BY DEF ETyped, PhonesOK
<1>4. NoneIn(toldPC'[p], CallPackets) <=> NoneIn(toldPC[p], CallPackets)
  <2>1. /\ Len(toldPC[p]) \in Nat /\ Len(toldPC'[p]) = Len(toldPC[p]) + 1
        /\ toldPC'[p][Len(toldPC[p]) + 1] = x
        /\ \A i \in 1 .. Len(toldPC[p]) : toldPC'[p][i] = toldPC[p][i]
    BY <1>3, AppendProperties, LenProperties
  <2> QED BY <2>1 DEF NoneIn
<1>5. OnlyCallers(p)'
  BY <1>4 DEF CallKnown, CallAlone, OnlyCallers
<1>6. ASSUME SaysLast(toldPC[p], CallPackets, Ends)
      PROVE  SaysLast(toldPC'[p], CallPackets, Ends)
  BY <1>3, <1>6, OneMore
<1>7. ~cut' => Told(p)'
  <2> SUFFICES ASSUME ~cut' PROVE Told(p)'
    OBVIOUS
  <2>1. Told(p) /\ call'[p] = call[p]
    BY DEF CallKnown, CallAlone
  <2> QED BY <1>2, <1>4, <1>6, <2>1 DEF Told
<1> QED
  BY <1>1, <1>5, <1>7 DEF CallKnown

(* The call changes, or is told of again. *)
LEMMA CallTold ==
  ASSUME ETyped, NEW p \in Callers, NEW e \in CallEvents, CallKnown(p),
         toldPC' = [toldPC EXCEPT ![p] = Append(@, EventPacket(e, 0))],
         call'[p] = "none" => e \in Ends, UNCHANGED <<handler, ids, screen, orphans>>
  PROVE  CallKnown(p)'
<1>1. /\ p \in Mobiles /\ EventPacket(e, 0) \in CallPackets /\ EventPacket(e, 0) \in Packets
      /\ EventPacket(e, 0).event = e
  BY EventsAssumption DEF EventPacket, CallPackets, Packets
<1>2. toldPC[p] \in Seq(Packets) /\ toldPC'[p] = Append(toldPC[p], EventPacket(e, 0))
  BY <1>1 DEF ETyped, PhonesOK
<1>3. /\ ~NoneIn(toldPC'[p], CallPackets)
      /\ call'[p] = "none" => SaysLast(toldPC'[p], CallPackets, Ends)
  <2> DEFINE x == EventPacket(e, 0)
  <2>1. x \in CallPackets /\ x \in Packets /\ (call'[p] = "none" => x.event \in Ends)
    BY <1>1
  <2> HIDE DEF x
  <2> QED BY <1>2, <2>1, OneMore DEF x
<1>4. RingKnown(p)'
  BY DEF CallKnown, RingKnown, Ringing, RingsAs
<1> QED
  BY <1>3, <1>4 DEF CallKnown, OnlyCallers, Told

(* Of the calls and what is kept of them, a phone's event changes its own. *)
LEMMA CallElsewhere ==
  ASSUME CallInv, NEW p \in Mobiles, NEW q \in Mobiles \ {p},
         call'[q] = call[q], toldPC'[q] = toldPC[q], handler'[q] = handler[q], resumable'[q] = resumable[q],
         ids'[<<q, 0>>] = ids[<<q, 0>>], Ringing(q)' \subseteq Ringing(q), cut => cut'
  PROVE  CallKnown(q)'
  BY CallStays DEF CallInv, CallAlone

LEMMA CallOnPhone ==
  ASSUME CallInv, NEW p \in Mobiles,
         \/ RetellCall(p) \/ (\E s \in CallStates : CallEvent(p, s)) \/ DismissOnPhone(p)
         \/ \E n \in Notes : Post(p, n) \/ RemoveNote(p, n),
         NEW q \in Mobiles
  PROVE  CallKnown(q)'
<1>1. /\ UNCHANGED <<handler, ids, resumable, screen, orphans>> /\ (cut => cut')
      /\ \A r \in Mobiles \ {p} : call'[r] = call[r] /\ toldPC'[r] = toldPC[r]
  <2>1. /\ call \in [Mobiles -> CallStates] /\ toldPC \in [Mobiles -> Seq(Packets)]
    BY DEF CallInv, ETyped, PhonesOK
  <2>2. CASE DismissOnPhone(p)
    BY <2>1, <2>2 DEF DismissOnPhone, linkVars, desktopVars
  <2>3. ASSUME (\E e, n : TellPC(p, e, n)) \/ (Happens(p) /\ UNCHANGED <<toldPC, cut>>),
               call' = call \/ \E c : call' = [call EXCEPT ![p] = c]
        PROVE  /\ UNCHANGED <<handler, ids, resumable, screen, orphans>> /\ (cut => cut')
               /\ \A r \in Mobiles \ {p} : call'[r] = call[r] /\ toldPC'[r] = toldPC[r]
    <3>1. /\ UNCHANGED <<handler, ids, resumable, screen, orphans>> /\ (cut => cut')
      <4>1. Happens(p) /\ (cut => cut')
        <5>1. ASSUME NEW e, NEW n, TellPC(p, e, n) PROVE Happens(p) /\ (cut => cut')
          BY <5>1 DEF TellPC
        <5> QED BY <2>3, <5>1
      <4> QED BY <4>1 DEF Happens, desktopVars
    <3>2. ASSUME NEW e, NEW n, TellPC(p, e, n), NEW r \in Mobiles \ {p} PROVE toldPC'[r] = toldPC[r]
      BY <2>1, <3>2 DEF TellPC
    <3>3. \A r \in Mobiles \ {p} : toldPC'[r] = toldPC[r]
      BY <2>3, <3>2
    <3>4. \A r \in Mobiles \ {p} : call'[r] = call[r]
      BY <2>1, <2>3
    <3> QED BY <3>1, <3>3, <3>4
  <2> QED
    BY <2>2, <2>3 DEF RetellCall, CallEvent, Post, RemoveNote
<1>2. Ringing(q)' = Ringing(q)
  BY <1>1 DEF Ringing
<1>3. CASE q # p
  BY <1>1, <1>2, <1>3, CallElsewhere
<1>4. CallKnown(p) /\ ETyped
  BY DEF CallInv
<1>5. ASSUME NEW x \in Packets, x \notin CallPackets, q = p, call' = call,
             toldPC' = toldPC \/ toldPC' = [toldPC EXCEPT ![p] = Append(@, x)]
      PROVE  CallKnown(q)'
  <2>1. CallAlone(p)
    BY <1>1, <1>2, <1>5 DEF CallAlone
  <2>2. toldPC'[p] = toldPC[p] \/ toldPC'[p] = Append(toldPC[p], x)
    BY <1>5 DEF CallInv, ETyped, PhonesOK
  <2> QED
    BY <1>1, <1>4, <1>5, <2>1, <2>2, CallStays, CallUntold
<1>6. CASE q = p /\ DismissOnPhone(p)
  <2>1. EventPacket("removed", Head(toldPhone[p])) \in Packets
    BY <1>4, <1>6, DismissedTyped
  <2>2. EventPacket("removed", Head(toldPhone[p])) \notin CallPackets
    BY DEF EventPacket, CallPackets, CallEvents
  <2> QED
    BY <1>5, <1>6, <2>1, <2>2 DEF DismissOnPhone
<1>7. ASSUME q = p, NEW n \in Notes, Post(p, n) \/ RemoveNote(p, n) PROVE CallKnown(q)'
  <2>1. PICK e \in {"posted", "removed"} :
          call' = call /\ (TellPC(p, e, n) \/ UNCHANGED toldPC)
    BY <1>7 DEF Post, RemoveNote
  <2>2. EventPacket(e, n) \in Packets /\ EventPacket(e, n) \notin CallPackets
    BY DEF EventPacket, Packets, CallPackets, CallEvents
  <2> QED
    BY <1>5, <1>7, <2>1, <2>2 DEF TellPC
<1>8. ASSUME q = p, RetellCall(p) \/ \E s \in CallStates : CallEvent(p, s) PROVE CallKnown(q)'
  <2>0. call \in [Mobiles -> CallStates] /\ handler'[p] = handler[p]
    BY <1>1, <1>4 DEF ETyped, PhonesOK
  <2>1. /\ p \in Callers
        /\ \/ \E e \in CallEvents : TellPC(p, e, 0) /\ (call'[p] = "none" => e \in Ends)
           \/ call'[p] # "none" /\ UNCHANGED <<toldPC, cut>>
    <3>1. CASE RetellCall(p)
      BY <1>4, <2>0, <3>1 DEF RetellCall, CallStates, CallEvents, CallKnown, OnlyCallers
    <3>2. ASSUME NEW s \in CallStates, CallEvent(p, s)
          PROVE  /\ p \in Callers
                 /\ \/ \E e \in CallEvents : TellPC(p, e, 0) /\ (call'[p] = "none" => e \in Ends)
                    \/ call'[p] # "none" /\ UNCHANGED <<toldPC, cut>>
      BY <2>0, <3>2 DEF CallEvent, CallStates, Ends, CallEvents
    <3> QED BY <1>8, <3>1, <3>2
  <2>2. RingKnown(p)'
    BY <1>1, <1>4 DEF CallKnown, RingKnown, Ringing, RingsAs
  <2>3. ASSUME NEW e \in CallEvents, TellPC(p, e, 0), call'[p] = "none" => e \in Ends PROVE CallKnown(p)'
    <3>1. CASE p \in linkedTo
      <4>1. toldPC' = [toldPC EXCEPT ![p] = Append(@, EventPacket(e, 0))]
        BY <2>3, <3>1 DEF TellPC
      <4> QED
        BY <1>1, <1>4, <2>1, <2>3, <4>1, CallTold
    <3>2. CASE p \notin linkedTo
      <4>1. cut'
        BY <2>3, <3>2 DEF TellPC
      <4> QED
        BY <2>1, <2>2, <4>1 DEF CallKnown, OnlyCallers
    <3> QED BY <3>1, <3>2
  <2>4. CASE call'[p] # "none" /\ UNCHANGED <<toldPC, cut>>
    <3>1. Told(p)'
      BY <2>4 DEF Told
    <3>2. OnlyCallers(p)'
      BY <2>1 DEF OnlyCallers
    <3> QED BY <1>8, <2>2, <3>1, <3>2 DEF CallKnown
  <2> QED BY <1>8, <2>1, <2>3, <2>4
<1> QED
  BY <1>3, <1>6, <1>7, <1>8

(* A reader goes on with a call, or is through with it. *)
LEMMA CallGoesOn ==
  ASSUME NEW p \in Mobiles, CallKnown(p), CallMode(handler[p]),
         call'[p] = call[p], toldPC'[p] = toldPC[p], cut => cut',
         \/ CallMode(handler'[p]) /\ handler'[p].event = handler[p].event
         \/ handler'[p] = Idle /\ (handler[p].event \in Begins \/ Over(p)'),
         RingKnown(p)'
  PROVE  CallKnown(p)'
<1>1. p \in Callers
  BY DEF CallKnown, OnlyCallers
<1>2. ASSUME ~cut' PROVE Told(p)'
  <2>1. Told(p)
    BY <1>2 DEF CallKnown
  <2>2. CASE CallMode(handler'[p]) /\ handler'[p].event = handler[p].event
    BY <2>1, <2>2 DEF Told
  <2>3. CASE handler'[p] = Idle /\ handler[p].event \in Begins
    <3>1. NoneIn(toldPC[p], CallPackets) => call[p] # "none"
      BY <2>1, <2>3 DEF Told, Begins, Ends
    <3>2. ~CallMode(handler'[p])
      BY <2>3 DEF CallMode, Idle
    <3> QED BY <2>1, <3>1, <3>2 DEF Told
  <2>4. CASE handler'[p] = Idle /\ Over(p)'
    <3>1. ~CallMode(handler'[p])
      BY <2>4 DEF CallMode, Idle
    <3> QED BY <2>1, <2>4, <3>1 DEF Told
  <2> QED BY <2>2, <2>3, <2>4
<1> QED
  BY <1>1, <1>2 DEF CallKnown, OnlyCallers

(* The same of a reader that is at a notification, or about to be.         *)
LEMMA NoteGoesOn ==
  ASSUME NEW p \in Mobiles, CallKnown(p), ~CallMode(handler[p]), ~CallMode(handler'[p]),
         CallAlone(p), toldPC'[p] = toldPC[p], RingKnown(p)'
  PROVE  CallKnown(p)'
<1>1. OnlyCallers(p)'
  BY DEF CallKnown, CallAlone, OnlyCallers
<1>2. Over(p) => Over(p)'
  BY DEF Over, CallAlone
<1>3. ~cut' => Told(p)'
  BY <1>2 DEF CallKnown, CallAlone, Told
<1> QED
  BY <1>1, <1>3 DEF CallKnown

(* The notification of a call is shown, registered and stored. *)
LEMMA CallShown ==
  ASSUME CallInv, NEW p \in Mobiles, Notify(p) \/ NotifyFails(p) \/ Register(p) \/ StoreId(p),
         NEW q \in Mobiles
  PROVE  CallKnown(q)'
<1> DEFINE h == handler[p]
<1>0. /\ ReaderFits(h) /\ DOMAIN handler = Mobiles /\ DOMAIN ids = NoteKeys
      /\ CallKnown(p) /\ CallKnown(q) /\ Key(p) \in NoteKeys
      /\ \A r \in Mobiles : <<r, 0>> \in NoteKeys
  BY KeyTyped DEF CallInv, ETyped, ReadersOK, HeldOK
<1>1. UNCHANGED <<call, toldPC, resumable, cut>>
  BY DEF Notify, NotifyFails, Register, StoreId, onPhone, linkVars
<1>2. /\ h.note = 0 => Key(p) = <<p, 0>>
      /\ h.note # 0 => \A r \in Mobiles : Key(p) # <<r, 0>>
      /\ q # p => Key(p) # <<q, 0>>
  BY DEF Key
<1>3. h.step \in {"notify", "register", "store"}
  BY DEF Notify, NotifyFails, Register, StoreId, At
<1>4. h.note = 0 => CallMode(h) /\ h.event = "ringing" /\ h.event \in Begins
  BY <1>0, <1>3 DEF CallMode, ReaderFits, Begins
<1>5. h.note # 0 => ~CallMode(h)
  BY DEF CallMode
<1>6. ~CallMode(Idle)
  BY DEF CallMode, Idle
<1>7. CASE Notify(p)
  <2>1. PICK id : /\ screen' = screen \union {<<id, Key(p)>>} /\ orphans' = orphans \ {<<id, Key(p)>>}
                  /\ <<ids[Key(p)], Key(p)>> \in screen => id = ids[Key(p)]
                  /\ handler' = [handler EXCEPT ![p] = [h EXCEPT !.step = "register", !.id = id]]
                  /\ UNCHANGED ids /\ h.step = "notify"
    BY <1>7 DEF Notify, At, Becomes
  <2>2. CASE q # p
    <3>1. Ringing(q)' = Ringing(q) /\ handler'[q] = handler[q]
      BY <1>0, <1>2, <2>1, <2>2 DEF Ringing
    <3> QED BY <1>1, <2>1, <2>2, <3>1, CallElsewhere
  <2>3. handler'[p] = [h EXCEPT !.step = "register", !.id = id]
    BY <1>0, <2>1
  <2>4. /\ handler'[p].step = "register" /\ handler'[p].id = id /\ handler'[p].note = h.note
        /\ handler'[p].event = h.event
    BY <1>0, <2>3 DEF ReaderFits, Reading
  <2>5. CASE q = p /\ h.note = 0
    <3>1. RingsAs(p)' = id /\ RingsAs(p) = ids[<<p, 0>>]
      BY <2>1, <2>4, <2>5 DEF RingsAs
    <3>2. \A s \in Ringing(p) : s = <<ids[<<p, 0>>], <<p, 0>>>>
      BY <1>0, <3>1 DEF CallKnown, RingKnown
    <3>3. \A s \in Ringing(p)' : s = <<id, <<p, 0>>>>
      <4>1. Ringing(p) # {} => id = ids[<<p, 0>>]
        BY <1>2, <2>1, <2>5, <3>2 DEF Ringing
      <4>2. \A s \in Ringing(p)' : s \in Ringing(p) \/ s = <<id, <<p, 0>>>>
        BY <1>2, <2>1, <2>5 DEF Ringing
      <4> QED BY <3>2, <4>1, <4>2
    <3>4. RingKnown(p)'
      BY <2>4, <3>1, <3>3 DEF RingKnown
    <3>5. CallMode(handler'[p])
      BY <2>4, <2>5 DEF CallMode
    <3> QED BY <1>0, <1>1, <1>4, <2>4, <2>5, <3>4, <3>5, CallGoesOn
  <2>6. CASE q = p /\ h.note # 0
    <3>1. Ringing(p)' = Ringing(p)
      BY <1>2, <2>1, <2>6 DEF Ringing
    <3>2. RingKnown(p)' /\ CallAlone(p)
      BY <1>0, <1>1, <2>1, <2>4, <2>6, <3>1 DEF CallKnown, RingKnown, RingsAs, CallAlone
    <3>3. ~CallMode(handler'[p])
      BY <2>4, <2>6 DEF CallMode
    <3> QED BY <1>0, <1>1, <1>5, <2>6, <3>2, <3>3, NoteGoesOn
  <2> QED BY <2>2, <2>5, <2>6
<1>8. CASE NotifyFails(p)
  <2>1. /\ ids' = IF h.note = 0 THEN [ids EXCEPT ![Key(p)] = 0] ELSE ids
        /\ handler' = [handler EXCEPT ![p] = Idle] /\ handler'[p] = Idle
        /\ \/ screen' = {}
           \/ /\ screen' = screen
              /\ orphans' = orphans \union {s \in screen : h.note = 0 /\ s[2] = Key(p)}
    BY <1>0, <1>8 DEF NotifyFails, Becomes
  <2>2. \A r \in Mobiles : Ringing(r)' \subseteq Ringing(r)
    BY <2>1 DEF Ringing
  <2>7. h.note = 0 => Ringing(p)' = {}
    BY <1>2, <2>1 DEF Ringing
  <2>3. CASE q # p
    <3>1. ids'[<<q, 0>>] = ids[<<q, 0>>] /\ handler'[q] = handler[q]
      BY <1>0, <1>2, <2>1, <2>3
    <3>2. Ringing(q)' \subseteq Ringing(q)
      BY <2>2
    <3> QED BY <1>1, <2>3, <3>1, <3>2, CallElsewhere
  <2>4. RingKnown(p)'
    <3>1. handler'[p].step = "idle" /\ RingsAs(p)' = ids'[<<p, 0>>]
      BY <2>1 DEF RingsAs, Idle
    <3>2. h.note # 0 => RingsAs(p) = ids'[<<p, 0>>]
      BY <2>1 DEF RingsAs
    <3> QED BY <1>0, <2>2, <2>7, <3>1, <3>2 DEF CallKnown, RingKnown
  <2>5. CASE q = p /\ h.note = 0
    BY <1>0, <1>1, <1>4, <2>1, <2>4, <2>5, CallGoesOn
  <2>6. CASE q = p /\ h.note # 0
    <3>1. CallAlone(p)
      BY <1>1, <2>1, <2>2, <2>6 DEF CallAlone
    <3> QED BY <1>0, <1>1, <1>5, <1>6, <2>1, <2>4, <2>6, <3>1, NoteGoesOn
  <2> QED BY <2>3, <2>5, <2>6
<1>9. CASE Register(p)
  <2>1. /\ UNCHANGED <<ids, screen, orphans>> /\ handler' = [handler EXCEPT ![p] = [h EXCEPT !.step = "store"]]
        /\ h.step = "register"
    BY <1>9 DEF Register, At, Becomes
  <2>2. \A r \in Mobiles : Ringing(r)' = Ringing(r)
    BY <2>1 DEF Ringing
  <2>3. CASE q # p
    BY <1>0, <1>1, <2>1, <2>2, <2>3, CallElsewhere
  <2>4. /\ handler'[p].step = "store" /\ handler'[p].id = h.id /\ handler'[p].note = h.note
        /\ handler'[p].event = h.event
    BY <1>0, <2>1 DEF ReaderFits, Reading
  <2>5. RingKnown(p)'
    BY <1>0, <2>1, <2>2, <2>4 DEF CallKnown, RingKnown, RingsAs
  <2>6. CASE q = p /\ h.note = 0
    <3>1. CallMode(handler'[p])
      BY <2>4, <2>6 DEF CallMode
    <3> QED BY <1>0, <1>1, <1>4, <2>4, <2>5, <2>6, <3>1, CallGoesOn
  <2>7. CASE q = p /\ h.note # 0
    <3>1. CallAlone(p) /\ ~CallMode(handler'[p])
      BY <1>1, <2>1, <2>2, <2>4, <2>7 DEF CallAlone, CallMode
    <3> QED BY <1>0, <1>1, <1>5, <2>5, <2>7, <3>1, NoteGoesOn
  <2> QED BY <2>3, <2>6, <2>7
<1>10. CASE StoreId(p)
  <2>1. /\ ids' = [ids EXCEPT ![Key(p)] = h.id] /\ UNCHANGED <<screen, orphans>>
        /\ handler' = [handler EXCEPT ![p] = Idle] /\ handler'[p] = Idle /\ h.step = "store"
    BY <1>0, <1>10 DEF StoreId, At, Becomes, desktopVars
  <2>2. \A r \in Mobiles : Ringing(r)' = Ringing(r)
    BY <2>1 DEF Ringing
  <2>3. CASE q # p
    <3>1. ids'[<<q, 0>>] = ids[<<q, 0>>] /\ handler'[q] = handler[q]
      BY <1>0, <1>2, <2>1, <2>3
    <3> QED BY <1>1, <2>2, <2>3, <3>1, CallElsewhere
  <2>4. RingsAs(p)' = RingsAs(p)
    BY <1>0, <1>2, <2>1 DEF RingsAs, Idle
  <2>5. RingKnown(p)'
    BY <1>0, <2>1, <2>2, <2>4 DEF CallKnown, RingKnown, Idle
  <2>6. CASE q = p /\ h.note = 0
    BY <1>0, <1>1, <1>4, <2>1, <2>5, <2>6, CallGoesOn
  <2>7. CASE q = p /\ h.note # 0
    <3>1. CallAlone(p)
      BY <1>0, <1>1, <1>2, <2>1, <2>2, <2>7 DEF CallAlone
    <3> QED BY <1>0, <1>1, <1>5, <1>6, <2>1, <2>5, <2>7, <3>1, NoteGoesOn
  <2> QED BY <2>3, <2>6, <2>7
<1> QED
  BY <1>7, <1>8, <1>9, <1>10

(* Pausing, and the end of a call. *)
LEMMA CallHandled ==
  ASSUME CallInv, NEW p \in Mobiles, PausePlaying(p) \/ HoldPlayers(p) \/ Talking(p) \/ CallOver(p),
         NEW q \in Mobiles
  PROVE  CallKnown(q)'
<1> DEFINE h == handler[p]
<1>0. /\ ReaderFits(h) /\ DOMAIN handler = Mobiles /\ DOMAIN ids = NoteKeys
      /\ resumable \in [Mobiles -> SUBSET Players]
      /\ CallKnown(p) /\ CallKnown(q) /\ ETyped
  BY DEF CallInv, ETyped, ReadersOK, HeldOK
<1>1. UNCHANGED <<call, toldPC, cut>>
  BY DEF PausePlaying, HoldPlayers, Talking, CallOver, onPhone, linkVars
<1>2. h.step \in {"pause", "hold", "close"} /\ h.note = 0 /\ CallMode(h)
  BY <1>0 DEF PausePlaying, HoldPlayers, Talking, CallOver, At, CallMode, ReaderFits
<1>3. \A r \in Mobiles : Ringing(r)' \subseteq Ringing(r)
  BY DEF PausePlaying, HoldPlayers, Talking, CallOver, desktopVars, Close, Ringing
<1>4. \A r \in Mobiles \ {p} : /\ handler'[r] = handler[r] /\ ids'[<<r, 0>>] = ids[<<r, 0>>]
                               /\ resumable'[r] = resumable[r]
  BY <1>0, KeyTyped DEF PausePlaying, HoldPlayers, Talking, CallOver, Becomes, ETyped
<1>5. CASE q # p
  BY <1>1, <1>3, <1>4, <1>5, CallElsewhere
<1>6. ASSUME Close(h.id), h.step = "close" PROVE Ringing(p)' = {}
  <2>1. h.id = ids[<<p, 0>>] /\ RingsAs(p) = ids[<<p, 0>>]
    BY <1>0, <1>6 DEF CallKnown, RingKnown, RingsAs
  <2>2. \A s \in Ringing(p) : s[1] = h.id
    BY <1>0, <2>1 DEF CallKnown, RingKnown
  <2> QED BY <1>6, <2>2 DEF Close, Ringing
<1>7. CASE q = p /\ CallOver(p)
  <2>1. /\ Ringing(p)' = {} /\ resumable'[p] = {} /\ handler'[p] = Idle
    BY <1>0, <1>6, <1>7 DEF CallOver, At, Becomes
  <2>2. RingKnown(p)'
    BY <2>1 DEF RingKnown, Idle
  <2>3. Over(p)'
    BY <2>1 DEF Over
  <2> QED BY <1>0, <1>1, <1>2, <1>7, <2>1, <2>2, <2>3, CallGoesOn
<1>8. CASE q = p /\ Talking(p)
  <2>1. handler'[p] = [h EXCEPT !.step = "pause"] /\ UNCHANGED ids
    BY <1>0, <1>8 DEF Talking, Becomes
  <2>2. handler'[p].step = "pause" /\ handler'[p].note = 0 /\ handler'[p].event = h.event
    BY <1>0, <1>2, <2>1 DEF ReaderFits, Reading
  <2>3. Ringing(p)' = {}
    BY <1>6, <1>8 DEF Talking, At
  <2>4. RingKnown(p)' /\ CallMode(handler'[p])
    BY <2>2, <2>3 DEF RingKnown, CallMode
  <2> QED BY <1>0, <1>1, <1>2, <1>8, <2>2, <2>4, CallGoesOn
<1>9. CASE q = p /\ (PausePlaying(p) \/ HoldPlayers(p))
  <2>1. /\ UNCHANGED ids /\ h.step \in {"pause", "hold"}
        /\ \/ \E m : handler'[p] = [h EXCEPT !.step = "hold", !.held = m]
           \/ handler'[p] = [h EXCEPT !.step = "notify"]
           \/ handler'[p] = Idle /\ h.event # "ringing"
    <3>1. CASE PausePlaying(p)
      BY <1>0, <3>1 DEF PausePlaying, At, Becomes
    <3>2. CASE HoldPlayers(p)
      BY <1>0, <3>2 DEF HoldPlayers, At, Becomes
    <3> QED BY <1>9, <3>1, <3>2
  <2>2. h.event \in Begins
    BY <1>0, <1>2, <2>1 DEF ReaderFits
  <2>3. \/ /\ handler'[p].step \in {"hold", "notify"} /\ handler'[p].note = 0
           /\ handler'[p].event = h.event
        \/ handler'[p] = Idle
    BY <1>0, <1>2, <2>1 DEF ReaderFits, Reading
  <2>4. RingsAs(p)' = RingsAs(p) /\ handler'[p].step # "close"
    <3>1. handler'[p].step \in {"hold", "notify", "idle"}
      BY <2>3 DEF Idle
    <3>2. ids' = ids /\ h.step \in {"pause", "hold"}
      BY <2>1
    <3> QED BY <3>1, <3>2 DEF RingsAs
  <2>5. RingKnown(p)'
    BY <1>0, <1>3, <2>1, <2>4 DEF CallKnown, RingKnown
  <2>6. \/ CallMode(handler'[p]) /\ handler'[p].event = h.event
        \/ handler'[p] = Idle
    BY <2>3 DEF CallMode
  <2> QED BY <1>0, <1>1, <1>2, <1>9, <2>2, <2>5, <2>6, CallGoesOn
<1> QED
  BY <1>5, <1>7, <1>8, <1>9

LEMMA CallRead ==
  ASSUME CallInv, NEW p \in Mobiles, ReadCall(p) \/ ReadPosted(p) \/ ReadRemoved(p),
         NEW q \in Mobiles
  PROVE  CallKnown(q)'
<1> DEFINE k == Event(p)
<1>0. /\ toldPC[p] # <<>> /\ toldPC' = [toldPC EXCEPT ![p] = Tail(@)] /\ At(p, "idle")
      /\ UNCHANGED <<call, resumable, cut>>
  BY DEF ReadCall, ReadPosted, ReadRemoved, onPhone, linkVars
<1>1. /\ DOMAIN handler = Mobiles /\ ETyped /\ CallKnown(p) /\ CallKnown(q) /\ ReaderFits(handler[p])
      /\ toldPC \in [Mobiles -> Seq(Packets)] /\ DOMAIN ids = NoteKeys
      /\ \A r \in Mobiles : <<r, 0>> \in NoteKeys
  BY KeyTyped DEF CallInv, ETyped, ReadersOK, HeldOK, PhonesOK
<1>2. /\ k = Head(toldPC[p])
      /\ k.event \in CallEvents => k \in CallPackets
      /\ k.event \in {"posted", "removed"} => k.note \in Notes /\ k \notin CallPackets
  <2>1. k.event \in {"posted", "removed"} => k.event \notin CallEvents
    BY DEF CallEvents
  <2> QED BY <1>0, <1>1, <2>1, FirstPacket DEF CallPackets
<1>3. handler[p] = Idle /\ ~CallMode(handler[p])
  BY <1>0, <1>1 DEF At, ReaderFits, CallMode
<1>4. \A r \in Mobiles : Ringing(r)' \subseteq Ringing(r)
  BY DEF ReadCall, ReadPosted, ReadRemoved, Unlist, Close, desktopVars, Ringing
<1>5. \A r \in Mobiles : ids'[<<r, 0>>] = ids[<<r, 0>>]
  <2>1. CASE ReadRemoved(p)
    <3>1. ids' = [ids EXCEPT ![<<p, k.note>>] = 0] /\ k.note \in Notes /\ k.note # 0
      BY <1>2, <2>1, EventsAssumption DEF ReadRemoved, Unlist
    <3> QED BY <1>1, <3>1
  <2> QED BY <2>1 DEF ReadCall, ReadPosted, ReadRemoved
<1>6. \A r \in Mobiles \ {p} : handler'[r] = handler[r] /\ toldPC'[r] = toldPC[r]
  BY <1>0, <1>1 DEF ReadCall, ReadPosted, ReadRemoved, Becomes
<1>7. CASE q # p
  BY <1>0, <1>4, <1>5, <1>6, <1>7, CallElsewhere
<1>8. /\ toldPC'[p] = Tail(toldPC[p]) /\ toldPC[p] \in Seq(Packets)
  BY <1>0, <1>1
<1>9. OnlyCallers(p) /\ k \in CallPackets => p \in Callers
  <2>1. Len(toldPC[p]) \in Nat \ {0} /\ Head(toldPC[p]) = toldPC[p][1]
    BY <1>0, <1>8, HeadTailProperties, EmptySeq, LenProperties
  <2>2. 1 \in 1 .. Len(toldPC[p])
    BY <2>1
  <2> QED BY <1>2, <2>1, <2>2 DEF OnlyCallers, NoneIn
<1>10. NoneIn(toldPC[p], CallPackets) => NoneIn(toldPC'[p], CallPackets)
  <2>1. /\ Len(toldPC[p]) \in Nat /\ Len(toldPC'[p]) = Len(toldPC[p]) - 1
        /\ \A i \in 1 .. Len(toldPC'[p]) : toldPC'[p][i] = toldPC[p][i + 1]
    BY <1>0, <1>8, HeadTailProperties, LenProperties
  <2>2. \A i \in 1 .. Len(toldPC'[p]) : i + 1 \in 1 .. Len(toldPC[p])
    BY <2>1
  <2> QED BY <2>1, <2>2 DEF NoneIn
<1> HIDE DEF k
<1>11. ASSUME NEW E, SaysLast(toldPC[p], CallPackets, E)
       PROVE  /\ SaysLast(toldPC'[p], CallPackets, E)
              /\ NoneIn(toldPC'[p], CallPackets) /\ k \notin CallPackets => NoneIn(toldPC[p], CallPackets)
              /\ NoneIn(toldPC'[p], CallPackets) /\ k \in CallPackets => k.event \in E
  BY <1>0, <1>2, <1>8, <1>11, OneLess
<1>12. CASE q = p /\ ReadCall(p)
  <2>1. /\ k.event \in CallEvents /\ k \in CallPackets
        /\ handler'[p] = [Idle EXCEPT !.step = IF k.event = "ringing" THEN "pause" ELSE "close",
                                      !.event = k.event, !.id = ids[<<p, 0>>]]
    BY <1>1, <1>2, <1>12 DEF ReadCall, Becomes, k
  <2>2. /\ handler'[p].step \in {"pause", "close"} /\ handler'[p].event = k.event
        /\ handler'[p].note = 0 /\ handler'[p].id = ids[<<p, 0>>]
    BY <2>1 DEF Idle
  <2>3. RingsAs(p)' = ids[<<p, 0>>] /\ RingsAs(p) = ids[<<p, 0>>]
    BY <1>1, <1>3, <1>5, <2>2 DEF RingsAs, Idle
  <2>4. RingKnown(p)'
    BY <1>1, <1>4, <1>5, <2>2, <2>3 DEF CallKnown, RingKnown
  <2>5. CallMode(handler'[p])
    BY <2>2 DEF CallMode
  <2>6. OnlyCallers(p)'
    BY <1>1, <1>9, <2>1 DEF CallKnown, OnlyCallers
  <2>7. ASSUME ~cut', call[p] = "none" PROVE Told(p)'
    <3>1. SaysLast(toldPC[p], CallPackets, Ends)
      BY <1>0, <1>1, <2>7 DEF CallKnown, Told
    <3>2. /\ SaysLast(toldPC'[p], CallPackets, Ends)
          /\ NoneIn(toldPC'[p], CallPackets) => k.event \in Ends
      BY <1>11, <2>1, <3>1
    <3> QED BY <1>0, <2>2, <2>5, <3>2 DEF Told
  <2>8. ~cut' => Told(p)'
    BY <1>0, <2>7 DEF Told
  <2> QED BY <1>12, <2>4, <2>6, <2>8 DEF CallKnown
<1>13. CASE q = p /\ (ReadPosted(p) \/ ReadRemoved(p))
  <2>1. k \notin CallPackets
    BY <1>2, <1>13 DEF ReadPosted, ReadRemoved, k
  <2>2. handler'[p] = Idle \/ handler'[p] = [Idle EXCEPT !.step = "notify", !.note = k.note]
    BY <1>1, <1>3, <1>13 DEF ReadPosted, ReadRemoved, k
  <2>3. k.note # 0
    BY <1>2, <1>13, EventsAssumption DEF ReadPosted, ReadRemoved, k
  <2>4. ~CallMode(handler'[p]) /\ handler'[p].step \in {"idle", "notify"}
    <3>1. \/ handler'[p].step = "idle"
          \/ handler'[p].step = "notify" /\ handler'[p].note = k.note
      <4>1. CASE handler'[p] = Idle
        BY <4>1 DEF Idle
      <4>2. CASE handler'[p] = [Idle EXCEPT !.step = "notify", !.note = k.note]
        BY <4>2 DEF Idle
      <4> QED BY <2>2, <4>1, <4>2
    <3> QED BY <2>3, <3>1 DEF CallMode
  <2>5. RingsAs(p)' = ids[<<p, 0>>] /\ RingsAs(p) = ids[<<p, 0>>]
    BY <1>1, <1>3, <1>5, <2>4 DEF RingsAs, Idle
  <2>6. RingKnown(p)'
    BY <1>1, <1>4, <1>5, <2>4, <2>5 DEF CallKnown, RingKnown
  <2>7. OnlyCallers(p)'
    BY <1>0, <1>1, <1>10, <2>4 DEF CallKnown, OnlyCallers
  <2>8. Over(p) => Over(p)'
    BY <1>0, <1>4 DEF Over
  <2>9. ASSUME ~cut', call[p] = "none" PROVE Told(p)'
    <3>1. Told(p)
      BY <1>0, <1>1, <2>9 DEF CallKnown
    <3>2. SaysLast(toldPC[p], CallPackets, Ends)
      BY <2>9, <3>1 DEF Told
    <3>3. /\ SaysLast(toldPC'[p], CallPackets, Ends)
          /\ NoneIn(toldPC'[p], CallPackets) => NoneIn(toldPC[p], CallPackets)
      BY <1>11, <2>1, <3>2
    <3> QED BY <1>0, <1>3, <2>4, <2>8, <2>9, <3>1, <3>3 DEF Told
  <2>10. ~cut' => Told(p)'
    BY <1>0, <2>9 DEF Told
  <2> QED BY <1>13, <2>6, <2>7, <2>10 DEF CallKnown
<1> QED
  BY <1>7, <1>12, <1>13

(* What the links, the user and the desktop do meanwhile. *)
LEMMA CallMeanwhile ==
  ASSUME CallInv, NEW q \in Mobiles,
         \/ (\E p \in Mobiles : LinkGoes(p) \/ LinkComes(p) \/ \E n \in Notes : Dismiss(p, n))
         \/ (\E p \in Mobiles, n \in {0} \union Notes : Hush(p, n))
         \/ UserCloses \/ SignalComes \/ OnClosed \/ \E m \in Players : UserPlays(m)
  PROVE  CallKnown(q)'
<1>0. /\ CallKnown(q) /\ DOMAIN ids = NoteKeys /\ DOMAIN handler = Mobiles
      /\ toldPC \in [Mobiles -> Seq(Packets)] /\ <<q, 0>> \in NoteKeys
      /\ \A c \in closings : c[1] \in NoteKeys /\ c[1][2] # 0
  BY KeyTyped DEF CallInv, ETyped, ReadersOK, HeldOK, ScreenOK, PhonesOK
<1>1. UNCHANGED <<call, handler, resumable>>
  BY DEF LinkGoes, LinkComes, Dismiss, Hush, UserCloses, SignalComes, OnClosed, UserPlays, onPhone
<1>2. ASSUME NEW p \in Mobiles, LinkGoes(p) PROVE CallKnown(q)'
  <2>1. /\ toldPC' = [toldPC EXCEPT ![p] = <<>>] /\ UNCHANGED <<ids, screen, orphans>>
        /\ cut' = (cut \/ toldPC[p] # <<>> \/ toldPhone[p] # <<>> \/ handler[p] # Idle)
    BY <1>2 DEF LinkGoes, desktopVars
  <2>2. CASE toldPC'[q] = toldPC[q]
    <3>1. CallAlone(q)
      BY <1>1, <2>1 DEF CallAlone, Ringing
    <3> QED BY <1>0, <1>1, <2>2, <3>1, CallStays
  <2>3. CASE toldPC'[q] # toldPC[q]
    <3>1. cut' /\ toldPC'[q] = <<>>
      BY <1>0, <2>1, <2>3
    <3>2. RingKnown(q)'
      BY <1>0, <1>1, <2>1 DEF CallKnown, RingKnown, RingsAs, Ringing
    <3>3. OnlyCallers(q)'
      BY <1>0, <1>1, <3>1, NothingSaid DEF CallKnown, OnlyCallers
    <3> QED BY <3>1, <3>2, <3>3 DEF CallKnown
  <2> QED BY <2>2, <2>3
<1>3. ASSUME \/ (\E p \in Mobiles : LinkComes(p) \/ \E n \in Notes : Dismiss(p, n))
             \/ (\E p \in Mobiles, n \in {0} \union Notes : Hush(p, n))
             \/ UserCloses \/ SignalComes \/ OnClosed \/ \E m \in Players : UserPlays(m)
      PROVE  CallKnown(q)'
  <2>1. UNCHANGED <<toldPC, cut>> /\ Ringing(q)' \subseteq Ringing(q)
    BY <1>3 DEF LinkComes, Dismiss, Hush, Unlist, Close, UserCloses, SignalComes, OnClosed, UserPlays,
       linkVars, desktopVars, Ringing
  <2>2. ids'[<<q, 0>>] = ids[<<q, 0>>]
    <3>1. ASSUME NEW p \in Mobiles, NEW n \in Notes, Dismiss(p, n) PROVE ids'[<<q, 0>>] = ids[<<q, 0>>]
      <4>1. ids' = [ids EXCEPT ![<<p, n>>] = 0] /\ n # 0
        BY <3>1, EventsAssumption DEF Dismiss, Unlist
      <4> QED BY <1>0, <4>1
    <3>2. CASE OnClosed
      <4>1. PICK c \in closings : ids' = [ids EXCEPT ![c[1]] = 0]
        BY <3>2 DEF OnClosed
      <4> QED BY <1>0, <4>1
    <3> QED BY <1>3, <3>1, <3>2 DEF LinkComes, Hush, UserCloses, SignalComes, UserPlays
  <2>3. CallAlone(q)
    BY <1>1, <2>1, <2>2 DEF CallAlone
  <2> QED BY <1>0, <1>1, <2>1, <2>3, CallStays
<1> QED
  BY <1>2, <1>3

(* What we paused is remembered for a phone, or is about to be. *)
LEMMA PausedKeeps == CallInv /\ [EventsNext]_eVars => PausedKnown'
<1> SUFFICES ASSUME CallInv, [EventsNext]_eVars PROVE PausedKnown'
  OBVIOUS
<1>0. /\ PausedKnown /\ DOMAIN handler = Mobiles /\ resumable \in [Mobiles -> SUBSET Players]
      /\ \A p \in Mobiles : ReaderFits(handler[p])
  BY DEF CallInv, ETyped, ReadersOK, HeldOK
<1>1. ASSUME NEW p \in Mobiles, byUs' \subseteq byUs, UNCHANGED resumable,
             \A q \in Mobiles \ {p} : handler'[q] = handler[q], AtHold(p) \subseteq AtHold(p)'
      PROVE  PausedKnown'
  <2> SUFFICES ASSUME NEW m \in byUs' PROVE \E q \in Mobiles : m \in resumable'[q] \/ m \in AtHold(q)'
    BY DEF PausedKnown
  <2>1. PICK q \in Mobiles : m \in resumable[q] \/ m \in AtHold(q)
    BY <1>0, <1>1 DEF PausedKnown
  <2>2. AtHold(q) \subseteq AtHold(q)'
    BY <1>1 DEF AtHold
  <2> QED BY <1>1, <2>1, <2>2
<1>2. ASSUME byUs' \subseteq byUs, UNCHANGED <<resumable, handler>> PROVE PausedKnown'
  BY <1>0, <1>2 DEF PausedKnown, AtHold
<1>3. ASSUME NEW p \in Mobiles,
             \/ Notify(p) \/ NotifyFails(p) \/ Register(p) \/ StoreId(p) \/ ReadCall(p) \/ ReadPosted(p)
             \/ Talking(p)
      PROVE  PausedKnown'
  <2>1. /\ byUs' = byUs /\ UNCHANGED resumable /\ handler[p].step # "hold"
        /\ handler' = handler \/ \E r : handler' = [handler EXCEPT ![p] = r]
    BY <1>3 DEF Notify, NotifyFails, Register, StoreId, ReadCall, ReadPosted, Talking, At, Becomes, playerVars
  <2>2. \A q \in Mobiles \ {p} : handler'[q] = handler[q]
    BY <1>0, <2>1
  <2>3. AtHold(p) = {}
    BY <2>1 DEF AtHold
  <2> QED BY <1>1, <2>1, <2>2, <2>3
<1>4. ASSUME NEW p \in Mobiles, PausePlaying(p) PROVE PausedKnown'
  <2>1. /\ UNCHANGED resumable /\ handler[p].step = "pause"
        /\ \/ /\ byUs' = byUs \union playing
              /\ handler' = [handler EXCEPT ![p] = [handler[p] EXCEPT !.step = "hold", !.held = playing]]
           \/ byUs' = byUs /\ \E r : handler' = [handler EXCEPT ![p] = r]
    BY <1>4 DEF PausePlaying, At, Becomes, playerVars
  <2>2. \A q \in Mobiles \ {p} : handler'[q] = handler[q]
    BY <1>0, <2>1
  <2>3. AtHold(p) = {}
    BY <2>1 DEF AtHold
  <2>4. CASE byUs' = byUs
    BY <1>1, <2>1, <2>2, <2>3, <2>4
  <2>5. CASE /\ byUs' = byUs \union playing
             /\ handler' = [handler EXCEPT ![p] = [handler[p] EXCEPT !.step = "hold", !.held = playing]]
    <3>1. handler'[p].step = "hold" /\ handler'[p].held = playing
      BY <1>0, <2>5 DEF ReaderFits, Reading
    <3>2. AtHold(p)' = playing
      BY <3>1 DEF AtHold
    <3>3. ASSUME NEW m \in byUs' PROVE \E q \in Mobiles : m \in resumable'[q] \/ m \in AtHold(q)'
      <4>1. CASE m \in playing
        BY <3>2, <4>1
      <4>2. CASE m \in byUs
        <5>1. PICK q \in Mobiles : m \in resumable[q] \/ m \in AtHold(q)
          BY <1>0, <4>2 DEF PausedKnown
        <5>2. m \in resumable[q] => m \in resumable'[q]
          BY <2>1
        <5>3. m \in AtHold(q) => m \in AtHold(q)'
          BY <2>2, <2>3 DEF AtHold
        <5> QED BY <5>1, <5>2, <5>3
      <4> QED BY <2>5, <3>3, <4>1, <4>2
    <3> QED BY <3>3 DEF PausedKnown
  <2> QED BY <2>1, <2>4, <2>5
<1>5. ASSUME NEW p \in Mobiles, HoldPlayers(p) PROVE PausedKnown'
  <2>1. /\ byUs' = byUs /\ handler[p].step = "hold"
        /\ resumable' = [resumable EXCEPT ![p] = resumable[p] \union handler[p].held]
        /\ \E r : handler' = [handler EXCEPT ![p] = r]
    BY <1>5 DEF HoldPlayers, HeldPlayers, At, Becomes, playerVars
  <2>2. /\ \A q \in Mobiles \ {p} : handler'[q] = handler[q] /\ resumable'[q] = resumable[q]
        /\ resumable'[p] = resumable[p] \union AtHold(p)
    BY <1>0, <2>1 DEF AtHold
  <2>3. ASSUME NEW m \in byUs' PROVE \E q \in Mobiles : m \in resumable'[q] \/ m \in AtHold(q)'
    <3>1. PICK q \in Mobiles : m \in resumable[q] \/ m \in AtHold(q)
      BY <1>0, <2>1, <2>3 DEF PausedKnown
    <3>2. CASE q = p
      BY <2>2, <3>1, <3>2
    <3>3. CASE q # p
      BY <2>2, <3>1, <3>3 DEF AtHold
    <3> QED BY <3>2, <3>3
  <2> QED BY <2>3 DEF PausedKnown
<1>6. ASSUME NEW p \in Mobiles, CallOver(p) PROVE PausedKnown'
  <2>1. /\ byUs' = byUs \ resumable[p] /\ handler[p].step = "close"
        /\ resumable' = [resumable EXCEPT ![p] = {}] /\ handler' = [handler EXCEPT ![p] = Idle]
    BY <1>6 DEF CallOver, At, Becomes
  <2>2. \A q \in Mobiles \ {p} : handler'[q] = handler[q] /\ resumable'[q] = resumable[q]
    BY <1>0, <2>1
  <2>3. AtHold(p) = {}
    BY <2>1 DEF AtHold
  <2>4. ASSUME NEW m \in byUs' PROVE \E q \in Mobiles : m \in resumable'[q] \/ m \in AtHold(q)'
    <3>1. PICK q \in Mobiles : m \in resumable[q] \/ m \in AtHold(q)
      BY <1>0, <2>1, <2>4 DEF PausedKnown
    <3>2. q # p
      BY <2>1, <2>3, <2>4, <3>1
    <3> QED BY <2>2, <3>1, <3>2 DEF AtHold
  <2> QED BY <2>4 DEF PausedKnown
<1>7. ASSUME NEW p \in Mobiles,
             \/ RetellCall(p) \/ DismissOnPhone(p) \/ LinkGoes(p) \/ LinkComes(p) \/ ReadRemoved(p)
             \/ \E s \in CallStates : CallEvent(p, s)
             \/ \E n \in {0} \union Notes : Hush(p, n)
             \/ \E n \in Notes : Post(p, n) \/ RemoveNote(p, n) \/ Dismiss(p, n)
      PROVE  byUs' \subseteq byUs /\ UNCHANGED <<resumable, handler>>
  BY <1>7 DEF RetellCall, DismissOnPhone, LinkGoes, LinkComes, ReadRemoved, CallEvent, Hush, Post, RemoveNote,
     Dismiss, TellPC, Happens, playerVars
<1>8. ASSUME UserCloses \/ SignalComes \/ OnClosed \/ \E m \in Players : UserPlays(m)
      PROVE  byUs' \subseteq byUs /\ UNCHANGED <<resumable, handler>>
  BY <1>8 DEF UserCloses, SignalComes, OnClosed, UserPlays, playerVars
<1>9. CASE UNCHANGED eVars
  BY <1>2, <1>9 DEF eVars
<1> QED
  BY <1>2, <1>3, <1>4, <1>5, <1>6, <1>7, <1>8, <1>9 DEF EventsNext

LEMMA CallsKeep == CallInv /\ [EventsNext]_eVars => CallInv'
<1> SUFFICES ASSUME CallInv, [EventsNext]_eVars PROVE CallInv'
  OBVIOUS
<1>1. ETyped' /\ PausedKnown'
  BY TypesKeep, PausedKeeps DEF CallInv
<1> SUFFICES ASSUME NEW q \in Mobiles PROVE CallKnown(q)'
  BY <1>1 DEF CallInv
<1>2. CASE UNCHANGED eVars
  BY <1>2, CallStays DEF eVars, CallInv, CallAlone, Ringing
<1>3. CASE EventsNext
  BY <1>3, CallOnPhone, CallShown, CallHandled, CallRead, CallMeanwhile DEF EventsNext
<1> QED
  BY <1>2, <1>3

(* A phone whose call is over, and which got that through, rings on no      *)
(* screen any more, but where the desktop's service failed about it, and   *)
(* once no phone has a call what was paused for one plays again (onCall),  *)
(* however the phones' calls overlapped and whatever the user played and   *)
(* closed meanwhile, unless something was lost with a link.                *)
THEOREM CallsEnd == EventsSpec => []AfterCalls
<1>1. CallInv => AfterCalls
  <2> SUFFICES ASSUME CallInv, ~cut PROVE AfterCalls
    BY DEF AfterCalls
  <2>1. ASSUME NEW p \in Mobiles, call[p] = "none", Handled(p), ~CallMode(handler[p]) PROVE Over(p)
    BY <2>1, NothingSaid DEF CallInv, CallKnown, Told, Handled
  <2>2. ASSUME NEW p \in Callers, call[p] = "none", Handled(p)
        PROVE  p \in Mobiles /\ Over(p) /\ AtHold(p) = {}
    <3>1. p \in Mobiles /\ ~CallMode(handler[p])
      BY <2>2, EventsAssumption DEF Handled, CallMode, Idle
    <3> QED BY <2>1, <2>2, <3>1 DEF Handled, AtHold, Idle
  <2>3. ASSUME NEW p \in Mobiles \ Callers PROVE resumable[p] = {} /\ AtHold(p) = {}
    <3>1. CallKnown(p) /\ ReaderFits(handler[p])
      BY DEF CallInv, ETyped, ReadersOK
    <3>2. call[p] = "none" /\ NoneIn(toldPC[p], CallPackets) /\ ~CallMode(handler[p])
      BY <3>1 DEF CallKnown, OnlyCallers
    <3>3. Over(p)
      BY <3>1, <3>2 DEF CallKnown, Told
    <3> QED BY <3>1, <3>2, <3>3 DEF Over, AtHold, CallMode, ReaderFits
  <2>4. ASSUME NEW p \in Callers, call[p] = "none", Handled(p), NEW s \in screen \ orphans PROVE s[2] # <<p, 0>>
    BY <2>2, <2>4 DEF Over, Ringing
  <2>5. ASSUME \A p \in Callers : call[p] = "none" /\ Handled(p) PROVE byUs = {}
    BY <2>2, <2>3, <2>5 DEF CallInv, PausedKnown, Over
  <2> QED BY <2>4, <2>5 DEF AfterCalls
<1> QED
  BY <1>1, CallsStart, CallsKeep, PTL DEF EventsSpec

-----------------------------------------------------------------------------
(* Status packets.  What is counted has been noted: a help that was made   *)
(* is offered, and a warning that was made is warned.                      *)
HelpNoted    == offers \in {0, 1} /\ (offers = 1 => offered)
WarningNoted == warnings \in {0, 1} /\ (warnings = 1 => warned)
OutageInv    == OutageOK /\ HelpNoted /\ WarningNoted

LEMMA OutageStarts == OutageInit => OutageInv
<1> SUFFICES ASSUME OutageInit PROVE OutageInv
  OBVIOUS
<1>1. OutageOK
  BY DEF OutageInit, OutageOK, Battery
<1>2. HelpNoted /\ WarningNoted
  BY DEF OutageInit, HelpNoted, WarningNoted
<1> QED
  BY <1>1, <1>2 DEF OutageInv

(* No action touches both the offers and the warnings. *)
LEMMA OutageSteps == OutageInv /\ [OutageNext]_outageVars => OutageInv'
<1> SUFFICES ASSUME OutageInv, [OutageNext]_outageVars PROVE OutageInv'
  OBVIOUS
<1>1. HelpNoted /\ WarningNoted /\ OutageOK
  BY DEF OutageInv
<1>2. WarningNoted'
  <2>1. CASE Warn
    <3>1. \/ ~warned /\ warned' /\ warnings' = warnings + 1
          \/ warnings' = 0
          \/ warned' = warned /\ warnings' = warnings
      BY <2>1 DEF Warn
    <3> QED BY <1>1, <3>1 DEF WarningNoted
  <2>2. CASE UNCHANGED batteryVars
    BY <1>1, <2>2 DEF batteryVars, WarningNoted
  <2> QED
    BY <2>1, <2>2 DEF OutageNext, LinkChanges, InternetChanges, StatusPacket, Offer, Fires, Notifies, batteryVars,
       outageVars
<1>3. HelpNoted'
  <2>1. CASE Offer
    <3>1. \/ offers' = 0
          \/ offered' = offered /\ offers' = offers
      BY <2>1 DEF Offer, helpVars
    <3> QED BY <1>1, <3>1 DEF HelpNoted
  <2>2. ASSUME NEW t \in Timers, Notifies(t) PROVE HelpNoted'
    BY <1>1, <2>2 DEF Notifies, HelpNoted
  <2>3. CASE UNCHANGED <<offered, offers>>
    BY <1>1, <2>3 DEF HelpNoted
  <2> QED
    BY <2>1, <2>2, <2>3 DEF OutageNext, LinkChanges, InternetChanges, StatusPacket, Warn, Fires, helpVars, outageVars
<1>4. OutageOK'
  <2>1. offers' \in Nat /\ warnings' \in Nat
    BY <1>2, <1>3 DEF HelpNoted, WarningNoted
  <2>2. known' \in [online : BOOLEAN, battery : Battery]
    BY <1>1 DEF OutageOK, OutageNext, LinkChanges, InternetChanges, StatusPacket, Warn, Offer, Fires, Notifies,
       outageVars
  <2>3. reachable' \in BOOLEAN /\ internet' \in BOOLEAN
    BY <1>1 DEF OutageOK, OutageNext, LinkChanges, InternetChanges, StatusPacket, Warn, Offer, Fires, Notifies,
       outageVars
  <2>4. reader' \in {"wait", "warn", "offer"}
    BY <1>1 DEF OutageOK, OutageNext, LinkChanges, InternetChanges, StatusPacket, Warn, Offer, Fires, Notifies,
       outageVars
  <2>5. warned' \in BOOLEAN /\ offered' \in BOOLEAN
    BY <1>1 DEF OutageOK, OutageNext, LinkChanges, InternetChanges, StatusPacket, Warn, Offer, Fires, Notifies,
       outageVars, batteryVars, helpVars
  <2>6. timers' \in [Timers -> {"unused", "runs", "offers", "over"}]
    BY <1>1 DEF OutageOK, OutageNext, LinkChanges, InternetChanges, StatusPacket, Warn, Offer, Fires, Notifies,
       outageVars, batteryVars, helpVars
  <2> QED
    BY <2>1, <2>2, <2>3, <2>4, <2>5, <2>6 DEF OutageOK
<1> QED
  BY <1>2, <1>3, <1>4 DEF OutageInv

LEMMA OutageAlways == OutageSpec => []OutageInv
  BY OutageStarts, OutageSteps, PTL DEF OutageSpec

(* Types of what the computer makes of a phone's status packets.           *)
THEOREM OutageTypeCorrect == OutageSpec => []OutageOK
<1>1. OutageInv => OutageOK
  BY DEF OutageInv
<1> QED
  BY <1>1, OutageAlways, PTL

(* The list of notifications follows the phone, and the computer offers    *)
(* its internet once per outage and warns once per low battery             *)
(* (offerInternetHelp, onStatus), whatever timers of this and of earlier   *)
(* outages are late.                                                       *)
THEOREM NoticesStayTrue == EventsSpec /\ OutageSpec => []NoticesTrue
<1>1. ListFollowsPhone /\ OutageInv => NoticesTrue
  BY DEF NoticesTrue, OncePerOutage, OutageInv, HelpNoted, WarningNoted
<1> QED
  BY <1>1, ListFollows, OutageAlways, PTL
=============================================================================
