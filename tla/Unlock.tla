------------------------------- MODULE Unlock -------------------------------
(***************************************************************************)
(* Unlocking a computer with a phone's fingerprint: palt-unlock, which PAM *)
(* runs as root (desktop/cmd/palt-unlock/main.go), the program of the user *)
(* "me" that carries its challenges to a phone (desktop/unlock_app.go),    *)
(* and the phone, which signs one after a fingerprint.  Setting it up and  *)
(* turning it off go through palt-unlock as well; other users of the       *)
(* computer do the same.  A key is a number and a signature the number of  *)
(* the key that made it; a challenge is unlike any other.                  *)
(***************************************************************************)
EXTENDS Integers, FiniteSets, Sequences, SequencesExt

CONSTANTS
  Signers,            \* the phones: numbers from 1
  Users, Me,          \* Me \in Users
  Services,           \* the PAM services, in order
  Attempts,           \* uses of PAM, as pairs <<"try", number>>
  Service,            \* [Attempts -> member of Services]
  MaxKeys             \* bound on setups of any user

ASSUME UnlockAssumption ==
  /\ Signers \subseteq Nat \ {0} /\ Me \in Users /\ MaxKeys \in Nat
  /\ Services \in Seq(Range(Services)) /\ Service \in [Attempts -> Range(Services)]

VARIABLES
  up,        \* phones linked
  phoneKey,  \* [Signers -> key it has for this computer, 0 for none]
  keys,      \* keys made so far
  setup,     \* SetupUnlock: its step, phone and key
  forgets,   \* phones that "unlock.forget" is on its way to
  config,    \* unlock.json: the phone, or 0
  root,      \* [Users -> what palt-unlock, run by pkexec, is at]
  installs,  \* [Users -> the key it is to install]
  next,      \* [Users -> number of the service it does next]
  trusted,   \* [Users -> key in /etc/palt/unlock, 0 for none]
  lined,     \* services whose file has PALT's lines
  broken,    \* a removal broke off after the key was gone
  try,       \* [Attempts -> what authenticate is at]
  tryKey,    \* [Attempts -> the key it has read]
  carrying,  \* [Attempts -> what the program's serveUnlock is at]
  carries,   \* [Attempts -> the phone it carries the challenge to]
  asks,      \* [challenges -> "no", "asked", "answered" or "failed"]
  askedOf,   \* [challenges -> the phone asked, or 0]
  answer,    \* [challenges -> the signature in the reply, 0 for an error]
  fingers    \* [challenges -> key that signed it after a fingerprint]

uVars == <<up, phoneKey, keys, setup, forgets, config, root, installs, next, trusted, lined,
           broken, try, tryKey, carrying, carries, asks, askedOf, answer, fingers>>
rootVars   == <<root, installs, next, trusted, lined, broken>>
tryVars    == <<try, tryKey, carrying, carries>>
signVars   == <<asks, askedOf, answer, fingers>>
setupVars  == <<setup, forgets, config>>
phoneVars  == <<up, phoneKey, keys>>

SetupAsks  == {<<"setup", k>> : k \in 1..MaxKeys}
Challenges == Attempts \union SetupAsks
Keys       == 0..MaxKeys
NoSetup    == [step |-> "no", phone |-> 0, key |-> 0]
Installing == {"key", "lines"}
Removing   == {"forget", "unline"}

UnlockOK ==
  /\ up \subseteq Signers /\ forgets \subseteq Signers /\ config \in Signers \union {0}
  /\ phoneKey \in [Signers -> Keys] /\ keys \in Keys
  /\ setup.step \in {"no", "ask", "prove", "root", "remove"} /\ setup.key \in Keys
  /\ root \in [Users -> {"no", "done", "failed"} \union Installing \union Removing]
  /\ trusted \in [Users -> Keys] /\ installs \in [Users -> Keys]
  /\ next \in [Users -> 1..Len(Services) + 1] /\ lined \subseteq Range(Services)
  /\ broken \in BOOLEAN
  /\ try \in [Attempts -> {"no", "sent", "passed", "refused"}] /\ tryKey \in [Attempts -> Keys]
  /\ carrying \in [Attempts -> {"no", "got", "asking", "over"}]
  /\ carries \in [Attempts -> Signers \union {0}]
  /\ asks \in [Challenges -> {"no", "asked", "answered", "failed"}]
  /\ askedOf \in [Challenges -> Signers \union {0}]
  /\ answer \in [Challenges -> Keys] /\ fingers \in [Challenges -> Keys]

UnlockInit ==
  /\ up = {} /\ phoneKey = [p \in Signers |-> 0] /\ keys = 0
  /\ setup = NoSetup /\ forgets = {} /\ config = 0
  /\ root = [u \in Users |-> "no"] /\ installs = [u \in Users |-> 0]
  /\ next = [u \in Users |-> 1] /\ trusted = [u \in Users |-> 0] /\ lined = {} /\ broken = FALSE
  /\ try = [a \in Attempts |-> "no"] /\ tryKey = [a \in Attempts |-> 0]
  /\ carrying = [a \in Attempts |-> "no"] /\ carries = [a \in Attempts |-> 0]
  /\ asks = [c \in Challenges |-> "no"] /\ askedOf = [c \in Challenges |-> 0]
  /\ answer = [c \in Challenges |-> 0] /\ fingers = [c \in Challenges |-> 0]

-----------------------------------------------------------------------------
(* unlockSign: one challenge to a phone. *)

(* Both find the link of the phone anew and fail without it. *)
AskPhone(c, p) ==
  /\ asks' = [asks EXCEPT ![c] = IF p \in up THEN "asked" ELSE "failed"]
  /\ askedOf' = [askedOf EXCEPT ![c] = IF p \in up THEN p ELSE 0]
  /\ UNCHANGED <<answer, fingers>>

(* The phone has signed after a fingerprint, or it answers with an error:  *)
(* no key, cancelled, too late.                                            *)
PhoneSigns(c) ==
  LET k == phoneKey[askedOf[c]] IN
  /\ askedOf[c] # 0 /\ fingers[c] = 0 /\ k # 0
  /\ fingers' = [fingers EXCEPT ![c] = k]
  /\ IF asks[c] = "asked"
     THEN asks' = [asks EXCEPT ![c] = "answered"] /\ answer' = [answer EXCEPT ![c] = k]
     ELSE UNCHANGED <<asks, answer>>
  /\ UNCHANGED <<askedOf, phoneVars, setupVars, rootVars, tryVars>>

PhoneRefuses(c) ==
  /\ asks[c] = "asked"
  /\ asks' = [asks EXCEPT ![c] = "answered"]
  /\ UNCHANGED <<askedOf, answer, fingers, phoneVars, setupVars, rootVars, tryVars>>

(* Request gives up after unlockAsk. *)
AskTimeout(c) ==
  /\ asks[c] = "asked"
  /\ asks' = [asks EXCEPT ![c] = "failed"]
  /\ UNCHANGED <<askedOf, answer, fingers, phoneVars, setupVars, rootVars, tryVars>>

PhoneUp(p) ==
  /\ p \notin up /\ up' = up \union {p}
  /\ UNCHANGED <<phoneKey, keys, signVars, setupVars, rootVars, tryVars>>

PhoneDown(p) ==
  /\ p \in up /\ up' = up \ {p}
  /\ asks' = [c \in Challenges |-> IF asks[c] = "asked" /\ askedOf[c] = p THEN "failed" ELSE asks[c]]
  /\ UNCHANGED <<phoneKey, keys, askedOf, answer, fingers, setupVars, rootVars, tryVars>>

-----------------------------------------------------------------------------
(* SetupUnlock and DisableUnlock, which the user starts one at a time. *)

(* The phone makes a key in place of the one it has; its reply may be lost *)
(* or it may have no fingerprint to ask for.                               *)
SetupUnlock(p) ==
  /\ setup = NoSetup /\ trusted[Me] = 0 /\ p \in up /\ keys < MaxKeys
  /\ keys' = keys + 1 /\ phoneKey' = [phoneKey EXCEPT ![p] = keys + 1]
  /\ setup' \in {NoSetup, [step |-> "ask", phone |-> p, key |-> keys + 1]}
  /\ UNCHANGED <<up, forgets, config, rootVars, tryVars, signVars>>

AskProof ==
  /\ setup.step = "ask"
  /\ setup' = [setup EXCEPT !.step = "prove"]
  /\ AskPhone(<<"setup", setup.key>>, setup.phone)
  /\ UNCHANGED <<phoneVars, forgets, config, rootVars, tryVars>>

(* Wrong variant: any signature will do. *)
Verifies_AnyKey(c, k) == asks[c] = "answered" /\ answer[c] # 0

Verifies(c, k) == asks[c] = "answered" /\ answer[c] # 0 /\ answer[c] = k

(* One fingerprint shows that the key works; then pkexec asks for the      *)
(* password and runs palt-unlock install.                                  *)
StartRoot(u, op, k) ==
  /\ root[u] = "no"
  /\ root' = [root EXCEPT ![u] = op]
  /\ installs' = [installs EXCEPT ![u] = k] /\ next' = [next EXCEPT ![u] = 1]
  /\ UNCHANGED <<trusted, lined, broken>>

CheckProof ==
  LET c == <<"setup", setup.key>> IN
  /\ setup.step = "prove" /\ asks[c] \in {"answered", "failed"}
  /\ \/ /\ Verifies(c, setup.key)
        /\ setup' = [setup EXCEPT !.step = "root"]
        /\ StartRoot(Me, "key", setup.key)
     \/ setup' = NoSetup /\ UNCHANGED rootVars
  /\ UNCHANGED <<phoneVars, forgets, config, tryVars, signVars>>

DisableUnlock ==
  /\ setup = NoSetup /\ trusted[Me] # 0 /\ config # 0
  /\ setup' = [NoSetup EXCEPT !.step = "remove"]
  /\ StartRoot(Me, "forget", 0)
  /\ UNCHANGED <<phoneVars, forgets, config, tryVars, signVars>>

(* What follows when palt-unlock went well, and when it did not. *)
RootReturns ==
  /\ root[Me] \in {"done", "failed"}
  /\ root' = [root EXCEPT ![Me] = "no"] /\ setup' = NoSetup
  /\ config' = IF root[Me] = "failed" THEN config ELSE setup.phone
  /\ forgets' = IF root[Me] = "done" /\ setup.step = "remove" /\ config \in up
                THEN forgets \union {config} ELSE forgets
  /\ UNCHANGED <<phoneVars, installs, next, trusted, lined, broken, tryVars, signVars>>

(* The phone forgets its key; the request may be lost with the link. *)
Forget(p) ==
  /\ p \in forgets /\ forgets' = forgets \ {p}
  /\ phoneKey' = [phoneKey EXCEPT ![p] = IF p \in up THEN 0 ELSE @]
  /\ UNCHANGED <<up, keys, setup, config, rootVars, tryVars, signVars>>

-----------------------------------------------------------------------------
(* palt-unlock install and uninstall, as root. *)

(* Other users' programs run it too; their phones are left out. *)
OtherRoot(u) ==
  /\ u # Me
  /\ \/ keys < MaxKeys /\ keys' = keys + 1 /\ StartRoot(u, "key", keys + 1)
     \/ UNCHANGED keys /\ StartRoot(u, "forget", 0)
     \/ /\ root[u] \in {"done", "failed"}
        /\ root' = [root EXCEPT ![u] = "no"]
        /\ UNCHANGED <<installs, next, trusted, lined, broken, keys>>
  /\ UNCHANGED <<up, phoneKey, setupVars, tryVars, signVars>>

(* install: the key's file, then the services'. *)
InstallKey(u) ==
  /\ root[u] = "key"
  /\ root' = [root EXCEPT ![u] = "lines"]
  /\ trusted' = [trusted EXCEPT ![u] = installs[u]]
  /\ UNCHANGED <<installs, next, lined, broken>>

(* Wrong variant: the key that is being removed counts. *)
OthersTrust_Before(u) == \E v \in Users : trusted[v] # 0

OthersTrust(u) == \E v \in Users \ {u} : trusted[v] # 0

(* uninstall: the key's file, and the lines once there is no key left. *)
UninstallKey(u) ==
  /\ root[u] = "forget"
  /\ trusted' = [trusted EXCEPT ![u] = 0]
  /\ root' = [root EXCEPT ![u] = IF OthersTrust(u) THEN "done" ELSE "unline"]
  /\ UNCHANGED <<installs, next, lined, broken>>

(* addPAM: a file that has the lines is left as it is. *)
AddLines(u) ==
  /\ root[u] = "lines" /\ next[u] <= Len(Services)
  /\ lined' = lined \union {Services[next[u]]}
  /\ next' = [next EXCEPT ![u] = @ + 1]
  /\ UNCHANGED <<root, installs, trusted, broken>>

RemoveLines(u) ==
  /\ root[u] = "unline" /\ next[u] <= Len(Services)
  /\ lined' = lined \ {Services[next[u]]}
  /\ next' = [next EXCEPT ![u] = @ + 1]
  /\ UNCHANGED <<root, installs, trusted, broken>>

RootDone(u) ==
  /\ root[u] \in {"lines", "unline"} /\ next[u] > Len(Services)
  /\ root' = [root EXCEPT ![u] = "done"]
  /\ UNCHANGED <<installs, next, trusted, lined, broken>>

(* No password, or a file cannot be written: the rest is not done. *)
RootFails(u) ==
  /\ root[u] \in Installing \union Removing
  /\ root' = [root EXCEPT ![u] = "failed"]
  /\ broken' = (broken \/ root[u] = "unline")
  /\ UNCHANGED <<installs, next, trusted, lined>>

RootStep(u) ==
  /\ \/ InstallKey(u) \/ UninstallKey(u) \/ AddLines(u) \/ RemoveLines(u) \/ RootDone(u)
     \/ RootFails(u)
  /\ UNCHANGED <<phoneVars, setupVars, tryVars, signVars>>

-----------------------------------------------------------------------------
(* palt-unlock as PAM runs it, and serveUnlock. *)

(* authenticate: without a key, the program or its socket it refuses, and  *)
(* PAM goes on to the password.                                            *)
Authenticate(a) ==
  /\ try[a] = "no" /\ Service[a] \in lined
  /\ \/ /\ trusted[Me] # 0
        /\ try' = [try EXCEPT ![a] = "sent"] /\ tryKey' = [tryKey EXCEPT ![a] = trusted[Me]]
        /\ carrying' = [carrying EXCEPT ![a] = "got"]
     \/ try' = [try EXCEPT ![a] = "refused"] /\ UNCHANGED <<tryKey, carrying>>
  /\ UNCHANGED <<carries, phoneVars, setupVars, rootVars, signVars>>

(* serveUnlock: the phone is the one in the file. *)
ServeUnlock(a) ==
  /\ carrying[a] = "got"
  /\ \/ /\ config \in up
        /\ carrying' = [carrying EXCEPT ![a] = "asking"] /\ carries' = [carries EXCEPT ![a] = config]
        /\ UNCHANGED try
     \/ /\ config \notin up
        /\ carrying' = [carrying EXCEPT ![a] = "over"] /\ try' = [try EXCEPT ![a] = "refused"]
        /\ UNCHANGED carries
  /\ UNCHANGED <<tryKey, signVars, phoneVars, setupVars, rootVars>>

AskForAttempt(a) ==
  /\ carrying[a] = "asking" /\ asks[a] = "no"
  /\ AskPhone(a, carries[a])
  /\ UNCHANGED <<tryVars, phoneVars, setupVars, rootVars>>

(* The answer goes back, and palt-unlock, if it still waits, checks it. *)
CarryBack(a) ==
  /\ carrying[a] = "asking" /\ asks[a] \in {"answered", "failed"}
  /\ carrying' = [carrying EXCEPT ![a] = "over"]
  /\ try' = [try EXCEPT ![a] = IF @ # "sent" THEN @
                               ELSE IF Verifies(a, tryKey[a]) THEN "passed" ELSE "refused"]
  /\ UNCHANGED <<tryKey, carries, signVars, phoneVars, setupVars, rootVars>>

(* palt-unlock's deadline, or the program ends. *)
AuthTimeout(a) ==
  /\ try[a] = "sent"
  /\ try' = [try EXCEPT ![a] = "refused"]
  /\ UNCHANGED <<tryKey, carrying, carries, signVars, phoneVars, setupVars, rootVars>>

UnlockNext ==
  \/ AskProof \/ CheckProof \/ DisableUnlock \/ RootReturns
  \/ \E p \in Signers : PhoneUp(p) \/ PhoneDown(p) \/ SetupUnlock(p) \/ Forget(p)
  \/ \E c \in Challenges : PhoneSigns(c) \/ PhoneRefuses(c) \/ AskTimeout(c)
  \/ \E u \in Users : OtherRoot(u) \/ RootStep(u)
  \/ \E a \in Attempts :
       Authenticate(a) \/ ServeUnlock(a) \/ AskForAttempt(a) \/ CarryBack(a) \/ AuthTimeout(a)

UnlockSpec == UnlockInit /\ [][UnlockNext]_uVars

-----------------------------------------------------------------------------
(* authenticate: "palt-unlock checks the signature with the phone's public *)
(* key saved under /etc/palt at setup".  Whatever keys are made, trusted,  *)
(* replaced and forgotten meanwhile, an attempt that passes had a          *)
(* fingerprint for its own challenge, with the key that was trusted when   *)
(* it began.                                                               *)
PassedWasTouched ==
  \A a \in Attempts : try[a] = "passed" => fingers[a] = tryKey[a] /\ tryKey[a] # 0

(* uninstall: "palt-unlock uninstall removes this": however the users'     *)
(* installs and removals overlap, the services have PALT's lines only      *)
(* while somebody's key is trusted, unless a removal is at it or broke off *)
(* half-way.                                                               *)
LinesHaveKey ==
  lined # {} => \/ broken \/ \E u \in Users : trusted[u] # 0 \/ root[u] = "unline"
=============================================================================
