------------------------------- MODULE MCSafety ------------------------------
(* The parts where something must never happen, each on small instances of *)
(* its own: the transfer of files, the encrypted pipe, the link's requests, *)
(* saved files and their history, contacts, unlocking, calls and            *)
(* notifications, clipboards and outages.  They share no state that these   *)
(* modules tell apart; part says which instance a behaviour is of.          *)
EXTENDS MCTransfer, SavedFiles, LinkRequests, Contacts, Unlock, Clipboard, PhoneNotices

VARIABLES
  part,
  ends, wmu, written, writing, wCount, stream, rCount, garbled, intact, got, breaks

(* Two incoming transfers, the first of two files of the name in use.      *)
Asking == [t1 |-> <<<<>>, <<>>>>, t2 |-> <<<<1>>>>]

(* The phone of the lock; the one login service; the one attempt.          *)
UnlockServices == <<"gdm">>
UnlockAttempts == {<<"try", 1>>}
UnlockService  == [a \in UnlockAttempts |-> "gdm"]

(* A computer and a phone, or two computers, which ask each other.         *)
LinkEnds == {[a |-> "r", b |-> "p"], [a |-> "r", b |-> "r"]}
Requests == [a |-> 2, b |-> 1]

(* Contacts of two parts; when all are removed nothing is sent.            *)
ContactParts == <<2, 0, 2>>

Pipe == INSTANCE SecurePipe WITH
  Messages <- {"m1", "m2", "m3"}, Frames <- [m1 |-> 2, m2 |-> 1, m3 |-> 2],
  None <- "none", MaxBreaks <- 2, wire <- stream

NamesBefore == {<<>>}

(* What each phone may tell. *)
EventBounds == [a |-> 3, b |-> 2]

pipeVars == <<ends, wmu, written, writing, wCount, stream, rCount, garbled, intact, got, breaks>>
lateVars == <<clipVars, outageVars>>
allVars ==
  <<part, vars, rVars, pipeVars, sVars, cVars, uVars, eVars, lateVars>>

SafetyInit ==
  /\ part \in {"transfer", "requests", "pipe", "saved", "books", "login", "setups",
              "overlaps", "calls", "notices", "clips", "outages"}
  /\ Init /\ RequestsInit /\ UnlockInit /\ Pipe!Init /\ SavedInit /\ ContactsInit /\ ClipInit /\ OutageInit /\ EventsInit
  /\ part # "transfer" => /\ disk = [t \in Transfers |-> [f \in Files |-> 1]]
                          /\ \A t \in Transfers : ex[t] = CHOOSE b \in Batch : TRUE
  /\ \A t \in Transfers : disk[t][1] + disk[t][2] <= 3   \* bytes in two files
  /\ part # "pipe" => ends.agree
  /\ part # "requests" => letter["b"] = "p"
  /\ part # "outages" => internet
  /\ \A p \in Mobiles : part # "notices" \/ p = "b" => hushed[p] = {}
  /\ playing = IF part = "overlaps" THEN {"m1"} ELSE Players

SafetyNext ==
  \/ /\ part = "transfer" /\ Next
     /\ \A t \in Transfers : (ex[t].paired /\ ex[t].room) \/ touches' + faults' <= 1
     /\ UNCHANGED <<part, rVars, pipeVars, sVars, cVars, uVars, eVars, lateVars>>
  \/ /\ part = "requests" /\ RequestsNext
     /\ letter["b"] = "r" => pings' = 0   \* pings between a computer and a phone
     /\ UNCHANGED <<part, vars, pipeVars, sVars, cVars, uVars, eVars, lateVars>>
  \/ /\ part = "pipe" /\ Pipe!Next
     /\ UNCHANGED <<part, vars, rVars, sVars, cVars, uVars, eVars, lateVars>>
  \/ /\ part = "saved" /\ SavedNext
     /\ UNCHANGED <<part, vars, rVars, pipeVars, cVars, uVars, eVars, lateVars>>
  \/ /\ part = "books" /\ ContactsNext
     /\ UNCHANGED <<part, vars, rVars, pipeVars, sVars, uVars, eVars, lateVars>>
  \/ /\ UnlockNext
     /\ \/ part = "login" /\ root'["other"] = root["other"]  \* one user and one login with the phone
        \/ part = "setups" /\ tryVars' = tryVars         \* two users who set it up and remove it
     /\ UNCHANGED <<part, vars, rVars, pipeVars, sVars, cVars, eVars, lateVars>>
  \/ /\ EventsNext
     /\ \/ part = "overlaps" /\ moves' = 0 /\ notes' = notes   \* calls of two phones, told of once;
           /\ (events' # events => call' # call /\ toldPC' # toldPC)  \* the desktop answers or is gone
           /\ orphans' = orphans /\ \A i \in DOMAIN signalled' : ~signalled'[i][2]
        \/ part = "calls" /\ events'["b"] = 0 /\ "b" \in linkedTo' /\ notes' = notes \* players, lost links
           /\ hushed' = hushed
        \/ part = "notices" /\ events'["b"] = 0 /\ "b" \in linkedTo' /\ hushed'["b"] = {}
           /\ call' = call /\ playing' = playing /\ orphans' = orphans \* one phone, a desktop that does not fail
     /\ UNCHANGED <<part, vars, rVars, pipeVars, sVars, cVars, uVars, lateVars>>
  \/ /\ part = "clips" /\ ClipNext
     /\ parted' \subseteq {"a"}   \* the helper of one fails
     /\ UNCHANGED <<part, vars, rVars, pipeVars, sVars, cVars, uVars, eVars, outageVars>>
  \/ /\ part = "outages" /\ OutageNext
     /\ UNCHANGED <<part, vars, rVars, pipeVars, sVars, cVars, uVars, eVars, clipVars>>

(* Only the transfer has something that must happen in the end. *)
TransferFairness ==
  \A t \in Transfers :
    /\ WF_vars(part = "transfer" /\ ReadOffer(t))
    /\ WF_vars(part = "transfer" /\ ReadVerdict(t))
    /\ WF_vars(part = "transfer" /\ NoVerdict(t))
    /\ WF_vars(part = "transfer" /\ SenderStep(t))
    /\ WF_vars(part = "transfer" /\ ReceiverStep(t))

SafetySpec == SafetyInit /\ [][SafetyNext]_allVars /\ TransferFairness

-----------------------------------------------------------------------------
(* Every variable of the part has its type. *)
TypesOK ==
  CASE part = "transfer" -> TypeOK
    [] part = "requests" -> RequestsOK
    [] part = "pipe"     -> Pipe!TypeOK
    [] part = "saved"    -> SavedOK
    [] part = "books"    -> BooksOK
    [] part = "login"    -> UnlockOK
    [] part = "setups"   -> UnlockOK
    [] part = "overlaps" -> EventsOK
    [] part = "calls"    -> EventsOK
    [] part = "notices"  -> EventsOK
    [] part = "clips"    -> ClipOK
    [] part = "outages"  -> OutageOK

(* The pipe implements OrderedPipe. *)
KeepsPromise == Pipe!KeepsPromise
=============================================================================
