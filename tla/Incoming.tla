------------------------------ MODULE Incoming ------------------------------
(***************************************************************************)
(* Connections that arrive at a computer (desktop/internal/transfer/       *)
(* server.go HandleConn, HandlePaired, serve) and what their clients do:   *)
(* a text sender with its deadline, others that talk, fall silent or hang  *)
(* up as they like.  The user answers the offer that is on the screen.     *)
(*                                                                         *)
(* A paired client says four things: magic, hello, its half of the         *)
(* handshake, offer.  Any other says two: the prefix and the body of its   *)
(* offer.  The streaming of files is module Transfer.                      *)
(***************************************************************************)
EXTENDS Integers, FiniteSets

CONSTANTS
  Arrivals,  \* connections (each is used once)
  Ids,       \* the transfer ids that clients give their offers
  Wants,     \* [Arrivals -> what its client may be and want]
  NoOffer    \* no offer is on the screen

ASSUME InAssumption == NoOffer \notin Arrivals

VARIABLES
  running,   \* whether the program runs
  keyed,     \* whether this computer is in a group
  kind,      \* [Arrivals -> what the client is and wants]
  said,      \* [Arrivals -> things it has said]
  hungUp,    \* connections the client has closed
  step,      \* [Arrivals -> where the handler is]
  timed,     \* connections with a read deadline
  paired,    \* connections whose offer is marked as from a paired device
  verdict,   \* [Arrivals -> byte sent to the client: "none", "accept", "reject"]
  told,      \* [Arrivals -> what a text's sender told its user]
  pending,   \* pendingOffers: [Ids -> the connection whose channel is there, or NoOffer]
  asking,    \* [Arrivals -> its offer's channel: "no" channel, "waiting" for an answer, or the answer]
  screen,    \* the offer on the screen, or NoOffer
  by,        \* history: [Arrivals -> the offer on the screen that the accept it got was meant for]
  shown      \* the texts that were shown

inVars == <<running, keyed, kind, said, hungUp, step, timed, paired, verdict, told, pending,
            asking, screen, by, shown>>
clientVars == <<said, hungUp, told>>
appVars == <<pending, asking, screen, by, shown>>

(* A member speaks the encrypted protocol with this group's key, a         *)
(* stranger with another; a plain client does not, and a liar's plain      *)
(* offer says it comes from a paired device.  Nothing keeps two clients    *)
(* from giving the same id.                                                *)
Kinds   == [who : {"member", "stranger", "plain", "liar"}, action : {"text", "offer", "link"}, id : Ids]
Encrypted(c) == kind[c].who \in {"member", "stranger"}
Reading == {"first", "hello", "shake", "body", "offer"}
Steps   == Reading \union {"new", "shaken", "serve", "tell", "ask", "ack", "show", "link", "stream", "closed"}

InOK ==
  /\ running \in BOOLEAN /\ keyed \in BOOLEAN
  /\ kind \in [Arrivals -> Kinds] /\ paired \subseteq Arrivals /\ said \in [Arrivals -> 0..4]
  /\ hungUp \subseteq Arrivals /\ timed \subseteq Arrivals
  /\ step \in [Arrivals -> Steps]
  /\ verdict \in [Arrivals -> {"none", "accept", "reject"}]
  /\ told \in [Arrivals -> {"nothing", "sent", "error"}]
  /\ pending \in [Ids -> Arrivals \union {NoOffer}]
  /\ asking \in [Arrivals -> {"no", "waiting", "accept", "reject"}]
  /\ screen \in Arrivals \union {NoOffer} /\ by \in [Arrivals -> Arrivals \union {NoOffer}]
  /\ shown \subseteq Arrivals

InInit ==
  /\ running = TRUE /\ keyed \in BOOLEAN
  /\ kind \in [Arrivals -> Kinds] /\ (\A c \in Arrivals : kind[c] \in Wants[c])
  /\ paired = {} /\ said = [c \in Arrivals |-> 0]
  /\ hungUp = {} /\ timed = {}
  /\ step = [c \in Arrivals |-> "new"]
  /\ verdict = [c \in Arrivals |-> "none"] /\ told = [c \in Arrivals |-> "nothing"]
  /\ pending = [i \in Ids |-> NoOffer] /\ asking = [c \in Arrivals |-> "no"]
  /\ screen = NoOffer /\ by = [c \in Arrivals |-> NoOffer] /\ shown = {}

-----------------------------------------------------------------------------
(* The client. *)

ServerVars == <<running, keyed, kind, step, timed, paired, verdict, appVars>>

Say(c) ==
  /\ step[c] # "new" /\ c \notin hungUp
  /\ said[c] < (IF Encrypted(c) THEN 4 ELSE 2)
  /\ said' = [said EXCEPT ![c] = @ + 1]
  /\ UNCHANGED <<ServerVars, hungUp, told>>

HangUp(c) ==
  /\ step[c] # "new" /\ c \notin hungUp
  /\ kind[c].action = "text" => told[c] # "nothing"
  /\ hungUp' = hungUp \union {c}
  /\ UNCHANGED <<ServerVars, said, told>>

(* SendText: the verdict, the connection's end or the deadline of ten      *)
(* seconds ends the wait.                                                  *)
TextEnds(c) ==
  /\ kind[c].action = "text" /\ told[c] = "nothing" /\ step[c] # "new"
  /\ \E r \in {"sent", "error"} :
       /\ r = "sent" => verdict[c] = "accept"
       /\ told' = [told EXCEPT ![c] = r]
  /\ UNCHANGED <<ServerVars, said, hungUp>>

-----------------------------------------------------------------------------
(* The handler. *)

Goto(c, s) == step' = [step EXCEPT ![c] = s]

Accept(c) ==
  /\ running /\ step[c] = "new"
  /\ Goto(c, "first") /\ timed' = timed \union {c}
  /\ UNCHANGED <<running, keyed, kind, paired, verdict, clientVars, appVars>>

(* How many things a handler at this step has taken in. *)
Taken == [first |-> 0, hello |-> 1, shake |-> 2, body |-> 1, offer |-> 3]

(* The first bytes tell a hello from an offer. *)
ReadPrefix(c) ==
  /\ step[c] = "first" /\ Goto(c, IF Encrypted(c) THEN "hello" ELSE "body")
  /\ UNCHANGED <<timed, paired>>

(* No key, no handshake. *)
ReadHello(c) ==
  /\ step[c] = "hello" /\ Goto(c, IF keyed THEN "shake" ELSE "closed")
  /\ UNCHANGED <<timed, paired>>

(* Handshake sets its own deadline and clears it when it returns. *)
ReadShake(c) ==
  /\ step[c] = "shake" /\ Goto(c, IF kind[c].who = "member" THEN "shaken" ELSE "closed")
  /\ timed' = timed \ {c}
  /\ UNCHANGED paired

(* Wrong variant: what the offer says of itself is believed. *)
ReadBody_Believed(c) ==
  /\ step[c] = "body" /\ Goto(c, "serve")
  /\ timed' = timed \ {c}
  /\ paired' = IF kind[c].who = "liar" THEN paired \union {c} ELSE paired

(* Whatever the offer says, its sender is not a paired device. *)
ReadBody(c) ==
  /\ step[c] = "body" /\ Goto(c, "serve")
  /\ timed' = timed \ {c}
  /\ UNCHANGED paired

ReadOffer(c) ==
  /\ step[c] = "offer" /\ Goto(c, IF kind[c].action = "link" THEN "ack" ELSE "serve")
  /\ timed' = timed \ {c}
  /\ paired' = paired \union {c}

Read(c) ==
  /\ running /\ step[c] \in Reading /\ said[c] > Taken[step[c]]
  /\ ReadPrefix(c) \/ ReadHello(c) \/ ReadShake(c) \/ ReadBody(c) \/ ReadOffer(c)
  /\ UNCHANGED <<running, keyed, kind, verdict, clientVars, appVars>>

(* Wrong variant: the deadline of the first read is thought to last. *)
Shaken_NoDeadline(c) ==
  /\ running /\ step[c] = "shaken"
  /\ Goto(c, "offer") /\ UNCHANGED timed
  /\ UNCHANGED <<running, keyed, kind, paired, verdict, clientVars, appVars>>

(* HandlePaired gives the offer a deadline of its own. *)
Shaken(c) ==
  /\ running /\ step[c] = "shaken"
  /\ Goto(c, "offer") /\ timed' = timed \union {c}
  /\ UNCHANGED <<running, keyed, kind, paired, verdict, clientVars, appVars>>

(* A read ends without what was wanted: the deadline, the client's hanging *)
(* up, or something that does not parse.                                   *)
ReadEnds(c) ==
  /\ running /\ step[c] \in Reading
  /\ c \in timed \/ c \in hungUp \/ said[c] > Taken[step[c]]
  /\ Goto(c, "closed") /\ timed' = timed \ {c}
  /\ UNCHANGED <<running, keyed, kind, paired, verdict, clientVars, appVars>>

(* serve: a paired device's files are taken, another's are asked about;    *)
(* its channel takes the place of an earlier one under the same id.        *)
Serve(c) ==
  /\ running /\ step[c] = "serve"
  /\ CASE kind[c].action = "text" ->
            \/ Goto(c, "ack") /\ UNCHANGED <<asking, pending>>
            \/ Goto(c, "closed") /\ UNCHANGED <<asking, pending>>   \* empty or too long
       [] kind[c].action = "offer" /\ c \in paired ->
            Goto(c, "ack") /\ UNCHANGED <<asking, pending>>
       [] kind[c].action = "offer" /\ c \notin paired ->
            /\ Goto(c, "tell")
            /\ asking' = [asking EXCEPT ![c] = "waiting"]
            /\ pending' = [pending EXCEPT ![kind[c].id] = c]
       [] OTHER -> Goto(c, "closed") /\ UNCHANGED <<asking, pending>>
  /\ verdict' = IF kind[c].action = "text" /\ step'[c] = "closed"
                  THEN [verdict EXCEPT ![c] = "reject"] ELSE verdict
  /\ UNCHANGED <<running, keyed, kind, timed, paired, clientVars, screen, by, shown>>

(* The screen shows one offer, the last it was told of. *)
Tell(c) ==
  /\ running /\ step[c] = "tell"
  /\ Goto(c, "ask") /\ screen' = c
  /\ UNCHANGED <<running, keyed, kind, timed, paired, verdict, clientVars, pending, asking, by, shown>>

(* AcceptOffer, RejectOffer, for the id of the offer on the screen: the    *)
(* answer goes to whichever connection is in the map under it, whose       *)
(* channel holds one; it is lost if there is none or the channel is full.  *)
Answer(v) ==
  /\ running /\ screen # NoOffer
  /\ LET c == pending[kind[screen].id] IN
       IF c # NoOffer /\ asking[c] = "waiting"
         THEN /\ asking' = [asking EXCEPT ![c] = v]
              /\ by' = IF v = "accept" THEN [by EXCEPT ![c] = screen] ELSE by
         ELSE UNCHANGED <<asking, by>>
  /\ screen' = NoOffer
  /\ UNCHANGED <<running, keyed, kind, step, timed, paired, verdict, clientVars, pending, shown>>

(* The handler takes the answer and deletes what is under its id, which    *)
(* may be another's channel by now.                                        *)
Answered(c) ==
  /\ running /\ step[c] = "ask" /\ asking[c] \in {"accept", "reject"}
  /\ Goto(c, IF asking[c] = "accept" THEN "ack" ELSE "closed")
  /\ verdict' = IF asking[c] = "reject" THEN [verdict EXCEPT ![c] = "reject"] ELSE verdict
  /\ asking' = [asking EXCEPT ![c] = "no"]
  /\ pending' = [pending EXCEPT ![kind[c].id] = NoOffer]
  /\ UNCHANGED <<running, keyed, kind, timed, paired, clientVars, screen, by, shown>>

(* The accept byte is written; the write fails only if the client is gone. *)
Ack(c) ==
  /\ running /\ step[c] = "ack"
  /\ \/ /\ verdict' = [verdict EXCEPT ![c] = "accept"]
        /\ Goto(c, CASE kind[c].action = "text" -> "show" [] kind[c].action = "link" -> "link"
                     [] OTHER -> "stream")
     \/ c \in hungUp /\ Goto(c, "closed") /\ UNCHANGED verdict
  /\ UNCHANGED <<running, keyed, kind, timed, paired, clientVars, appVars>>

(* OnText. *)
Show(c) ==
  /\ running /\ step[c] = "show"
  /\ shown' = shown \union {c}
  /\ Goto(c, "closed")
  /\ UNCHANGED <<running, keyed, kind, timed, paired, verdict, clientVars, pending, asking, screen, by>>

(* The program ends, and its handlers with it. *)
Quit ==
  /\ running /\ running' = FALSE
  /\ step' = [c \in Arrivals |-> IF step[c] = "new" THEN "new" ELSE "closed"]
  /\ UNCHANGED <<keyed, kind, timed, paired, verdict, clientVars, appVars>>

HandlerStep(c) ==
  \/ Accept(c) \/ Read(c) \/ Shaken(c) \/ ReadEnds(c) \/ Serve(c) \/ Tell(c) \/ Answered(c)
  \/ Ack(c) \/ Show(c)

InNext ==
  \/ \E c \in Arrivals : HandlerStep(c) \/ Say(c) \/ HangUp(c) \/ TextEnds(c)
  \/ \E v \in {"accept", "reject"} : Answer(v)
  \/ Quit

InSpec == InInit /\ [][InNext]_inVars

(* Handlers run on and deadlines pass; clients and the user owe nothing.   *)
InFairness == \A c \in Arrivals : WF_inVars(HandlerStep(c))
InFairSpec == InSpec /\ InFairness

-----------------------------------------------------------------------------
(* HandleConn: a client that goes silent at any point holds its handler    *)
(* only until a deadline; what is left is a link, a stream, or an offer    *)
(* the user has not answered.  And OnText: a text its sender reports as    *)
(* sent gets shown, unless the receiving program ends.  (One it reports as *)
(* failed may be shown too.)                                               *)
HandlersEnd ==
  \A c \in Arrivals :
    []<>(/\ step[c] \in {"new", "closed", "link", "stream", "ask"}
         /\ told[c] = "sent" => c \in shown \/ ~running)

(* OnOffer: files come in from those who proved this computer's key, or    *)
(* because the user accepted an offer of that id on the screen, one such   *)
(* offer for each who comes in; links only from the former.  (Under one id *)
(* the accept may reach another's connection than the offer shown; whoever *)
(* gives an id of its own comes in by its very offer.)                     *)
NothingUnasked ==
  /\ \A c \in Arrivals :
       /\ step[c] = "stream" =>
            \/ kind[c].who = "member" /\ keyed
            \/ by[c] # NoOffer /\ kind[by[c]].id = kind[c].id
       /\ step[c] = "link" => kind[c].who = "member" /\ keyed
  /\ \A c, d \in Arrivals : by[c] = by[d] /\ c # d => by[c] = NoOffer
=============================================================================
