----------------------------- MODULE OneChannel -----------------------------
(***************************************************************************)
(* What two devices that may both dial each other, over several paths and  *)
(* at once, promise: there is one channel between them.  It is only ever   *)
(* replaced by a better one that neither has given up; each device serves  *)
(* one connection at most, and does without a connection both had accepted *)
(* only when the channel is better than that.  Identities, probes and      *)
(* tables are how the link managers do it.                                 *)
(***************************************************************************)
CONSTANTS
  Devices,
  Conns,
  None

VARIABLES
  better,   \* pairs of connections of which the first is the better one
  channel,  \* the connection the devices have come to, or None
  using,    \* [Devices -> the connection it serves, or None]
  gone,     \* [Devices -> connections it has given up]
  calm      \* no path has died, and no user has dialed besides

channelVars == <<channel, using, gone, calm>>

Init ==
  /\ channel = None
  /\ using = [d \in Devices |-> None] /\ gone = [d \in Devices |-> {}]
  /\ calm = TRUE

(* The first to serve a connection better than the channel moves it there. *)
Serve(d, c) ==
  /\ using[d] # c /\ c \notin gone[d]
  /\ \/ /\ channel' = c /\ \A e \in Devices : c \notin gone[e]
        /\ channel # None => <<c, channel>> \in better
     \/ /\ channel' = channel /\ channel # None
        /\ c = channel \/ <<channel, c>> \in better
  /\ using[d] # None => <<channel', using[d]>> \in better
  /\ using' = [using EXCEPT ![d] = c]
  /\ gone' = [gone EXCEPT ![d] = @ \union ({using[d]} \ {None})]
  /\ UNCHANGED calm

GiveUp(d, c) ==
  /\ c \notin gone[d] /\ <<channel, c>> \in better
  /\ using' = IF using[d] = c THEN [using EXCEPT ![d] = None] ELSE using
  /\ gone' = [gone EXCEPT ![d] = @ \union {c}]
  /\ UNCHANGED <<channel, calm>>

(* When a path dies or a user dials, nothing is promised any more. *)
Disturbed == calm' = FALSE

Next ==
  \/ \E d \in Devices, c \in Conns : Serve(d, c) \/ GiveUp(d, c)
  \/ Disturbed

Spec == Init /\ [][Next]_channelVars
=============================================================================
