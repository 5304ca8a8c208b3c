------------------------------ MODULE Outages --------------------------------
(***************************************************************************)
(* What a computer makes of a phone's status packets                       *)
(* (desktop/features_app.go: onStatus; desktop/wifi_app.go:                *)
(* offerInternetHelp): it warns when the phone's battery gets low, and     *)
(* when the phone has no internet for a while it offers its own.  Packets  *)
(* are handled in order; every one that finds the phone without internet   *)
(* and nothing offered starts a timer of its own.                          *)
(***************************************************************************)
EXTENDS Integers

CONSTANTS
  Timers       \* bound: packets that may start one

VARIABLES
  known,     \* [online, battery] as of the last packet; offline before the first
  reachable, \* the phone has a link
  internet,  \* the computer has internet
  reader,    \* "wait", "warn" or "offer": the rest of a packet's handler
  warned,    \* lowNotified
  offered,   \* offlineOffered
  timers,    \* [Timers -> "unused", "runs", "offers", "over"]
  offers,    \* offers since the last packet of a phone with internet
  warnings   \* warnings since its battery was last well or charged

outageVars == <<known, reachable, internet, reader, warned, offered, timers, offers, warnings>>
helpVars   == <<offered, timers, offers>>
batteryVars == <<warned, warnings>>

Battery == {"unknown", "low", "middling", "well"}

OutageOK ==
  /\ known \in [online : BOOLEAN, battery : Battery]
  /\ reachable \in BOOLEAN /\ internet \in BOOLEAN
  /\ reader \in {"wait", "warn", "offer"}
  /\ warned \in BOOLEAN /\ offered \in BOOLEAN
  /\ timers \in [Timers -> {"unused", "runs", "offers", "over"}]
  /\ offers \in Nat /\ warnings \in Nat

OutageInit ==
  /\ known = [online |-> FALSE, battery |-> "unknown"] /\ reachable = TRUE /\ internet \in BOOLEAN
  /\ reader = "wait" /\ warned = FALSE /\ offered = FALSE
  /\ timers = [t \in Timers |-> "unused"] /\ offers = 0 /\ warnings = 0

-----------------------------------------------------------------------------
LinkChanges ==
  /\ reader = "wait" /\ reachable' = ~reachable
  /\ UNCHANGED <<known, internet, reader, batteryVars, helpVars>>

InternetChanges ==
  /\ internet' = ~internet
  /\ UNCHANGED <<known, reachable, reader, batteryVars, helpVars>>

(* onStatus: what the packet says is known at once. *)
StatusPacket ==
  /\ reachable /\ reader = "wait" /\ reader' = "warn"
  /\ known' \in [online : BOOLEAN, battery : Battery]
  /\ UNCHANGED <<reachable, internet, batteryVars, helpVars>>

(* A charging phone counts as well. *)
Warn ==
  LET warns == known.battery = "low" /\ ~warned IN
  /\ reader = "warn" /\ reader' = "offer"
  /\ warned' = CASE warns                   -> TRUE
                 [] known.battery = "well"  -> FALSE
                 [] OTHER                   -> warned
  /\ warnings' = CASE warns                   -> warnings + 1
                   [] known.battery = "well"  -> 0
                   [] OTHER                   -> warnings
  /\ UNCHANGED <<known, reachable, internet, helpVars>>

(* offerInternetHelp, called when the rest of the handler is done. *)
Offer ==
  /\ reader = "offer" /\ reader' = "wait"
  /\ \/ /\ known.online
        /\ offered' = FALSE /\ offers' = 0 /\ UNCHANGED timers
     \/ ~known.online /\ offered /\ UNCHANGED helpVars
     \/ /\ ~known.online /\ ~offered
        /\ \E t \in Timers : timers[t] = "unused" /\ timers' = [timers EXCEPT ![t] = "runs"]
        /\ UNCHANGED <<offered, offers>>
  /\ UNCHANGED <<known, reachable, internet, batteryVars>>

(* Ten seconds later: the phone may be back, or something offered by now.  *)
Fires(t) ==
  /\ timers[t] = "runs"
  /\ timers' = [timers EXCEPT ![t] = IF known.online \/ ~internet \/ ~reachable THEN "over" ELSE "offers"]
  /\ UNCHANGED <<known, reachable, internet, reader, batteryVars, offered, offers>>

(* Wrong variant: what was offered meanwhile is not looked at again.       *)
Notifies_Anyway(t) ==
  /\ timers[t] = "offers" /\ timers' = [timers EXCEPT ![t] = "over"]
  /\ offered' = TRUE /\ offers' = offers + 1
  /\ UNCHANGED <<known, reachable, internet, reader, batteryVars>>

Notifies(t) ==
  /\ timers[t] = "offers" /\ timers' = [timers EXCEPT ![t] = "over"]
  /\ offered' = TRUE /\ offers' = IF offered THEN offers ELSE offers + 1
  /\ UNCHANGED <<known, reachable, internet, reader, batteryVars>>

OutageNext ==
  \/ LinkChanges \/ InternetChanges \/ StatusPacket \/ Warn \/ Offer
  \/ \E t \in Timers : Fires(t) \/ Notifies(t)

OutageSpec == OutageInit /\ [][OutageNext]_outageVars

-----------------------------------------------------------------------------
(* "Offers the fix once per outage": however many packets of an outage     *)
(* started timers, and whichever of an earlier outage are late, the help   *)
(* is offered at most once before the phone says that it is online; and    *)
(* its battery is warned of once before it is well again.                  *)
OncePerOutage == offers <= 1 /\ warnings <= 1
=============================================================================
