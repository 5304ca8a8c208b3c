---------------------------- MODULE PhoneNotices -----------------------------
(***************************************************************************)
(* What a computer shows and lists of its phones: calls and notifications  *)
(* (PhoneEvents), and what it makes of their status packets (Outages).     *)
(***************************************************************************)
EXTENDS PhoneEvents, Outages

(* The list of notifications is the phone's once all was handled, and the  *)
(* computer's own about a phone come once for what they are about.         *)
NoticesTrue == ListFollowsPhone /\ OncePerOutage
=============================================================================
