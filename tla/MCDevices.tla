------------------------------ MODULE MCDevices ------------------------------
(* What two linked devices must get to, each on small instances of its own. *)
(* Links: "agree", where a computer may dial a phone over paths of two      *)
(* speeds and nothing breaks, and the instance of the constants, "settle",  *)
(* where users dial too and a path may go dead.  And what follows the       *)
(* links: a phone's folder, an open file in it, and the loops of a          *)
(* computer.  They share no state; part says which one a behaviour is of.   *)
EXTENDS LinkManager, PhoneFile

CONSTANTS c1, c2

(* The connection a device dials first, unless it is in use. *)
own == (Low :> c1) @@ (High :> c2)

VARIABLES
  part,
  mountLink, lastMount, mounting, entry, pass, folders, busy, waiting, servers, lingered,
  switches, ejects, ejectedOn, failedOn,
  peer, byRelay, lastPeer, setting, charge, media, locked, turned, failed, gotStatus, gotMedia,
  teller, lastTold, last, dueAgain, player, toldMedia, nudge, watched, held, wanted,
  cookie, leaked, seenNear, away, done, absence

Agree == INSTANCE LinkManager WITH
  Prios <- {1, 2}, UserDials <- FALSE, MaxFaults <- 0, MaxChecks <- 1
Folders == INSTANCE PhoneFolders WITH
  MaxLinks <- 2, MaxSwitches <- 1, MaxEjects <- 1,
  link <- mountLink, lastLink <- lastMount, setting <- mounting
(* Status and proximity lock, media and keeping awake. *)
Telling == INSTANCE Loops WITH
  Running <- {"status", "near"}, MaxLinks <- 2, MaxChanges <- 2, MaxFailed <- 1,
  link <- peer, relayed <- byRelay, lastLink <- lastPeer, status <- charge, changes <- turned,
  told <- lastTold, due <- dueAgain, kick <- nudge
Playing == INSTANCE Loops WITH
  Running <- {"media", "awake"}, MaxLinks <- 2, MaxChanges <- 2, MaxFailed <- 1,
  link <- peer, relayed <- byRelay, lastLink <- lastPeer, status <- charge, changes <- turned,
  told <- lastTold, due <- dueAgain, kick <- nudge
folderVars ==
  <<mountLink, lastMount, mounting, entry, pass, folders, busy, waiting, servers, lingered,
    switches, ejects, ejectedOn, failedOn>>
loopVars ==
  <<peer, byRelay, lastPeer, setting, charge, media, locked, turned, failed, gotStatus, gotMedia,
    teller, lastTold, last, dueAgain, player, toldMedia, nudge, watched, held, wanted,
    cookie, leaked, seenNear, away, done, absence>>
allVars == <<part, vars, folderVars, loopVars, fileVars>>

DevicesInit ==
  /\ part \in {"agree", "settle", "folders", "telling", "playing", "writing", "reading"}
  /\ Init /\ Folders!Init /\ Telling!Init /\ FileInit

(* Connections are alike until one is dialed, which nothing is fair about, *)
(* so it is no loss if each device takes its own one first.                *)
Dialed(c) == \E d \in Dev : end[d][c] # "none"
InOrder ==
  \A d \in Dev, c \in Conns :
    end[d][c] = "none" /\ end'[d][c] = "dialing" => c = own[d] \/ Dialed(own[d])

DevicesNext ==
  \/ /\ \/ part = "agree" /\ Agree!Next
        \/ part = "settle" /\ Next
     /\ InOrder
     /\ UNCHANGED <<part, folderVars, loopVars, fileVars>>
  \/ /\ part = "folders" /\ Folders!Next
     /\ UNCHANGED <<part, vars, loopVars, fileVars>>
  \/ /\ \/ part = "telling" /\ Telling!Next
        \/ part = "playing" /\ Playing!Next
     /\ UNCHANGED <<part, vars, folderVars, fileVars>>
  \/ /\ FileNext
     /\ \/ part = "writing" /\ reads' <= 1 /\ faults' = 0  \* written in several ways at once
        \/ part = "reading" /\ writes' <= 1 /\ reads' + faults' <= 2 \* read, while something is written
     /\ UNCHANGED <<part, vars, folderVars, loopVars>>

FolderFairness ==
  /\ WF_folderVars(part = "folders" /\ Folders!LoopStep)
  /\ WF_folderVars(part = "folders" /\ Folders!WaitEnds)
  /\ WF_folderVars(part = "folders" /\ Folders!LingerEnds)

LoopFairness ==
  /\ WF_loopVars(part = "telling" /\ Telling!StatusStep /\ Telling!ButStatus)
  /\ WF_loopVars(part = "telling" /\ Telling!StatusDue /\ Telling!ButStatus)
  /\ WF_loopVars(part = "telling" /\ Telling!LooksAround /\ Telling!ButNear)
  /\ WF_loopVars(part = "telling" /\ Telling!GraceOver /\ Telling!ButNear)
  /\ WF_loopVars(part = "playing" /\ Playing!MediaStep /\ Playing!ButMedia)
  /\ WF_loopVars(part = "playing" /\ Playing!Kick /\ Playing!ButMedia)
  /\ SF_loopVars(part = "playing" /\ Playing!WakeOnKick /\ Playing!ButMedia)
  /\ WF_loopVars(part = "playing" /\ Playing!AwakeStep /\ Playing!ButAwake)

(* What is fair of links does not depend on the constants that differ, and *)
(* none of it is possible in the other parts.                              *)
DevicesSpec ==
  /\ DevicesInit /\ [][DevicesNext]_allVars
  /\ Fairness /\ FolderFairness /\ LoopFairness

-----------------------------------------------------------------------------
(* Every variable of the part has its type. *)
TypesOK ==
  CASE part = "agree"    -> Agree!TypeOK
    [] part = "settle"   -> TypeOK
    [] part = "folders"  -> Folders!FoldersOK
    [] part = "telling"  -> Telling!LoopsOK
    [] part = "playing"  -> Playing!LoopsOK
    [] part = "writing"  -> FileOK
    [] part = "reading"  -> FileOK

(* When no path dies, dialing always ends in a link both sides serve, and  *)
(* it is the fastest of those both sides accepted.                         *)
DialingEndsInLink == <>[](part = "agree" => Agree!DialingPaysOff /\ Agree!OnTheFastest)

(* What follows the links comes to fit links, settings and state.          *)
LoopsSettle ==
  <>[](/\ part = "folders" => Folders!FolderFits
       /\ part = "telling" => Telling!Settled
       /\ part = "playing" => Playing!Settled)
=============================================================================
