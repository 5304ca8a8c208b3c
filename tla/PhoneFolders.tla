---------------------------- MODULE PhoneFolders ----------------------------
(***************************************************************************)
(* When a phone's storage is a folder of the computer                      *)
(* (desktop/phonemount_linux.go setupPhoneMounts, mountPhone): a loop      *)
(* looks at the links every three seconds, a goroutine per mount waits for *)
(* the kernel to take it away, and the user may eject it.  One phone;      *)
(* its links are numbered, as their times tell them apart.                 *)
(***************************************************************************)
EXTENDS Integers

CONSTANTS
  MaxLinks,    \* bound on the phone's links
  MaxSwitches, \* bound on changes of the setting
  MaxEjects    \* bound on the user's ejecting

VARIABLES
  link,      \* the phone's link, or 0
  lastLink,  \* the last one made
  setting,   \* "mountFiles"
  entry,     \* byDevice[phone]: [since, ejected, lost, server], or NoEntry
  pass,      \* the loop: the step it is at and the link it saw
  folders,   \* servers whose folder is there
  busy,      \* those that Unmount could not take away
  waiting,   \* servers whose goroutine has not come back from Wait
  servers,   \* number of mounts made
  lingered,  \* mountLinger is over since the phone was found gone
  switches, ejects,
  ejectedOn, \* links during which the user took the folder away
  failedOn   \* links the mount failed for

folderVars == <<link, lastLink, setting, entry, pass, folders, busy, waiting, servers, lingered,
                switches, ejects, ejectedOn, failedOn>>
world == <<link, lastLink, setting, switches>>
user  == <<ejects, ejectedOn>>

NoEntry == [since |-> 0, ejected |-> FALSE, lost |-> FALSE, server |-> 0]
Rest    == [step |-> "sleep", link |-> 0]

FoldersOK ==
  /\ link \in 0..lastLink /\ lastLink \in 0..MaxLinks /\ setting \in BOOLEAN
  /\ entry.since \in 0..MaxLinks /\ entry.ejected \in BOOLEAN /\ entry.lost \in BOOLEAN
  /\ entry.server \in 0..servers
  /\ pass.step \in {"sleep", "mounts", "mount"} /\ pass.link \in 0..MaxLinks
  /\ busy \subseteq folders /\ folders \subseteq waiting /\ waiting \subseteq 1..servers
  /\ lingered \in BOOLEAN /\ switches \in 0..MaxSwitches /\ ejects \in 0..MaxEjects
  /\ ejectedOn \subseteq 1..MaxLinks /\ failedOn \subseteq 1..MaxLinks

Init ==
  /\ link = 0 /\ lastLink = 0 /\ setting = TRUE /\ entry = NoEntry /\ pass = Rest
  /\ folders = {} /\ busy = {} /\ waiting = {} /\ servers = 0 /\ lingered = FALSE
  /\ switches = 0 /\ ejects = 0 /\ ejectedOn = {} /\ failedOn = {}

-----------------------------------------------------------------------------
(* The phone, its user and the computer's. *)
LinkUp ==
  /\ lastLink < MaxLinks /\ lastLink' = lastLink + 1 /\ link' = lastLink'
  /\ UNCHANGED <<setting, switches, entry, pass, folders, busy, waiting, servers, lingered, user, failedOn>>

LinkDown ==
  /\ link # 0 /\ link' = 0
  /\ UNCHANGED <<lastLink, setting, switches, entry, pass, folders, busy, waiting, servers, lingered, user, failedOn>>

Switch ==
  /\ switches < MaxSwitches /\ switches' = switches + 1 /\ setting' = ~setting
  /\ UNCHANGED <<link, lastLink, entry, pass, folders, busy, waiting, servers, lingered, user, failedOn>>

Eject ==
  /\ folders # {} /\ ejects < MaxEjects /\ ejects' = ejects + 1
  /\ folders' = {} /\ busy' = {}
  /\ ejectedOn' = IF entry.server \in folders THEN ejectedOn \union ({link} \ {0}) ELSE ejectedOn
  /\ UNCHANGED <<world, entry, pass, waiting, servers, lingered, failedOn>>

-----------------------------------------------------------------------------
(* The loop. *)

(* The links and the setting are read before the lock is taken. *)
LookAtLinks ==
  /\ pass.step = "sleep"
  /\ pass' = [step |-> "mounts", link |-> IF setting THEN link ELSE 0]
  /\ UNCHANGED <<world, entry, folders, busy, waiting, servers, lingered, user, failedOn>>

(* Wrong variant: an ejected folder is mounted again only once the phone   *)
(* was seen without a link.                                                *)
MountsAgain_Unlinked(l) == l = 0

MountsAgain(l) == l # entry.since

(* The switch over an entry, then over a phone without one. *)
GoesOn(e, l) ==
  /\ entry' = e
  /\ pass' = IF l # 0 /\ e = NoEntry THEN [step |-> "mount", link |-> l] ELSE Rest

(* The entry goes even when Unmount fails, as someone uses the folder.     *)
Mounts ==
  LET l == pass.link
      Folders(left, stuck) == folders' = left /\ busy' = stuck
  IN
  /\ pass.step = "mounts"
  /\ \/ entry = NoEntry /\ GoesOn(NoEntry, l) /\ UNCHANGED lingered /\ Folders(folders, busy)
     \/ /\ entry # NoEntry /\ entry.ejected
        /\ GoesOn(IF MountsAgain(l) THEN NoEntry ELSE entry, l)
        /\ UNCHANGED lingered /\ Folders(folders, busy)
     \/ /\ entry # NoEntry /\ ~entry.ejected /\ l # 0
        /\ GoesOn([entry EXCEPT !.lost = FALSE], l) /\ UNCHANGED lingered /\ Folders(folders, busy)
     \/ /\ entry # NoEntry /\ ~entry.ejected /\ l = 0 /\ ~entry.lost
        /\ GoesOn([entry EXCEPT !.lost = TRUE], l) /\ lingered' = FALSE /\ Folders(folders, busy)
     \/ /\ entry # NoEntry /\ ~entry.ejected /\ l = 0 /\ entry.lost
        /\ IF lingered \/ ~setting
             THEN /\ GoesOn(NoEntry, l)
                  /\ \/ Folders(folders \ {entry.server}, busy \ {entry.server})
                     \/ Folders(folders, busy \union ({entry.server} \intersect folders))
             ELSE GoesOn(entry, l) /\ Folders(folders, busy)
        /\ UNCHANGED lingered
  /\ UNCHANGED <<world, waiting, servers, user, failedOn>>

(* mountPhone, under the lock: what is still at the folder's place is      *)
(* taken off it, then the phone is asked over the link that was seen.      *)
MountDone ==
  /\ pass.step = "mount" /\ pass.link = link
  /\ servers' = servers + 1
  /\ entry' = [NoEntry EXCEPT !.since = pass.link, !.server = servers']
  /\ folders' = {servers'} /\ busy' = {} /\ waiting' = waiting \union {servers'}
  /\ pass' = Rest
  /\ UNCHANGED <<world, lingered, user, failedOn>>

MountFails ==
  /\ pass.step = "mount"
  /\ entry' = [NoEntry EXCEPT !.since = pass.link, !.ejected = TRUE]
  /\ failedOn' = failedOn \union {pass.link}
  /\ folders' = {} /\ busy' = {}
  /\ pass' = Rest
  /\ UNCHANGED <<world, waiting, servers, lingered, user>>

(* Wait returns once the folder is gone, and the lock is free. *)
WaitEnds ==
  \E s \in waiting \ folders :
    /\ pass.step # "mount"
    /\ waiting' = waiting \ {s}
    /\ entry' = IF entry.server = s THEN [entry EXCEPT !.ejected = TRUE] ELSE entry
    /\ UNCHANGED <<world, pass, folders, busy, servers, lingered, user, failedOn>>

LingerEnds ==
  /\ entry.lost /\ ~lingered /\ lingered' = TRUE
  /\ UNCHANGED <<world, entry, pass, folders, busy, waiting, servers, user, failedOn>>

LoopStep == LookAtLinks \/ Mounts \/ MountDone \/ MountFails
Next == LinkUp \/ LinkDown \/ Switch \/ Eject \/ LoopStep \/ WaitEnds \/ LingerEnds

(* The loop goes round and Wait comes back; users and phones may stop.     *)
Fairness == WF_folderVars(LoopStep) /\ WF_folderVars(WaitEnds) /\ WF_folderVars(LingerEnds)
FairSpec == Init /\ [][Next]_folderVars /\ Fairness

-----------------------------------------------------------------------------
(* A linked phone with the setting has its folder, unless the user ejected *)
(* it or the mount failed on this very link; of every other phone only a   *)
(* folder that was in use when it should have gone is there.               *)
FolderFits ==
  IF link # 0 /\ setting THEN entry.server \in folders \/ link \in ejectedOn \union failedOn
                         ELSE folders \subseteq busy

(* So it is once links and setting stay as they are, whatever was ejected, *)
(* lost, mounted and switched at once.                                     *)
FoldersSettle == <>[]FolderFits

(* "Mount again only for a new link, not the one the user ejected on"      *)
(* (phonemount_linux.go).                                                  *)
EjectedStays ==
  [][\A l \in ejectedOn : link = l => folders' \subseteq folders]_folderVars
=============================================================================
