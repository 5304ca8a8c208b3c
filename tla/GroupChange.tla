---------------------------- MODULE GroupChange ----------------------------
(***************************************************************************)
(* Changing the group of a running computer (desktop/pairing_app.go        *)
(* updatePairing, desktop/relay_app.go startRelay and stopRelay) while     *)
(* relay clients run their loops (desktop/internal/relay/client.go loop,   *)
(* session, Stop, acceptSession) and links are being opened with the key   *)
(* they read when they began.                                              *)
(*                                                                         *)
(* The pairing dialog lets one change run at a time, so there is one       *)
(* updating goroutine; everything else runs beside it.                     *)
(***************************************************************************)
EXTENDS Integers, FiniteSets

CONSTANTS
  Keys,       \* pairing keys
  Clients,    \* relay clients that can be created (each is used once)
  Calls,      \* links that can be opened (each is used once)
  NoClient,   \* no client
  Damaged,    \* a pairing.json that is missing, empty or cut short
  MaxChanges  \* bound on changes of the pairing

ASSUME GroupAssumption == NoClient \notin Clients /\ MaxChanges \in Nat

VARIABLES
  pair,     \* a.pair: the key and whether a relay is set
  file,     \* what pairing.json holds
  saved,    \* history: the last time it was written, the write succeeded
  update,   \* what the goroutine that changes the pairing is doing
  changes,  \* changes made so far
  app,      \* a.relay: the client the app uses, or NoClient
  old,      \* the client stopRelay took out of a.relay and has not stopped
  loop,     \* [Clients -> where the client's loop is]
  keyOf,    \* [Clients -> the key the client was made with]
  stopped,  \* the clients whose stop channel is closed
  link,     \* [Clients -> the control connection: "none", "local" (not yet
            \*  in c.ctl), "open" or "closed"]
  known,    \* the clients whose list of peers is not empty
  status,   \* [Clients -> the status shown for the client]
  call,     \* [Calls -> what became of the link]
  callKey   \* [Calls -> the key it was opened with]

loopVars == <<loop, keyOf, stopped, link, known, status>>
groupVars == <<pair, file, saved, update, changes, app, old, loopVars, call, callKey>>

Pairs == [key : Keys, relay : BOOLEAN]

UpdateSteps == {"idle", "close", "take", "stop", "clear", "start"}
LoopSteps   == {"new", "top", "dial", "dialed", "check", "register", "accepted",
                "serve", "peers", "return", "report", "wait", "ended"}

PairingOK ==
  /\ pair \in Pairs /\ file \in Pairs \union {Damaged} /\ saved \in BOOLEAN
  /\ update \in UpdateSteps /\ changes \in 0..MaxChanges
  /\ app \in Clients \union {NoClient} /\ old \in Clients \union {NoClient}
  /\ loop \in [Clients -> LoopSteps] /\ keyOf \in [Clients -> Keys]
  /\ stopped \subseteq Clients /\ known \subseteq Clients
  /\ link \in [Clients -> {"none", "local", "open", "closed"}]
  /\ status \in [Clients -> {"off", "connecting", "online", "error"}]
  /\ call \in [Calls -> {"none", "shaking", "up", "down"}] /\ callKey \in [Calls -> Keys]

(* startup has loaded the pairing, or made one and written it, if it could, *)
(* and calls startRelay.                                                   *)
GroupInit ==
  /\ pair \in Pairs /\ saved \in BOOLEAN
  /\ file = IF saved THEN pair ELSE Damaged
  /\ update = "take" /\ changes = 0 /\ app = NoClient /\ old = NoClient
  /\ loop = [c \in Clients |-> "new"] /\ keyOf = [c \in Clients |-> pair.key]
  /\ stopped = {} /\ known = {}
  /\ link = [c \in Clients |-> "none"]
  /\ status = [c \in Clients |-> "connecting"]
  /\ call = [k \in Calls |-> "none"] /\ callKey = [k \in Calls |-> pair.key]

-----------------------------------------------------------------------------
(* updatePairing. *)

(* Wrong variant: the relay restarts only when the group changed. *)
Change_RelayKept(new) ==
  /\ update = "idle" /\ changes < MaxChanges
  /\ changes' = changes + 1
  /\ pair' = new /\ file' = new /\ saved' = TRUE
  /\ update' = IF new.key # pair.key THEN "close" ELSE "idle"
  /\ UNCHANGED <<app, old, loopVars, call, callKey>>

(* The new pairing is saved, then used; the links close if its key is new. *)
Change(new) ==
  /\ update = "idle" /\ changes < MaxChanges
  /\ changes' = changes + 1
  /\ pair' = new /\ file' = new /\ saved' = TRUE
  /\ update' = IF new.key # pair.key THEN "close" ELSE "take"
  /\ UNCHANGED <<app, old, loopVars, call, callKey>>

(* The file cannot be written: the app goes on with the pairing it has.    *)
(* WriteFile empties the file before it writes, so what is left of it is   *)
(* what was there, the new pairing whose close failed, or a damaged file.  *)
SaveFails(new) ==
  /\ update = "idle" /\ changes < MaxChanges
  /\ changes' = changes + 1
  /\ file' \in {file, new, Damaged} /\ saved' = FALSE
  /\ UNCHANGED <<pair, update, app, old, loopVars, call, callKey>>

CloseAll ==
  /\ update = "close"
  /\ call' = [k \in Calls |-> IF call[k] = "up" THEN "down" ELSE call[k]]
  /\ update' = "take"
  /\ UNCHANGED <<pair, file, saved, changes, app, old, loopVars, callKey>>

(* stopRelay takes the client out under its lock and stops it outside. *)
TakeOld ==
  /\ update = "take"
  /\ old' = app /\ app' = NoClient
  /\ update' = IF app = NoClient THEN "start" ELSE "stop"
  /\ UNCHANGED <<pair, file, saved, changes, loopVars, call, callKey>>

(* Stop, under the client's lock: the stop channel and c.ctl. *)
StopOld ==
  /\ update = "stop"
  /\ stopped' = stopped \union {old}
  /\ link' = [link EXCEPT ![old] = IF @ = "open" THEN "closed" ELSE @]
  /\ update' = "clear"
  /\ UNCHANGED <<pair, file, saved, changes, app, old, loop, keyOf, known, status, call, callKey>>

ClearOld ==
  /\ update = "clear"
  /\ known' = known \ {old}
  /\ status' = [status EXCEPT ![old] = "off"]
  /\ old' = NoClient
  /\ update' = "start"
  /\ UNCHANGED <<pair, file, saved, changes, app, loop, keyOf, stopped, link, call, callKey>>

StartNew ==
  /\ update = "start"
  /\ update' = "idle"
  /\ IF pair.relay
       THEN \E c \in Clients :
              /\ loop[c] = "new"
              /\ app' = c
              /\ loop' = [loop EXCEPT ![c] = "top"]
              /\ keyOf' = [keyOf EXCEPT ![c] = pair.key]
       ELSE UNCHANGED <<app, loop, keyOf>>
  /\ UNCHANGED <<pair, file, saved, changes, old, stopped, link, known, status, call, callKey>>

UpdateStep == CloseAll \/ TakeOld \/ StopOld \/ ClearOld \/ StartNew

-----------------------------------------------------------------------------
(* A relay client. *)

AppVars == <<pair, file, saved, update, changes, app, old, call, callKey>>

LoopTo(c, from, to) == loop[c] = from /\ loop' = [loop EXCEPT ![c] = to]

Top(c) ==
  /\ LoopTo(c, "top", IF c \in stopped THEN "ended" ELSE "dial")
  /\ status' = IF c \in stopped THEN status ELSE [status EXCEPT ![c] = "connecting"]
  /\ UNCHANGED <<AppVars, keyOf, stopped, link, known>>

(* The relay answers the dial, or does not. *)
DialRelay(c) ==
  /\ \/ LoopTo(c, "dial", "dialed") /\ link' = [link EXCEPT ![c] = "local"]
     \/ LoopTo(c, "dial", "return") /\ UNCHANGED link
  /\ UNCHANGED <<AppVars, keyOf, stopped, known, status>>

(* The connection is where Stop finds it before stopped is asked. *)
SetCtl(c) ==
  /\ LoopTo(c, "dialed", "check")
  /\ link' = [link EXCEPT ![c] = "open"]
  /\ UNCHANGED <<AppVars, keyOf, stopped, known, status>>

(* Wrong variant: a client stopped during its dial goes on. *)
CheckStopped_Dropped(c) ==
  /\ LoopTo(c, "check", "register")
  /\ UNCHANGED <<AppVars, keyOf, stopped, link, known, status>>

CheckStopped(c) ==
  /\ LoopTo(c, "check", IF c \in stopped THEN "return" ELSE "register")
  /\ UNCHANGED <<AppVars, keyOf, stopped, link, known, status>>

(* Something is read: it may have been there before Stop closed the        *)
(* connection, and is acted on after.                                      *)
ReadControl(c) ==
  /\ link[c] \in {"open", "local"}
  /\ LoopTo(c, "register", "accepted") \/ LoopTo(c, "serve", "peers")
  /\ UNCHANGED <<AppVars, keyOf, stopped, link, known, status>>

(* The read fails: the connection was closed, or the network lost it. *)
ControlFails(c) ==
  /\ LoopTo(c, "register", "return") \/ LoopTo(c, "serve", "return")
  /\ link' = [link EXCEPT ![c] = "closed"]
  /\ UNCHANGED <<AppVars, keyOf, stopped, known, status>>

SetOnline(c) ==
  /\ LoopTo(c, "accepted", "serve")
  /\ status' = [status EXCEPT ![c] = "online"]
  /\ UNCHANGED <<AppVars, keyOf, stopped, link, known>>

SetPeers(c) ==
  /\ LoopTo(c, "peers", "serve")
  /\ known' = known \union {c}
  /\ UNCHANGED <<AppVars, keyOf, stopped, link, status>>

(* session returns, which closes its connection; the peers are cleared. *)
Return(c) ==
  /\ LoopTo(c, "return", "report")
  /\ link' = [link EXCEPT ![c] = IF @ = "none" THEN @ ELSE "closed"]
  /\ known' = known \ {c}
  /\ UNCHANGED <<AppVars, keyOf, stopped, status>>

Report(c) ==
  /\ LoopTo(c, "report", IF c \in stopped THEN "ended" ELSE "wait")
  /\ status' = IF c \in stopped THEN status ELSE [status EXCEPT ![c] = "error"]
  /\ UNCHANGED <<AppVars, keyOf, stopped, link, known>>

(* The backoff ends, or Stop ends it. *)
Wait(c) ==
  /\ LoopTo(c, "wait", IF c \in stopped THEN "ended" ELSE "top")
  /\ UNCHANGED <<AppVars, keyOf, stopped, link, known, status>>

LoopStep(c) ==
  \/ Top(c) \/ DialRelay(c) \/ SetCtl(c) \/ CheckStopped(c) \/ SetOnline(c)
  \/ SetPeers(c) \/ Return(c) \/ Report(c) \/ Wait(c)

-----------------------------------------------------------------------------
(* Links. *)

Shake(k, key) ==
  /\ call[k] = "none"
  /\ call' = [call EXCEPT ![k] = "shaking"]
  /\ callKey' = [callKey EXCEPT ![k] = key]
  /\ UNCHANGED <<pair, file, saved, update, changes, app, old, loopVars>>

(* A dial of the connector, or a connection to the transfer server, reads  *)
(* the key of the pairing when it begins.                                  *)
OpenDirect(k) == Shake(k, pair.key)

(* acceptSession: a known peer calls through the relay, and the client's   *)
(* own key is used; nobody asks whether the client is stopped.             *)
AcceptRelayed(k, c) ==
  /\ c \in known /\ loop[c] \in {"serve", "peers", "return"}
  /\ Shake(k, keyOf[c])

(* The handshake succeeds with a peer of that group and the link is        *)
(* registered, or it fails.                                                *)
FinishShake(k) ==
  /\ call[k] = "shaking"
  /\ \E end \in {"up", "down"} : call' = [call EXCEPT ![k] = end]
  /\ UNCHANGED <<pair, file, saved, update, changes, app, old, loopVars, callKey>>

LinkEnds(k) ==
  /\ call[k] = "up"
  /\ call' = [call EXCEPT ![k] = "down"]
  /\ UNCHANGED <<pair, file, saved, update, changes, app, old, loopVars, callKey>>

-----------------------------------------------------------------------------
GroupNext ==
  \/ \E new \in Pairs : Change(new) \/ SaveFails(new)
  \/ UpdateStep
  \/ \E c \in Clients : LoopStep(c) \/ ReadControl(c) \/ ControlFails(c)
  \/ \E k \in Calls : OpenDirect(k) \/ FinishShake(k) \/ LinkEnds(k)
  \/ \E k \in Calls, c \in Clients : AcceptRelayed(k, c)

GroupSpec == GroupInit /\ [][GroupNext]_groupVars

(* The update and the loops run on; a read of a closed connection fails,   *)
(* one of an open connection need not.                                     *)
FailsWhenClosed(c) == link[c] = "closed" /\ ControlFails(c)

GroupFairness ==
  /\ WF_groupVars(UpdateStep)
  /\ \A c \in Clients : WF_groupVars(LoopStep(c)) /\ WF_groupVars(FailsWhenClosed(c))

GroupFairSpec == GroupSpec /\ GroupFairness

-----------------------------------------------------------------------------
(* startRelay: when no change is under way, the app uses a client exactly  *)
(* if a relay is set, and it has the group's key, whether the last change  *)
(* could be saved or not; pairing.json holds that pairing unless it could  *)
(* not be written; and no client runs on without being the app's, or the   *)
(* one stopRelay is about to stop.                                         *)
RelayFollowsPairing ==
  /\ saved => file = pair
  /\ update = "idle" => (app # NoClient <=> pair.relay)
  /\ update = "idle" /\ app # NoClient => keyOf[app] = pair.key
  /\ \A c \in Clients :
       loop[c] \notin {"new", "ended"} /\ c \notin stopped => c \in {app, old}

(* Stop: whatever the client's loop was doing, in a dial or between what   *)
(* it read and what it makes of it, it ends, off the relay, without peers. *)
StoppedClientsEnd ==
  \A c \in Clients :
    <>[](c \in stopped => /\ loop[c] = "ended" /\ c \notin known
                          /\ link[c] \in {"none", "closed"})
=============================================================================
