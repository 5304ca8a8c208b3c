----------------------------- MODULE PhoneEvents -----------------------------
(***************************************************************************)
(* A phone's calls and notifications on a computer (desktop/calls_app.go,  *)
(* desktop/notifications_app.go), with the desktop's own notifications     *)
(* (desktop/notify_linux.go) and music players (desktop/mpris_linux.go).   *)
(* The phone tells of every event over its link; the link's reader calls   *)
(* the handlers one after the other, which wait for the desktop's answers  *)
(* while the user, the signals of the desktop and other phones' handlers   *)
(* go on.                                                                  *)
(*                                                                         *)
(* What is stored under a phone's call or notification is stored under a   *)
(* key: <<phone, 0>> is the call, <<phone, n>> notification n.  That only  *)
(* the newest hundred notifications are kept is left out.                  *)
(***************************************************************************)
EXTENDS Integers, Sequences, FiniteSets, SequencesExt

CONSTANTS
  Mobiles, Callers, \* the phones, and those with calls
  Notes,            \* ids of notifications, from 1
  Players,          \* music players of the computer
  MaxEvents,        \* [Mobiles -> bound on what it tells]
  MaxMoves          \* bound on what the user does to players and settings, and on link losses

ASSUME EventsAssumption ==
  /\ Callers \subseteq Mobiles /\ Notes \subseteq Nat \ {0}
  /\ MaxEvents \in [Mobiles -> Nat] /\ MaxMoves \in Nat

VARIABLES
  call,      \* [Mobiles -> "none", "ringing" or "talking"]
  notes,     \* [Mobiles -> notifications it shows]
  hushed,    \* [Mobiles -> what the user keeps from this computer: 0 for all
             \*  notifications, n for the app of notification n]
  linkedTo,  \* phones linked
  toldPC,    \* [Mobiles -> packets to the computer, in order]
  toldPhone, \* [Mobiles -> notifications it is told to dismiss, in order]
  events, moves,
  active,    \* [Mobiles -> calls.active: the event of the call in progress, or "none"]
  recent,    \* [Mobiles -> the notifications listed]
  handler,   \* [Mobiles -> what the link's reader is at]
  ids,       \* [keys -> calls.notif and notes.shown: id of the desktop's, 0 for none]
  resumable, \* [Mobiles -> calls.paused]
  playing,   \* players that play
  byUs,      \* players that we paused and nobody started since
  screen,    \* ids of the notifications the desktop shows, with their keys
  pending,   \* [ids -> keys], of those registered for signals
  signalled, \* NotificationClosed signals under way: <<id, by the user>>
  closings,  \* OnClosed callbacks started: <<key, by the user>>
  \* History, for the properties.
  untold,    \* [Mobiles -> notifications whose coming or going was kept from the computer]
  orphans,   \* of screen: shown still after the desktop's service failed us about it
  cut        \* a link went down over something unfinished, or was down when
             \*  there was something to tell

eVars == <<call, notes, hushed, linkedTo, toldPC, toldPhone, events, moves, active, recent, handler, ids,
           resumable, playing, byUs, screen, pending, signalled, closings, untold, orphans, cut>>
onPhone   == <<call, notes, hushed, untold, toldPhone, events>>
desktopVars == <<screen, pending, signalled, closings, orphans>>
playerVars  == <<playing, byUs>>
linkVars    == <<linkedTo, moves, cut>>

NoteKeys    == Mobiles \X ({0} \union Notes)
Idle    == [step |-> "idle", event |-> "none", note |-> 0, id |-> 0, held |-> {}]
CallStates == {"none", "ringing", "talking"}
CallEvents == {"ringing", "talking", "missed", "ended"}
EventPacket(e, n) == [event |-> e, note |-> n]
Event(p) == Head(toldPC[p])

EventsOK ==
  /\ call \in [Mobiles -> CallStates] /\ notes \in [Mobiles -> SUBSET Notes]
  /\ hushed \in [Mobiles -> SUBSET ({0} \union Notes)] /\ untold \in [Mobiles -> SUBSET Notes]
  /\ linkedTo \subseteq Mobiles /\ (\A p \in Mobiles : events[p] \in 0..MaxEvents[p]) /\ moves \in 0..MaxMoves
  /\ active \in [Mobiles -> CallStates]
  /\ recent \in [Mobiles -> SUBSET Notes] /\ DOMAIN ids = NoteKeys
  /\ \A p \in Mobiles : handler[p].step \in {"idle", "pause", "hold", "notify", "register", "store", "close"}
  /\ resumable \in [Mobiles -> SUBSET Players] /\ playing \subseteq Players /\ byUs \subseteq Players
  /\ \A s \in screen : s[2] \in NoteKeys
  /\ cut \in BOOLEAN

EventsInit ==
  /\ call = [p \in Mobiles |-> "none"] /\ notes = [p \in Mobiles |-> {}]
  /\ hushed \in [Mobiles -> SUBSET ({0} \union Notes)] /\ untold = [p \in Mobiles |-> {}]
  /\ linkedTo = Mobiles /\ toldPC = [p \in Mobiles |-> <<>>] /\ toldPhone = [p \in Mobiles |-> <<>>]
  /\ events = [p \in Mobiles |-> 0] /\ moves = 0
  /\ active = [p \in Mobiles |-> "none"] /\ recent = [p \in Mobiles |-> {}]
  /\ handler = [p \in Mobiles |-> Idle] /\ ids = [k \in NoteKeys |-> 0]
  /\ resumable = [p \in Mobiles |-> {}] /\ playing \in SUBSET Players /\ byUs = {}
  /\ screen = {} /\ pending = <<>> /\ signalled = <<>> /\ closings = {} /\ orphans = {} /\ cut = FALSE

-----------------------------------------------------------------------------
(* The phone, and the link. *)

Happens(p) ==
  /\ events[p] < MaxEvents[p] /\ events' = [events EXCEPT ![p] = @ + 1]
  /\ UNCHANGED <<linkedTo, moves, active, recent, handler, ids, resumable, playerVars, desktopVars>>

TellPC(p, e, n) ==
  /\ Happens(p)
  /\ toldPC' = IF p \in linkedTo THEN [toldPC EXCEPT ![p] = Append(@, EventPacket(e, n))] ELSE toldPC
  /\ cut' = (cut \/ p \notin linkedTo)

(* A broadcast of the phone's telephone, of its state s; also of the state *)
(* it is in, when the number comes.  Ringing whose number is still to come *)
(* is not told.                                                            *)
CallEvent(p, s) ==
  /\ p \in Callers
  /\ call' = [call EXCEPT ![p] = s]
  /\ \/ TellPC(p, IF s # "none" THEN s ELSE IF call[p] = "ringing" THEN "missed" ELSE "ended", 0)
     \/ s = "ringing" /\ Happens(p) /\ UNCHANGED <<toldPC, cut>>
  /\ UNCHANGED <<notes, hushed, untold, toldPhone>>

(* A change of any of its links makes the phone tell of the call in        *)
(* progress, also a computer that heard of it as it began; of none it      *)
(* tells nobody.  (Once per link; here as often as events are left.)       *)
RetellCall(p) ==
  /\ p \in linkedTo /\ call[p] # "none"
  /\ TellPC(p, call[p], 0) /\ UNCHANGED <<call, notes, hushed, untold, toldPhone>>

(* A notification of an app that is shared; none is told of otherwise.     *)
Post(p, n) ==
  /\ notes' = [notes EXCEPT ![p] = @ \union {n}]
  /\ IF hushed[p] \intersect {0, n} = {}
     THEN TellPC(p, "posted", n) /\ untold' = [untold EXCEPT ![p] = @ \ {n}]
     ELSE /\ Happens(p) /\ UNCHANGED <<toldPC, cut>>
          /\ untold' = [untold EXCEPT ![p] = @ \union ({n} \ notes[p])]
  /\ UNCHANGED <<call, hushed, toldPhone>>

(* Removals are told of any app, while notifications are shared. *)
RemoveNote(p, n) ==
  /\ n \in notes[p] /\ notes' = [notes EXCEPT ![p] = @ \ {n}]
  /\ IF 0 \notin hushed[p]
     THEN TellPC(p, "removed", n) /\ untold' = [untold EXCEPT ![p] = @ \ {n}]
     ELSE Happens(p) /\ UNCHANGED <<toldPC, cut>> /\ untold' = [untold EXCEPT ![p] = @ \union {n}]
  /\ UNCHANGED <<call, hushed, toldPhone>>

(* A dismissal; the phone tells that the notification is gone.             *)
DismissOnPhone(p) ==
  LET n     == Head(toldPhone[p])
      tells == n \in notes[p] /\ 0 \notin hushed[p]
      keeps == n \in notes[p] /\ 0 \in hushed[p]
  IN
  /\ toldPhone[p] # <<>> /\ toldPhone' = [toldPhone EXCEPT ![p] = Tail(@)]
  /\ notes' = [notes EXCEPT ![p] = @ \ {n}]
  /\ toldPC' = IF tells THEN [toldPC EXCEPT ![p] = Append(@, EventPacket("removed", n))] ELSE toldPC
  /\ untold' = [untold EXCEPT ![p] = IF tells THEN @ \ {n} ELSE IF keeps THEN @ \union {n} ELSE @]
  /\ UNCHANGED <<call, hushed, events, linkVars, active, recent, handler, ids, resumable, playerVars, desktopVars>>

(* The user changes what is shared: all notifications, or those of n's app. *)
Hush(p, n) ==
  /\ moves < MaxMoves /\ moves' = moves + 1
  /\ \/ hushed' = [hushed EXCEPT ![p] = @ \union {n}]
     \/ hushed' = [hushed EXCEPT ![p] = @ \ {n}]
  /\ UNCHANGED <<call, notes, untold, events, toldPC, toldPhone, linkedTo, cut, active, recent, handler, ids,
                 resumable, playerVars, desktopVars>>

LinkGoes(p) ==
  /\ p \in linkedTo /\ moves < MaxMoves /\ moves' = moves + 1
  /\ linkedTo' = linkedTo \ {p}
  /\ cut' = (cut \/ toldPC[p] # <<>> \/ toldPhone[p] # <<>> \/ handler[p] # Idle)
  /\ toldPC' = [toldPC EXCEPT ![p] = <<>>] /\ toldPhone' = [toldPhone EXCEPT ![p] = <<>>]
  /\ UNCHANGED <<call, notes, hushed, untold, events, active, recent, handler, ids, resumable, playerVars,
                 desktopVars>>

LinkComes(p) ==
  /\ p \notin linkedTo /\ handler[p] = Idle
  /\ linkedTo' = linkedTo \union {p}
  /\ UNCHANGED <<onPhone, toldPC, moves, cut, active, recent, handler, ids, resumable, playerVars, desktopVars>>

-----------------------------------------------------------------------------
(* What the handlers share. *)

Becomes(p, h) == handler' = [handler EXCEPT ![p] = h]

At(p, step) == handler[p].step = step
Key(p) == <<p, handler[p].note>>

(* closeNotification: the desktop takes it away and signals it, or fails,  *)
(* which nobody looks at.                                                  *)
Close(id) ==
  LET these == {s \in screen : s[1] = id} IN
  /\ \/ /\ screen' = screen \ these /\ orphans' = orphans \ these
        /\ signalled' = IF these # {} THEN Append(signalled, <<id, FALSE>>) ELSE signalled
     \/ orphans' = orphans \union these /\ UNCHANGED <<screen, signalled>>
  /\ UNCHANGED <<pending, closings>>

(* A number that nothing holds. *)
FreshId ==
  LET used == {s[1] : s \in screen} \union DOMAIN pending \union {ids[k] : k \in NoteKeys}
              \union {handler[p].id : p \in Mobiles} \union {signalled[i][1] : i \in DOMAIN signalled}
  IN CHOOSE i \in 1..Cardinality(used) + 1 : i \notin used

(* notify: in place of the one it replaces, if that is still there. *)
Notify(p) ==
  LET h  == handler[p]
      id == IF <<ids[Key(p)], Key(p)>> \in screen THEN ids[Key(p)] ELSE FreshId
  IN
  /\ At(p, "notify")
  /\ screen' = screen \union {<<id, Key(p)>>} /\ orphans' = orphans \ {<<id, Key(p)>>}
  /\ Becomes(p, [h EXCEPT !.step = "register", !.id = id])
  /\ UNCHANGED <<onPhone, toldPC, linkVars, active, recent, ids, resumable, playerVars,
                 pending, signalled, closings>>

(* The desktop's service fails: it is gone, and what it showed with it, or *)
(* what it showed stays.  A call's id is 0 from then on.                   *)
NotifyFails(p) ==
  /\ At(p, "notify")
  /\ ids' = IF handler[p].note = 0 THEN [ids EXCEPT ![Key(p)] = 0] ELSE ids
  /\ \/ screen' = {} /\ orphans' = {}
     \/ /\ UNCHANGED screen
        /\ orphans' = orphans \union {s \in screen : handler[p].note = 0 /\ s[2] = Key(p)}
  /\ Becomes(p, Idle)
  /\ UNCHANGED <<onPhone, toldPC, linkVars, active, recent, resumable, playerVars,
                 pending, signalled, closings>>

Register(p) ==
  LET id == handler[p].id IN
  /\ At(p, "register")
  /\ pending' = [i \in DOMAIN pending \union {id} |-> IF i = id THEN Key(p) ELSE pending[i]]
  /\ Becomes(p, [handler[p] EXCEPT !.step = "store"])
  /\ UNCHANGED <<onPhone, toldPC, linkVars, active, recent, ids, resumable, playerVars,
                 screen, orphans, signalled, closings>>

StoreId(p) ==
  /\ At(p, "store")
  /\ ids' = [ids EXCEPT ![Key(p)] = handler[p].id]
  /\ Becomes(p, Idle)
  /\ UNCHANGED <<onPhone, toldPC, linkVars, active, recent, resumable, playerVars, desktopVars>>

-----------------------------------------------------------------------------
(* onCall. *)

(* trackCall, then the id of the ringing call is read. *)
ReadCall(p) ==
  LET e == Event(p).event IN
  /\ At(p, "idle") /\ toldPC[p] # <<>> /\ e \in CallEvents
  /\ toldPC' = [toldPC EXCEPT ![p] = Tail(@)]
  /\ active' = [active EXCEPT ![p] = IF e \in {"ringing", "talking"} THEN e ELSE "none"]
  /\ Becomes(p, [Idle EXCEPT !.step = IF e = "ringing" THEN "pause" ELSE "close",
                             !.event = e, !.id = ids[<<p, 0>>]])
  /\ UNCHANGED <<onPhone, linkVars, recent, ids, resumable, playerVars, desktopVars>>

(* pausePlaying, unless the user does not want it. *)
PausePlaying(p) ==
  LET h == handler[p] IN
  /\ At(p, "pause")
  /\ \/ /\ playing # {} /\ playing' = {} /\ byUs' = byUs \union playing
        /\ Becomes(p, [h EXCEPT !.step = "hold", !.held = playing])
     \/ /\ Becomes(p, IF h.event = "ringing" THEN [h EXCEPT !.step = "notify"] ELSE Idle)
        /\ UNCHANGED playerVars
  /\ UNCHANGED <<onPhone, toldPC, linkVars, active, recent, ids, resumable, desktopVars>>

(* Wrong variant: the players of this pass only are remembered. *)
HeldPlayers_Last(p) == handler[p].held

HeldPlayers(p) == resumable[p] \union handler[p].held

HoldPlayers(p) ==
  LET h == handler[p] IN
  /\ At(p, "hold")
  /\ resumable' = [resumable EXCEPT ![p] = HeldPlayers(p)]
  /\ Becomes(p, IF h.event = "ringing" THEN [h EXCEPT !.step = "notify"] ELSE Idle)
  /\ UNCHANGED <<onPhone, toldPC, linkVars, active, recent, ids, playerVars, desktopVars>>

(* "talking": the ringing notification goes, and players are paused.       *)
Talking(p) ==
  /\ At(p, "close") /\ handler[p].event = "talking"
  /\ Close(handler[p].id)
  /\ Becomes(p, [handler[p] EXCEPT !.step = "pause"])
  /\ UNCHANGED <<onPhone, toldPC, linkVars, active, recent, ids, resumable, playerVars>>

(* "missed", "ended": what this phone's calls paused plays again.          *)
CallOver(p) ==
  /\ At(p, "close") /\ handler[p].event \in {"missed", "ended"}
  /\ Close(handler[p].id)
  /\ ids' = [ids EXCEPT ![<<p, 0>>] = 0]
  /\ playing' = playing \union resumable[p] /\ byUs' = byUs \ resumable[p]
  /\ resumable' = [resumable EXCEPT ![p] = {}]
  /\ Becomes(p, Idle)
  /\ UNCHANGED <<onPhone, toldPC, linkVars, active, recent>>

-----------------------------------------------------------------------------
(* onPhoneNotification, removePhoneNotification. *)

ReadPosted(p) ==
  LET n == Event(p).note IN
  /\ At(p, "idle") /\ toldPC[p] # <<>> /\ Event(p).event = "posted"
  /\ toldPC' = [toldPC EXCEPT ![p] = Tail(@)]
  /\ recent' = [recent EXCEPT ![p] = @ \union {n}]
  /\ handler' \in {handler, [handler EXCEPT ![p] = [Idle EXCEPT !.step = "notify", !.note = n]]}
  /\ UNCHANGED <<onPhone, linkVars, active, ids, resumable, playerVars, desktopVars>>

Unlist(p, n) ==
  /\ recent' = [recent EXCEPT ![p] = @ \ {n}]
  /\ ids' = [ids EXCEPT ![<<p, n>>] = 0]
  /\ Close(ids[<<p, n>>])

ReadRemoved(p) ==
  /\ At(p, "idle") /\ toldPC[p] # <<>> /\ Event(p).event = "removed"
  /\ toldPC' = [toldPC EXCEPT ![p] = Tail(@)]
  /\ Unlist(p, Event(p).note)
  /\ UNCHANGED <<onPhone, linkVars, active, handler, resumable, playerVars>>

(* Wrong variant: the phone is not told. *)
SendDismiss_Never(p, n) == UNCHANGED toldPhone

SendDismiss(p, n) ==
  toldPhone' = IF p \in linkedTo THEN [toldPhone EXCEPT ![p] = Append(@, n)] ELSE toldPhone

(* DismissPhoneNotification, in the window: beside the handlers.           *)
Dismiss(p, n) ==
  /\ p \in linkedTo /\ n \in recent[p]
  /\ Unlist(p, n) /\ SendDismiss(p, n)
  /\ UNCHANGED <<call, notes, hushed, untold, events, toldPC, linkVars, active, handler, resumable, playerVars>>

-----------------------------------------------------------------------------
(* The desktop and the user. *)

(* The user closes a notification on the desktop. *)
UserCloses ==
  \E s \in screen :
    /\ screen' = screen \ {s} /\ orphans' = orphans \ {s} /\ signalled' = Append(signalled, <<s[1], TRUE>>)
    /\ UNCHANGED <<onPhone, toldPC, linkVars, active, recent, handler, ids, resumable, playerVars,
                   pending, closings>>

(* A signal about a notification that is registered starts its OnClosed;   *)
(* calls have none.                                                        *)
SignalComes ==
  LET s == Head(signalled) IN
  /\ signalled # <<>> /\ signalled' = Tail(signalled)
  /\ pending' = [i \in DOMAIN pending \ {s[1]} |-> pending[i]]
  /\ closings' = IF s[1] \in DOMAIN pending /\ pending[s[1]][2] # 0
                 THEN closings \union {<<pending[s[1]], s[2]>>} ELSE closings
  /\ UNCHANGED <<onPhone, toldPC, linkVars, active, recent, handler, ids, resumable, playerVars, screen, orphans>>

(* A dismissal by the user goes to the phone, unless the link that the     *)
(* notification came over has been replaced.                               *)
OnClosed ==
  \E c \in closings :
    /\ closings' = closings \ {c}
    /\ ids' = [ids EXCEPT ![c[1]] = 0]
    /\ \/ c[2] /\ SendDismiss(c[1][1], c[1][2])
       \/ UNCHANGED toldPhone
    /\ UNCHANGED <<call, notes, hushed, untold, events, toldPC, linkVars, active, recent, handler, resumable,
                   playerVars, screen, orphans, pending, signalled>>

UserPlays(m) ==
  /\ moves < MaxMoves /\ moves' = moves + 1
  /\ playing' = IF m \in playing THEN playing \ {m} ELSE playing \union {m}
  /\ byUs' = byUs \ {m}
  /\ UNCHANGED <<onPhone, toldPC, linkedTo, cut, active, recent, handler, ids, resumable, desktopVars>>

EventsNext ==
  \/ \E p \in Mobiles :
       \/ RetellCall(p) \/ DismissOnPhone(p) \/ LinkGoes(p) \/ LinkComes(p)
       \/ \E s \in CallStates : CallEvent(p, s)
       \/ \E n \in {0} \union Notes : Hush(p, n)
       \/ \E n \in Notes : Post(p, n) \/ RemoveNote(p, n) \/ Dismiss(p, n)
       \/ Notify(p) \/ NotifyFails(p) \/ Register(p) \/ StoreId(p)
       \/ ReadCall(p) \/ PausePlaying(p) \/ HoldPlayers(p) \/ Talking(p) \/ CallOver(p)
       \/ ReadPosted(p) \/ ReadRemoved(p)
  \/ UserCloses \/ SignalComes \/ OnClosed
  \/ \E m \in Players : UserPlays(m)

EventsSpec == EventsInit /\ [][EventsNext]_eVars

-----------------------------------------------------------------------------
Handled(p) == handler[p] = Idle /\ toldPC[p] = <<>>

(* onCall: a phone whose call is over, and which got that through, has no  *)
(* ringing notification on the screen, but for one that the desktop's      *)
(* service failed to replace or to close; and once no phone has a call,    *)
(* every player that was paused for one plays again, whatever the user did *)
(* to the players and however the phones' calls overlapped.                *)
AfterCalls ==
  ~cut =>
    /\ \A p \in Callers : call[p] = "none" /\ Handled(p) => \A s \in screen \ orphans : s[2] # <<p, 0>>
    /\ (\A p \in Callers : call[p] = "none" /\ Handled(p)) => byUs = {}

(* GetPhoneNotifications returns "a device's current notifications":       *)
(* unless a packet was lost with a link, what is listed for a phone is     *)
(* what the phone shows once everything sent either way was handled, for   *)
(* all that was dismissed here, there and on the desktop at once, but for  *)
(* what came or went while the user kept it from the computer and of which *)
(* nothing was told since.  (Of a phone that shows no more than are kept.) *)
ListFollowsPhone ==
  \A p \in Mobiles :
    ~cut /\ Handled(p) /\ toldPhone[p] = <<>> => recent[p] \ untold[p] = notes[p] \ untold[p]
=============================================================================
