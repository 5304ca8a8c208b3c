---------------------------- MODULE RemoteInput ------------------------------
(***************************************************************************)
(* Phones as touchpads and keyboards of a computer (desktop/input_app.go,  *)
(* desktop/input_linux.go, desktop/textfocus_linux.go and the phone's      *)
(* touchpad screen).  One session of the desktop's portal serves all       *)
(* phones: it is started for the first of them, closed when any of them    *)
(* leaves or when it is not used for inputIdle, and started again by the   *)
(* next event.  Starts are goroutines, one at a time, and last as long as  *)
(* the user takes to answer; stops and events do not wait for them.        *)
(* A packet is handled when it is sent.  The portal answers every request  *)
(* but the one that asks the user, which may stay without an answer.       *)
(***************************************************************************)
EXTENDS Integers, FiniteSets

CONSTANTS
  Phones,
  MaxStarts,   \* bound: input.start packets
  MaxEvents,   \* bound: events that find no session, or one not used for long
  MaxLinks     \* bound: links of each phone

VARIABLES
  screen,     \* [phone -> "closed", "starting", "ready", "paused", "failed"]
  input,      \* [phone -> the link its touchpad sends on, 0 before it is ready]
  link,       \* [phone -> its link, 0 without one]
  used,       \* [phone -> links so far]
  starts,     \* [start -> its step, phone and link; phone is NoPhone for an event's]
  begun,      \* starts so far
  asked,      \* those by input.start
  restarting,
  holder,     \* the start that has inputStarting, 0 when none
  open,       \* sessions of the portal
  closed,     \* sessions whose Closed signal is on its way
  created,    \* sessions so far
  session,    \* remoteInput.session, 0 when none
  idle,       \* there is one, and remoteInput.last is longer ago than inputIdle
  events,
  reader,     \* [phone -> "stop" in the middle of its input.stop]
  focus,      \* who is told of text focus, Nobody when none
  waiters     \* goroutines that wait for a link's end

inputVars == <<screen, input, link, used, starts, begun, asked, restarting, holder, open, closed,
               created, session, idle, events, reader, focus, waiters>>
phoneVars   == <<screen, input, link, used>>
startVars   == <<starts, begun, asked, restarting, holder>>
sessionVars == <<open, closed, created, session, idle>>
focusVars   == <<focus, waiters>>

NoPhone   == "none"
Nobody == [phone |-> NoPhone, link |-> 0]
Of(p)  == [phone |-> p, link |-> link[p]]
Starts == 1 .. MaxStarts + MaxEvents

(* Every variable has its type; there is one session at a time, the one    *)
(* in use or the one being started.                                        *)
InputOK ==
  /\ screen \in [Phones -> {"closed", "starting", "ready", "paused", "failed"}]
  /\ \A p \in Phones : {input[p], link[p]} \subseteq 0..used[p] /\ used[p] \in 0..MaxLinks
  /\ \A t \in Starts : t > begun <=> starts[t].step = "no"
  /\ asked \in 0..MaxStarts /\ events \in 0..MaxEvents /\ begun \in {0} \union Starts
  /\ restarting <=> \E t \in 1..begun : starts[t].phone = NoPhone /\ starts[t].step # "over"
  /\ holder = 0 <=> \A t \in Starts : starts[t].step \notin {"asks", "set"}
  /\ Cardinality(open) <= 1
  /\ open \subseteq {session, created} /\ session \in {0, created} /\ closed \subseteq 1..created
  /\ session # 0 => holder = 0
  /\ reader \in [Phones -> {"free", "stop"}]
  /\ idle => session # 0

Init ==
  /\ screen = [p \in Phones |-> "closed"] /\ input = [p \in Phones |-> 0]
  /\ link = [p \in Phones |-> 0] /\ used = link
  /\ starts = [t \in Starts |-> [step |-> "no", phone |-> NoPhone, link |-> 0]]
  /\ begun = 0 /\ asked = 0 /\ restarting = FALSE /\ holder = 0
  /\ open = {} /\ closed = {} /\ created = 0 /\ session = 0 /\ idle = FALSE /\ events = 0
  /\ reader = [p \in Phones |-> "free"]
  /\ focus = Nobody /\ waiters = {}

-----------------------------------------------------------------------------
(* The phones: their links and touchpad screens. *)
LinkUp(p) ==
  /\ link[p] = 0 /\ used[p] < MaxLinks
  /\ used' = [used EXCEPT ![p] = @ + 1] /\ link' = [link EXCEPT ![p] = used'[p]]
  /\ UNCHANGED <<screen, input, startVars, sessionVars, events, reader, focusVars>>

Open == {"starting", "ready", "paused"}

(* The start this screen waits for. *)
Awaited(p, t) ==
  /\ starts[t].phone = p /\ starts[t].step \notin {"no", "watch", "over"}
  /\ \A u \in Starts : u > t => starts[u].phone # p

(* The request for a start fails with the link. *)
LinkDown(p) ==
  /\ link[p] # 0 /\ link' = [link EXCEPT ![p] = 0]
  /\ screen' = IF screen[p] \in Open /\ \E t \in Starts : Awaited(p, t)
                 THEN [screen EXCEPT ![p] = "failed"] ELSE screen
  /\ UNCHANGED <<input, used, startVars, sessionVars, events, reader, focusVars>>

Begins(p, l) ==
  /\ starts' = [starts EXCEPT ![begun + 1] = [step |-> "waits", phone |-> p, link |-> l]]
  /\ begun' = begun + 1

(* The screen is opened, or the app comes back to it: input.start. *)
Opens(p) ==
  /\ link[p] # 0 /\ reader[p] = "free" /\ asked < MaxStarts /\ asked' = asked + 1
  /\ \/ screen[p] = "closed" /\ screen' = [screen EXCEPT ![p] = "starting"]
     \/ screen[p] = "paused" /\ screen' = [screen EXCEPT ![p] = "ready"]
  /\ Begins(p, link[p])
  /\ UNCHANGED <<input, link, used, restarting, holder, sessionVars, events, reader, focusVars>>

(* Without a link the screen only says so.  (When it is opened; then it    *)
(* asks for nothing until it is closed, and is taken for closed here.)     *)
ResumesUnlinked(p) ==
  /\ link[p] = 0 /\ screen[p] = "paused"
  /\ screen' = [screen EXCEPT ![p] = "failed"]
  /\ UNCHANGED <<input, link, used, startVars, sessionVars, events, reader, focusVars>>

StopSession ==
  /\ open' = open \ {session} /\ session' = 0 /\ idle' = FALSE
  /\ UNCHANGED <<closed, created>>

(* The screen is closed, or the app left.  A screen that was never ready   *)
(* has nothing to send input.stop with; it is lost without the link.       *)
Leaves(p) ==
  /\ \/ screen[p] \in {"starting", "ready", "paused", "failed"}
        /\ screen' = [screen EXCEPT ![p] = "closed"] /\ input' = [input EXCEPT ![p] = 0]
     \/ screen[p] = "ready" /\ screen' = [screen EXCEPT ![p] = "paused"] /\ UNCHANGED input
  /\ reader[p] = "free"
  /\ IF input[p] # 0 /\ input[p] = link[p]
       THEN StopSession /\ reader' = [reader EXCEPT ![p] = "stop"]
       ELSE UNCHANGED <<sessionVars, reader>>
  /\ UNCHANGED <<link, used, startVars, events, focusVars>>

(* The phone does not wait for a start any longer. *)
GivesUp(p) ==
  /\ \E t \in Starts : Awaited(p, t)
  /\ screen[p] \in Open /\ screen' = [screen EXCEPT ![p] = "failed"]
  /\ UNCHANGED <<input, link, used, startVars, sessionVars, events, reader, focusVars>>

(* An event is for the session there is; without one it is dropped, and a  *)
(* session is started in the background.                                   *)
Event(p) ==
  /\ screen[p] = "ready" /\ input[p] # 0 /\ input[p] = link[p] /\ reader[p] = "free"
  /\ events < MaxEvents /\ events' = events + 1
  /\ \/ session # 0 /\ idle /\ idle' = FALSE /\ UNCHANGED startVars
     \/ /\ session = 0 /\ ~restarting /\ restarting' = TRUE
        /\ Begins(NoPhone, 0) /\ UNCHANGED <<asked, holder, idle>>
  /\ UNCHANGED <<phoneVars, open, closed, created, session, reader, focusVars>>

-----------------------------------------------------------------------------
(* startInput. *)
Goes(t, s) == starts' = [starts EXCEPT ![t].step = s]

(* With inputStarting: a session that runs will do, else one is created.   *)
Enter(t) ==
  /\ starts[t].step = "waits" /\ holder = 0 /\ idle' = FALSE
  /\ \/ session # 0 /\ Goes(t, "ok") /\ UNCHANGED <<holder, open, created>>
     \/ session = 0 /\ Goes(t, "denied") /\ UNCHANGED <<holder, open, created>>
     \/ /\ session = 0 /\ Goes(t, "asks") /\ holder' = t
        /\ created' = created + 1 /\ open' = open \union {created'}
  /\ UNCHANGED <<phoneVars, begun, asked, restarting, closed, session, events, reader, focusVars>>

Agree(t) ==
  /\ starts[t].step = "asks" /\ Goes(t, "set")
  /\ UNCHANGED <<phoneVars, begun, asked, restarting, holder, sessionVars, events, reader, focusVars>>

(* The user refuses, or does not answer within portalAsk. *)
Deny(t) ==
  /\ starts[t].step = "asks" /\ Goes(t, "denied") /\ holder' = 0
  /\ open' = open \ {created}
  /\ UNCHANGED <<phoneVars, begun, asked, restarting, closed, created, session, idle, events, reader, focusVars>>

SetSession(t) ==
  /\ starts[t].step = "set" /\ Goes(t, "ok") /\ holder' = 0
  /\ session' = created /\ idle' = FALSE
  /\ UNCHANGED <<phoneVars, begun, asked, restarting, open, closed, created, events, reader, focusVars>>

(* A restart is over; a phone gets its reply, on the link it asked on and  *)
(* for the screen it asked for.                                            *)
Reply(t) ==
  LET p == starts[t].phone  ok == starts[t].step = "ok" IN
  /\ starts[t].step \in {"ok", "denied"}
  /\ Goes(t, IF ok /\ p # NoPhone THEN "watch" ELSE "over")
  /\ restarting' = (restarting /\ p # NoPhone)
  /\ IF p # NoPhone /\ link[p] = starts[t].link /\ Awaited(p, t) /\ screen[p] \in Open
       THEN /\ input' = IF ok THEN [input EXCEPT ![p] = link[p]] ELSE input
            /\ screen' = CASE ~ok                    -> [screen EXCEPT ![p] = "failed"]
                           [] screen[p] = "starting" -> [screen EXCEPT ![p] = "ready"]
                           [] OTHER                  -> screen
       ELSE UNCHANGED <<input, screen>>
  /\ UNCHANGED <<link, used, begun, asked, holder, sessionVars, events, reader, focusVars>>

-----------------------------------------------------------------------------
(* The session ends. *)

(* The user ends it from the desktop; the signal comes after, or before    *)
(* the session is set: then it is taken to run until it was idle.          *)
UserEnds ==
  /\ \E s \in open : /\ s = session \/ \E t \in Starts : starts[t].step = "set"
                     /\ closed' = closed \union {s} /\ open' = open \ {s}
  /\ UNCHANGED <<phoneVars, startVars, created, session, idle, events, reader, focusVars>>

Signal(s) ==
  /\ s \in closed /\ closed' = closed \ {s}
  /\ session' = IF session = s THEN 0 ELSE session
  /\ idle' = (idle /\ session # s)
  /\ UNCHANGED <<phoneVars, startVars, open, created, events, reader, focusVars>>

Idles ==
  /\ session # 0 /\ ~idle /\ idle' = TRUE
  /\ UNCHANGED <<phoneVars, startVars, open, closed, created, session, events, reader, focusVars>>

(* Wrong variant: a session is kept while a phone is told of text focus.   *)
Unused_NobodyTold == idle /\ focus = Nobody

Unused == idle

CloseIdle ==
  /\ session # 0 /\ Unused /\ StopSession
  /\ UNCHANGED <<phoneVars, startVars, events, reader, focusVars>>

-----------------------------------------------------------------------------
(* Text focus: told to the last phone that started, if the desktop tells. *)
Watch(t) ==
  LET to == [phone |-> starts[t].phone, link |-> starts[t].link] IN
  /\ starts[t].step = "watch" /\ Goes(t, "over")
  /\ focus' = to /\ waiters' = waiters \union {to}
  /\ UNCHANGED <<phoneVars, begun, asked, restarting, holder, sessionVars, events, reader>>

StopTextFocus == focus' = Nobody

(* The second half of input.stop. *)
StopsFocus(p) ==
  /\ reader[p] = "stop" /\ reader' = [reader EXCEPT ![p] = "free"]
  /\ StopTextFocus
  /\ UNCHANGED <<phoneVars, startVars, sessionVars, events, waiters>>

LinkEnded(w) ==
  /\ w \in waiters /\ link[w.phone] # w.link /\ waiters' = waiters \ {w}
  /\ StopTextFocus
  /\ UNCHANGED <<phoneVars, startVars, sessionVars, events, reader>>

Steps ==
  \/ \E t \in Starts : Enter(t) \/ Agree(t) \/ Deny(t) \/ SetSession(t) \/ Reply(t) \/ Watch(t)
  \/ \E s \in 1..created : Signal(s)
  \/ \E p \in Phones : StopsFocus(p)
  \/ \E w \in waiters : LinkEnded(w)
  \/ Idles \/ CloseIdle

Next ==
  \/ \E p \in Phones : LinkUp(p) \/ LinkDown(p) \/ Opens(p) \/ ResumesUnlinked(p) \/ Leaves(p) \/ GivesUp(p) \/ Event(p)
  \/ Steps \/ UserEnds

Spec == Init /\ [][Next]_inputVars /\ WF_inputVars(Steps)

-----------------------------------------------------------------------------
(* "After the idle timeout the session is gone", "a phone that drops off   *)
(* without input.stop stops it too": however phones come, leave, give up   *)
(* and drop off while the user is asked, when nothing is sent any more no  *)
(* session stays open at the portal, the computer does not think that one  *)
(* is, and no link that has ended is told of text focus.                   *)
NoneLeft ==
  /\ open = {} /\ session = 0
  /\ focus # Nobody => link[focus.phone] = focus.link
SessionsEnd == <>[]NoneLeft
=============================================================================
