------------------------------- MODULE Loops --------------------------------
(***************************************************************************)
(* The loops of a computer that look at its links again and again: sending *)
(* its status (desktop/features_app.go sendStatusLoop) and its media       *)
(* (desktop/media_app.go), keeping awake (desktop/keepawake_app.go) and    *)
(* locking when a phone leaves (desktop/proximity_app.go).  Each reads the *)
(* links, then the state it is about, then acts on both, while links,      *)
(* state and settings change.                                              *)
(*                                                                         *)
(* One device; its links are numbered.  A status and a media state are     *)
(* their numbers of changes.                                               *)
(***************************************************************************)
EXTENDS Integers, FiniteSets

CONSTANTS
  Running,    \* the loops looked at: "status", "media", "awake", "near"
  MaxLinks, MaxChanges,  \* bounds on links and on changes of all else
  MaxFailed   \* bound on calls of the desktop that fail

VARIABLES
  link,      \* the device's link, or 0
  relayed,   \* it goes through the relay
  lastLink,
  setting,   \* the switch keepAwake or proximityLock of the device
  status, media, locked, changes, failed,
  gotStatus, gotMedia,         \* what the device got last; -1 for nothing
  teller,    \* sendStatusLoop: step, links and state it read, whether they changed
  told, last, due,             \* links told, the state told, statusInterval is over
  player,    \* sendMediaLoop, likewise
  toldMedia, kick, watched,    \* links told, the kick, changes the watchers told of
  held, wanted,                \* setupKeepAwake
  cookie,                      \* idleInhibit has one
  leaked,                      \* an inhibition is still there, but its cookie is forgotten
  seenNear, away, done,        \* setupProximityLock; away: "no", "yes" or "grace" over
  absence    \* since the device was last seen near: the computer was "locked" at some
             \* time, lockScreen "failed", or it has been "open"

loopVars == <<link, relayed, lastLink, setting, status, media, locked, changes, failed,
              gotStatus, gotMedia, teller, told, last, due, player, toldMedia, kick, watched,
              held, wanted, cookie, leaked, seenNear, away, done, absence>>
linkVars   == <<link, relayed, lastLink>>
worldVars  == <<setting, status, media, changes>>
statusVars == <<gotStatus, teller, told, last, due>>
mediaVars  == <<gotMedia, player, toldMedia, kick, watched>>
awakeVars  == <<held, wanted, cookie, leaked>>
nearVars   == <<seenNear, away, done, absence>>

Waiting == [step |-> "wait", links |-> {}, state |-> 0, changed |-> FALSE]
Links   == {link} \ {0}
Status  == [no |-> status, locked |-> locked]
Nothing == [no |-> -1, locked |-> FALSE]

LoopsOK ==
  /\ link \in 0..lastLink /\ lastLink \in 0..MaxLinks /\ relayed \in BOOLEAN /\ setting \in BOOLEAN
  /\ status \in 0..MaxChanges /\ media \in 0..MaxChanges /\ changes \in 0..MaxChanges
  /\ failed \in 0..MaxFailed /\ locked \in BOOLEAN /\ gotMedia \in -1..media /\ gotStatus.no \in -1..status
  /\ teller.step \in {"wait", "read", "send"} /\ player.step \in {"wait", "settle", "look", "read", "send"}
  /\ told \subseteq 1..MaxLinks /\ toldMedia \subseteq 1..MaxLinks
  /\ last.no \in -1..status /\ due \in BOOLEAN /\ kick \in BOOLEAN /\ watched \in 0..media
  /\ held \in BOOLEAN /\ wanted \in {"look", "hold", "release"} /\ cookie \in BOOLEAN /\ leaked \in BOOLEAN
  /\ seenNear \in BOOLEAN /\ away \in {"no", "yes", "grace"} /\ done \in BOOLEAN
  /\ absence \in {"open", "locked", "failed"}

Init ==
  /\ link = 0 /\ relayed = FALSE /\ lastLink = 0 /\ setting = TRUE
  /\ status = 0 /\ media = 0 /\ locked = FALSE /\ changes = 0 /\ failed = 0
  /\ gotStatus = Nothing /\ gotMedia = -1
  /\ teller = Waiting /\ told = {} /\ last = Nothing /\ due = TRUE
  /\ player = Waiting /\ toldMedia = {} /\ kick = FALSE /\ watched = 0
  /\ held = FALSE /\ wanted = "look" /\ cookie = FALSE /\ leaked = FALSE
  /\ seenNear = FALSE /\ away = "no" /\ done = FALSE /\ absence = "open"

-----------------------------------------------------------------------------
(* Links, players and users. *)
LinkUp(r) ==
  /\ lastLink < MaxLinks /\ lastLink' = lastLink + 1 /\ link' = lastLink' /\ relayed' = r
  /\ UNCHANGED <<worldVars, locked, failed, statusVars, mediaVars, awakeVars, nearVars>>

LinkDown ==
  /\ link # 0 /\ link' = 0 /\ relayed' = FALSE
  /\ UNCHANGED <<lastLink, worldVars, locked, failed, statusVars, mediaVars, awakeVars, nearVars>>

Meanwhile(else) == IF locked' THEN "locked" ELSE else

Change ==
  /\ changes < MaxChanges /\ changes' = changes + 1
  /\ \/ "status" \in Running /\ status' = status + 1 /\ UNCHANGED <<setting, media, locked>>
     \/ "media" \in Running /\ media' = media + 1 /\ UNCHANGED <<setting, status, locked>>
     \/ Running \intersect {"awake", "near"} # {} /\ setting' = ~setting /\ UNCHANGED <<status, media, locked>>
     \/ locked' = ~locked /\ UNCHANGED <<setting, status, media>>
  /\ absence' = Meanwhile(absence)
  /\ UNCHANGED <<linkVars, failed, statusVars, mediaVars, awakeVars, seenNear, away, done>>

-----------------------------------------------------------------------------
(* sendStatusLoop *)

(* Something to send: a new link, another lock, or it was long ago. *)
LookAtLinks ==
  /\ "status" \in Running /\ teller.step = "wait"
  /\ told' = told \intersect Links
  /\ IF Links \ told # {} \/ due \/ locked # last.locked
       THEN teller' = [Waiting EXCEPT !.step = "read", !.links = Links] /\ due' = FALSE
       ELSE UNCHANGED <<teller, due>>
  /\ UNCHANGED <<gotStatus, last>>

ReadStatus ==
  /\ teller.step = "read"
  /\ last' = Status
  /\ teller' = [teller EXCEPT !.step = "send", !.changed = (Status # last)]
  /\ UNCHANGED <<gotStatus, told, due>>

(* Wrong variant: the links there are by then are taken to be told.        *)
NowTold_Current == told \union Links
NowTold == told \union teller.links

SendStatus ==
  /\ teller.step = "send"
  /\ gotStatus' = IF link \in teller.links /\ (teller.changed \/ link \notin told) THEN last ELSE gotStatus
  /\ told' = NowTold
  /\ teller' = Waiting
  /\ UNCHANGED <<last, due>>

StatusDue == ~due /\ due' = TRUE /\ UNCHANGED <<gotStatus, teller, told, last>>

StatusStep == LookAtLinks \/ ReadStatus \/ SendStatus

-----------------------------------------------------------------------------
(* sendMediaLoop; the watchers kick it some time after each change. *)
Kick ==
  /\ watched < media /\ watched' = media /\ kick' = TRUE
  /\ UNCHANGED <<gotMedia, player, toldMedia>>

WakeOnKick ==
  /\ player.step = "wait" /\ kick /\ kick' = FALSE
  /\ player' = [Waiting EXCEPT !.step = "settle", !.changed = TRUE]
  /\ UNCHANGED <<gotMedia, toldMedia, watched>>

WakeOnTick ==
  /\ "media" \in Running /\ player.step = "wait"
  /\ player' = [Waiting EXCEPT !.step = "look"]
  /\ UNCHANGED <<gotMedia, toldMedia, kick, watched>>

(* Several kicks for one change are one. *)
Settle ==
  /\ player.step = "settle" /\ kick' = FALSE
  /\ player' = [player EXCEPT !.step = "look"]
  /\ UNCHANGED <<gotMedia, toldMedia, watched>>

LookForTargets ==
  LET targets == IF player.changed THEN Links ELSE Links \ toldMedia IN
  /\ player.step = "look"
  /\ toldMedia' = toldMedia \intersect Links
  /\ player' = IF targets = {} THEN Waiting ELSE [player EXCEPT !.step = "read", !.links = targets]
  /\ UNCHANGED <<gotMedia, kick, watched>>

ReadMedia ==
  /\ player.step = "read"
  /\ player' = [player EXCEPT !.step = "send", !.state = media]
  /\ UNCHANGED <<gotMedia, toldMedia, kick, watched>>

(* Wrong variant: the kick is taken back only now. *)
SendMedia_Drains ==
  /\ player.step = "send" /\ kick' = FALSE
  /\ gotMedia' = IF link \in player.links THEN player.state ELSE gotMedia
  /\ toldMedia' = toldMedia \union player.links
  /\ player' = Waiting
  /\ UNCHANGED watched

SendMedia ==
  /\ player.step = "send"
  /\ gotMedia' = IF link \in player.links THEN player.state ELSE gotMedia
  /\ toldMedia' = toldMedia \union player.links
  /\ player' = Waiting
  /\ UNCHANGED <<kick, watched>>

MediaStep == WakeOnTick \/ Settle \/ LookForTargets \/ ReadMedia \/ SendMedia

-----------------------------------------------------------------------------
(* setupKeepAwake: what is wanted is read, then asked of the desktop. *)
Awake == link # 0 /\ setting

LookIfWanted ==
  /\ "awake" \in Running /\ wanted = "look"
  /\ wanted' = CASE Awake /\ ~held -> "hold"
                 [] ~Awake /\ held -> "release"
                 [] OTHER -> "look"
  /\ UNCHANGED <<held, cookie, leaked, failed>>

(* setIdleInhibit: nothing is asked if the cookie says it is so already;   *)
(* the cookie goes whether Uninhibit fails or not.                         *)
Inhibit ==
  LET hold == wanted = "hold" IN
  /\ wanted # "look" /\ wanted' = "look"
  /\ \/ held' = hold /\ cookie' = hold /\ UNCHANGED <<leaked, failed>>
     \/ /\ cookie # hold /\ failed < MaxFailed /\ failed' = failed + 1
        /\ leaked' = (leaked \/ cookie) /\ cookie' = FALSE /\ held' = held

AwakeStep == LookIfWanted \/ Inhibit

-----------------------------------------------------------------------------
(* setupProximityLock: a round over the device, if it has the switch on.   *)
Near == link # 0 /\ ~relayed

LooksAround ==
  /\ "near" \in Running /\ setting
  /\ \/ /\ Near /\ seenNear' = TRUE /\ away' = "no" /\ done' = FALSE
        /\ UNCHANGED <<locked, failed>> /\ absence' = Meanwhile("open")
     \/ /\ ~Near /\ seenNear /\ ~done /\ away = "no"
        /\ away' = "yes" /\ UNCHANGED <<seenNear, done, absence, locked, failed>>
     \/ /\ ~Near /\ seenNear /\ ~done /\ away = "grace"
        /\ done' = TRUE /\ UNCHANGED <<seenNear, away>>
        /\ \/ locked' = TRUE /\ failed' = failed
           \/ ~locked /\ failed < MaxFailed /\ failed' = failed + 1 /\ locked' = locked
        /\ absence' = Meanwhile("failed")

GraceOver == away = "yes" /\ away' = "grace" /\ UNCHANGED <<seenNear, done, absence, locked, failed>>

-----------------------------------------------------------------------------
ButStatus == UNCHANGED <<linkVars, worldVars, locked, failed, mediaVars, awakeVars, nearVars>>
ButMedia  == UNCHANGED <<linkVars, worldVars, locked, failed, statusVars, awakeVars, nearVars>>
ButAwake  == UNCHANGED <<linkVars, worldVars, locked, statusVars, mediaVars, nearVars>>
ButNear   == UNCHANGED <<linkVars, worldVars, statusVars, mediaVars, awakeVars>>

Next ==
  \/ \E r \in BOOLEAN : LinkUp(r)
  \/ LinkDown \/ Change
  \/ (StatusStep \/ StatusDue) /\ ButStatus
  \/ (MediaStep \/ WakeOnKick \/ Kick) /\ ButMedia
  \/ AwakeStep /\ ButAwake
  \/ (LooksAround \/ GraceOver) /\ ButNear

(* The loops go round, timers fire and watchers tell; of a tick and a kick *)
(* that are both there, select takes either at random.                     *)
Fairness ==
  /\ WF_loopVars(StatusStep /\ ButStatus) /\ WF_loopVars(StatusDue /\ ButStatus)
  /\ WF_loopVars(MediaStep /\ ButMedia) /\ WF_loopVars(Kick /\ ButMedia)
  /\ SF_loopVars(WakeOnKick /\ ButMedia)
  /\ WF_loopVars(AwakeStep /\ ButAwake)
  /\ WF_loopVars(LooksAround /\ ButNear) /\ WF_loopVars(GraceOver /\ ButNear)
FairSpec == Init /\ [][Next]_loopVars /\ Fairness

-----------------------------------------------------------------------------
(* A linked device has the last status and media.  While the device is     *)
(* linked and wants that, the desktop is asked to stay awake; else it is   *)
(* not, unless an Uninhibit failed, which is not tried again.  A phone     *)
(* that was near and has gone had the computer locked, or lockScreen       *)
(* failed, which is not tried again either while it is away.               *)
Inhibited == cookie \/ leaked

Settled ==
  /\ "status" \in Running /\ link # 0 => gotStatus = Status
  /\ "media" \in Running /\ link # 0 => gotMedia = media
  /\ "awake" \in Running => held = Awake /\ (Inhibited = Awake \/ leaked)
  /\ "near" \in Running /\ setting =>
       done = (seenNear /\ ~Near) /\ (done => absence # "open")

(* So it is once links, settings and what is told stay as they are,        *)
(* whatever changed between what the loops read.                           *)
LoopsSettle == <>[]Settled
=============================================================================
