------------------------------- MODULE Limits -------------------------------
(***************************************************************************)
(* What phones start on a computer and what ends by itself if nobody ends  *)
(* it: a recording of the screen (desktop/screen_app.go,                   *)
(* desktop/screen_linux.go) and ringing (desktop/features_app.go).  Both   *)
(* keep "the one that goes on" in a variable and end whatever it holds     *)
(* when a limit passes, also the limit of an earlier one that was already  *)
(* on its way.  Pictures of the screen are kept with the recordings.       *)
(***************************************************************************)
EXTENDS Integers, FiniteSets

CONSTANTS
  Jobs,     \* packets about captures, each handled in a goroutine
  Captures, \* files of pictures and recordings
  Rings     \* packets that ask for ringing, numbers from 1

VARIABLES
  job,       \* [Jobs -> "new", "look", "replied"]
  told,      \* [Jobs -> whether the reply says that a recording is going on]
  files,     \* captures that may be fetched and cropped
  recording, \* a.screen.recording: the number of the recording, 0 when none
  path,      \* its file
  count,     \* recordings so far
  timers,    \* limits that run
  fired,     \* limits that passed and whose stop waits for the lock
  recorder,  \* GNOME records
  unstopped, \* a stop has failed: GNOME may go on
  asker,     \* [Rings -> what its handler is at]
  ringStop,  \* the ringing that goes on, 0 when none
  ringNotif, \* its notification, 0 when unknown
  shown,     \* ringings whose notification is on the screen
  ringers,   \* goroutines that play the sound
  stopped    \* ringings told to stop

lVars == <<job, told, files, recording, path, count, timers, fired, recorder, unstopped,
           asker, ringStop, ringNotif, shown, ringers, stopped>>
recVars  == <<files, recording, path, count, timers, fired, recorder, unstopped>>
ringVars == <<asker, ringStop, ringNotif, shown, ringers, stopped>>

Recordings == 1..Cardinality(Jobs)

LimitsOK ==
  /\ job \in [Jobs -> {"new", "look", "replied"}] /\ told \in [Jobs -> BOOLEAN]
  /\ files \subseteq Captures /\ path \in Captures
  /\ recording \in {0} \union Recordings /\ count \in {0} \union Recordings
  /\ timers \union fired \subseteq Recordings /\ recorder \in BOOLEAN /\ unstopped \in BOOLEAN
  /\ asker \in [Rings -> {"new", "notify", "store", "start", "done"}]
  /\ ringStop \in {0} \union Rings /\ ringNotif \in {0} \union Rings
  /\ shown \union ringers \union stopped \subseteq Rings

Init ==
  /\ job = [j \in Jobs |-> "new"] /\ told = [j \in Jobs |-> FALSE]
  /\ files = {} /\ recording = 0 /\ path = (CHOOSE c \in Captures : TRUE) /\ count = 0
  /\ timers = {} /\ fired = {} /\ recorder = FALSE /\ unstopped = FALSE
  /\ asker = [r \in Rings |-> "new"] /\ ringStop = 0 /\ ringNotif = 0
  /\ shown = {} /\ ringers = {} /\ stopped = {}

-----------------------------------------------------------------------------
(* Recordings: start and stop hold the lock while they talk to GNOME. *)

Does(j) ==
  /\ job[j] = "new" /\ job' = [job EXCEPT ![j] = "look"]
  /\ UNCHANGED <<told, ringVars>>

(* Wrong variant: the limit is set for the first recording only. *)
Limited_Once(n) == IF n = 1 THEN timers \union {n} ELSE timers

Limited(n) == timers \union {n}

(* startRecording: nothing when one goes on; GNOME may refuse. *)
StartRecording(j) ==
  /\ Does(j)
  /\ \/ UNCHANGED recVars
     \/ /\ recording = 0
        /\ recording' = count + 1 /\ count' = count + 1
        /\ timers' = Limited(count + 1)
        /\ path' \in Captures /\ recorder' = TRUE
        /\ UNCHANGED <<files, fired, unstopped>>

(* stopRecording: a limit that has passed is not called back; when GNOME   *)
(* does not stop, the recording is forgotten all the same.                 *)
StopWhatRecords ==
  IF recording = 0 THEN UNCHANGED <<files, recording, timers, recorder, unstopped>>
  ELSE /\ timers' = timers \ {recording} /\ recording' = 0
       /\ \/ recorder' = FALSE /\ files' = files \union {path} /\ UNCHANGED unstopped
          \/ unstopped' = TRUE /\ UNCHANGED <<recorder, files>>

StopRecording(j) ==
  /\ Does(j) /\ StopWhatRecords
  /\ UNCHANGED <<path, count, fired>>

LimitPasses(n) ==
  /\ n \in timers
  /\ timers' = timers \ {n} /\ fired' = fired \union {n}
  /\ UNCHANGED <<job, told, files, recording, path, count, recorder, unstopped, ringVars>>

LimitStops(n) ==
  /\ n \in fired /\ fired' = fired \ {n}
  /\ StopWhatRecords
  /\ UNCHANGED <<job, told, path, count, ringVars>>

(* GNOME's own button. *)
UserStops ==
  /\ recorder /\ recorder' = FALSE
  /\ UNCHANGED <<job, told, files, recording, path, count, timers, fired, unstopped, ringVars>>

(* A picture gets the name of the second it is taken in; cropping and      *)
(* fetching are refused for files that are not captures.                   *)
Screenshot(j) ==
  /\ Does(j)
  /\ files' \in {files} \union {files \union {c} : c \in Captures}
  /\ UNCHANGED <<recording, path, count, timers, fired, recorder, unstopped>>

CropOrFetch(j) == Does(j) /\ UNCHANGED recVars

(* The reply tells what goes on when it is made, not what the job did. *)
ReplyTo(j) ==
  /\ job[j] = "look" /\ job' = [job EXCEPT ![j] = "replied"]
  /\ told' = [told EXCEPT ![j] = recording # 0]
  /\ UNCHANGED <<recVars, ringVars>>

-----------------------------------------------------------------------------
(* Ringing. *)

(* startRinging in the reader of a phone's link, or at once nothing. *)
StartRinging(r) ==
  /\ asker[r] = "new"
  /\ IF ringStop = 0
     THEN ringStop' = r /\ asker' = [asker EXCEPT ![r] = "notify"]
     ELSE asker' = [asker EXCEPT ![r] = "done"] /\ UNCHANGED ringStop
  /\ UNCHANGED <<job, told, recVars, ringNotif, shown, ringers, stopped>>

RingNotify(r) ==
  /\ asker[r] = "notify" /\ asker' = [asker EXCEPT ![r] = "store"]
  /\ shown' = shown \union {r}
  /\ UNCHANGED <<job, told, recVars, ringStop, ringNotif, ringers, stopped>>

(* Its id is stored, also when the ringing is over by now. *)
StoreRing(r) ==
  /\ asker[r] = "store" /\ asker' = [asker EXCEPT ![r] = "start"]
  /\ ringNotif' = r
  /\ UNCHANGED <<job, told, recVars, ringStop, shown, ringers, stopped>>

StartRinger(r) ==
  /\ asker[r] = "start" /\ asker' = [asker EXCEPT ![r] = "done"]
  /\ ringers' = ringers \union {r}
  /\ UNCHANGED <<job, told, recVars, ringStop, ringNotif, shown, stopped>>

(* StopRinging: by the user, a phone, or the limit of any ringing. *)
StopWhatRings ==
  /\ ringStop' = 0 /\ ringNotif' = 0
  /\ stopped' = stopped \union ({ringStop} \ {0})
  /\ shown' = IF ringStop = 0 THEN shown ELSE shown \ {ringNotif}

StopRinging ==
  /\ ringStop # 0 \/ ringNotif # 0
  /\ StopWhatRings
  /\ UNCHANGED <<job, told, recVars, asker, ringers>>

(* The sound ends: it was told to, or ringFor has passed, and when both    *)
(* are true it may see the limit first.                                    *)
RingerStops(r) ==
  /\ r \in ringers \intersect stopped /\ ringers' = ringers \ {r}
  /\ UNCHANGED <<job, told, recVars, asker, ringStop, ringNotif, shown, stopped>>

RingerLimit(r) ==
  /\ r \in ringers /\ ringers' = ringers \ {r}
  /\ StopWhatRings
  /\ UNCHANGED <<job, told, recVars, asker>>

Next ==
  \/ \E j \in Jobs :
       StartRecording(j) \/ StopRecording(j) \/ Screenshot(j) \/ CropOrFetch(j) \/ ReplyTo(j)
  \/ \E n \in Recordings : LimitPasses(n) \/ LimitStops(n)
  \/ \E r \in Rings :
       \/ StartRinging(r) \/ RingNotify(r) \/ StoreRing(r) \/ StartRinger(r)
       \/ RingerStops(r) \/ RingerLimit(r)
  \/ UserStops \/ StopRinging

(* Timers run off, and goroutines that can go on do. *)
Steps ==
  \/ \E n \in Recordings : LimitPasses(n) \/ LimitStops(n)
  \/ \E r \in Rings : RingNotify(r) \/ StoreRing(r) \/ StartRinger(r) \/ RingerStops(r) \/ RingerLimit(r)

Spec == Init /\ [][Next]_lVars /\ WF_lVars(Steps)

-----------------------------------------------------------------------------
(* "maxRecording stops a recording someone forgot about", "plays a loud    *)
(* sound until stopped or ringFor passes": whatever else is started and    *)
(* stopped meanwhile, and whichever limit is late, the screen is not       *)
(* recorded and nothing rings for ever, as long as GNOME stops recording   *)
(* when it is told to.                                                     *)
LimitsHold ==
  /\ []<>(recorder => unstopped)
  /\ []<>(ringers = {})

(* What goes on can be ended, and will be: a recording that GNOME would    *)
(* stop if told to has its limit running or passed, whichever older limits *)
(* come late; a sound that plays was told to stop or is the one that would *)
(* be, and what would be plays or is about to.                             *)
EndIsAhead ==
  /\ recorder => unstopped \/ (recording # 0 /\ recording \in timers \union fired)
  /\ \A r \in ringers : r = ringStop \/ r \in stopped
  /\ ringStop # 0 => ringStop \in ringers \/ asker[ringStop] \in {"notify", "store", "start"}
=============================================================================
