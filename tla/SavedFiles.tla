----------------------------- MODULE SavedFiles -----------------------------
(***************************************************************************)
(* What transfers leave on a computer's disk: the files, each under a name *)
(* that was free when it was chosen (desktop/internal/transfer/server.go   *)
(* serve, resolveUniqueFilePath), and the log of transfers, which every    *)
(* update reads and writes as a whole (desktop/app.go logHistory,          *)
(* DeleteHistoryEntry, ClearHistory).  Transfers run beside each other and *)
(* take no lock for either.                                                *)
(*                                                                         *)
(* All files that come in have one of two names: <<>>, and <<1>>, which is *)
(* also what the first is called to avoid a collision.  What is streamed   *)
(* is module Transfer.                                                     *)
(***************************************************************************)
EXTENDS Integers, Sequences, FiniteSets, SequencesExt

CONSTANTS
  Arrivals,    \* incoming transfers
  Asked,       \* [Arrivals -> the names of the files, in order]
  OldFiles,    \* names in use before
  MaxHistory,  \* entries kept in the log
  User,        \* who deletes entries and clears the log
  MaxEdits     \* bound on what the user does

ASSUME SavedAssumption ==
  /\ Asked \in [Arrivals -> Seq(Seq(Nat))]
  /\ IsFiniteSet(OldFiles)
  /\ MaxHistory \in Nat \ {0} /\ MaxEdits \in Nat
  /\ User \notin Arrivals

VARIABLES
  phase,    \* [Arrivals -> "choose", "create", "write", "log" or "end"]
  paths,    \* [Arrivals -> savedPaths]
  folder,   \* files in ~/Downloads/PALT: [names -> <<transfer, file number>>s
            \*  whose bytes are in it]
  rivals,   \* [names of files -> transfers that had chosen the name when the
            \*  file was created]
  result,   \* [Arrivals -> status of the entry it logs]
  log,      \* the entries in history.json, newest first: none once it is damaged
  opened,   \* updates that truncated the file and have not written it
  overtaken,\* of those, the ones after whose truncation another wrote
  failed,   \* updates that could not open the file, or not write it whole
  snap,     \* [Arrivals and User -> entries the running update started from]
  update,   \* [Arrivals and User -> "no", "read" or "open"]
  edit,     \* the entry the user deletes, or "all"
  edits     \* the user's updates so far

sVars == <<phase, paths, folder, rivals, result, log, opened, overtaken, failed, snap, update, edit,
           edits>>
fileVars == <<phase, paths, folder, rivals, result>>
logVars  == <<log, opened, overtaken, failed, snap, update, edit, edits>>

Updaters == Arrivals \union {User}
FileIds  == UNION {{t} \X DOMAIN Asked[t] : t \in Arrivals}

Once(s) == \A i, j \in DOMAIN s : s[i] = s[j] => i = j

(* Every variable has its type; a transfer's entry is in the log once.     *)
SavedOK ==
  /\ phase \in [Arrivals -> {"choose", "create", "write", "log", "end"}]
  /\ \A t \in Arrivals : Len(paths[t]) <= Len(Asked[t])
  /\ \A p \in DOMAIN folder : folder[p] \subseteq FileIds
  /\ DOMAIN rivals = DOMAIN folder
  /\ result \in [Arrivals -> {"none", "completed", "error"}]
  /\ log \in Seq(Arrivals) /\ Len(log) <= MaxHistory /\ Once(log)
  /\ overtaken \subseteq opened /\ opened \subseteq Updaters /\ failed \subseteq Updaters
  /\ update \in [Updaters -> {"no", "read", "open"}]
  /\ edit \in Arrivals \union {"all"} /\ edits \in 0..MaxEdits

SavedInit ==
  /\ phase = [t \in Arrivals |-> "choose"] /\ paths = [t \in Arrivals |-> <<>>]
  /\ folder = [p \in OldFiles |-> {}] /\ rivals = [p \in OldFiles |-> {}]
  /\ result = [t \in Arrivals |-> "none"]
  /\ log = <<>> /\ opened = {} /\ overtaken = {} /\ failed = {}
  /\ snap = [u \in Updaters |-> <<>>] /\ update = [u \in Updaters |-> "no"]
  /\ edit = "all" /\ edits = 0

-----------------------------------------------------------------------------
(* Files. *)

(* The k-th name tried for a file called n. *)
Numbered(n, k) == IF k = 0 THEN n ELSE Append(n, k)

(* Wrong variant: the numbered names are not looked up. *)
FreeName_FirstOnly(n) == IF n \in DOMAIN folder THEN Numbered(n, 1) ELSE n

(* resolveUniqueFilePath: the first that is not on the disk. *)
FreeName(n) ==
  Numbered(n, CHOOSE k \in 0..Cardinality(DOMAIN folder) :
                /\ Numbered(n, k) \notin DOMAIN folder
                /\ \A j \in 0..k - 1 : Numbered(n, j) \in DOMAIN folder)

Choose(t) ==
  /\ phase[t] = "choose" /\ Len(paths[t]) < Len(Asked[t])
  /\ paths' = [paths EXCEPT ![t] = Append(@, FreeName(Asked[t][Len(@) + 1]))]
  /\ phase' = [phase EXCEPT ![t] = "create"]
  /\ UNCHANGED <<folder, rivals, result, logVars>>

(* The transfers about to create a file called p. *)
Choosers(p) == {t \in Arrivals : phase[t] = "create" /\ Last(paths[t]) = p}

(* os.Create makes an empty file, or empties the one that is there.  When  *)
(* it fails the transfer ends and neither callback runs.                   *)
Create(t) ==
  LET p == Last(paths[t]) IN
  /\ phase[t] = "create"
  /\ \/ /\ folder' = [q \in DOMAIN folder \union {p} |-> IF q = p THEN {} ELSE folder[q]]
        /\ rivals' = [q \in DOMAIN folder'  |-> IF q \in DOMAIN folder THEN rivals[q] ELSE Choosers(p)]
        /\ phase' = [phase EXCEPT ![t] = "write"]
     \/ phase' = [phase EXCEPT ![t] = "end"] /\ UNCHANGED <<folder, rivals>>
  /\ UNCHANGED <<paths, result, logVars>>

(* The bytes arrive and the file is closed, or the stream breaks. *)
Write(t) ==
  LET p == Last(paths[t]) IN
  /\ phase[t] = "write"
  /\ folder' = [folder EXCEPT ![p] = @ \union {<<t, Len(paths[t])>>}]
  /\ \/ /\ phase' = [phase EXCEPT ![t] = IF Len(paths[t]) < Len(Asked[t]) THEN "choose" ELSE "log"]
        /\ result' = IF Len(paths[t]) < Len(Asked[t]) THEN result
                     ELSE [result EXCEPT ![t] = "completed"]
     \/ /\ phase' = [phase EXCEPT ![t] = "log"]
        /\ result' = [result EXCEPT ![t] = "error"]
  /\ UNCHANGED <<paths, rivals, logVars>>

-----------------------------------------------------------------------------
(* The log. *)

(* What is read: nothing while an update that truncated the file is the    *)
(* last that did anything to it.                                           *)
Readable == IF opened \subseteq overtaken THEN log ELSE <<>>

StartUpdate(u) ==
  /\ update[u] = "no"
  /\ update' = [update EXCEPT ![u] = "read"]
  /\ snap' = [snap EXCEPT ![u] = Readable]
  /\ failed' = failed \ {u}

LogEntry(t) ==
  /\ phase[t] = "log" /\ result[t] # "none"
  /\ StartUpdate(t)
  /\ UNCHANGED <<fileVars, log, opened, overtaken, edit, edits>>

(* DeleteHistoryEntry, and ClearHistory, which reads nothing it uses. *)
Edit(e) ==
  /\ edits < MaxEdits
  /\ edits' = edits + 1 /\ edit' = e
  /\ StartUpdate(User)
  /\ UNCHANGED <<fileVars, log, opened, overtaken>>

(* The entries that are not the one deleted. *)
Without(s, e) ==
  IF e \in Range(s) THEN RemoveAt(s, CHOOSE i \in DOMAIN s : s[i] = e) ELSE s

(* Wrong variant: the oldest entries are kept. *)
NewList_KeepsOldest(u) ==
  LET all == snap[u] \o <<u>> IN
  IF u = User THEN IF edit = "all" THEN <<>> ELSE Without(snap[u], edit)
  ELSE SubSeq(all, 1, IF Len(all) > MaxHistory THEN MaxHistory ELSE Len(all))

(* Wrong variant: nothing is left out. *)
NewList_NoLimit(u) ==
  IF u = User THEN IF edit = "all" THEN <<>> ELSE Without(snap[u], edit)
  ELSE <<u>> \o snap[u]

NewList(u) ==
  LET all == <<u>> \o snap[u] IN
  IF u = User THEN IF edit = "all" THEN <<>> ELSE Without(snap[u], edit)
  ELSE SubSeq(all, 1, IF Len(all) > MaxHistory THEN MaxHistory ELSE Len(all))

UpdateEnds(u) ==
  /\ update' = [update EXCEPT ![u] = "no"]
  /\ phase' = IF u = User THEN phase ELSE [phase EXCEPT ![u] = "end"]
  /\ UNCHANGED <<paths, folder, rivals, result, snap, edit, edits>>

(* os.WriteFile truncates and then writes; its error is ignored.           *)
Truncate(u) ==
  /\ update[u] = "read"
  /\ update' = [update EXCEPT ![u] = "open"]
  /\ opened' = opened \union {u}
  /\ UNCHANGED <<fileVars, log, overtaken, failed, snap, edit, edits>>

OpenFails(u) ==
  /\ update[u] = "read"
  /\ failed' = failed \union {u}
  /\ UpdateEnds(u)
  /\ UNCHANGED <<log, opened, overtaken>>

(* Over what another wrote since the truncation, the entries may come out  *)
(* damaged.  A write that fails leaves the file empty or broken off, or as *)
(* it was written since.                                                   *)
WriteLog(u) ==
  /\ update[u] = "open"
  /\ \/ log' = NewList(u) /\ failed' = failed
     \/ u \in overtaken /\ log' = <<>> /\ failed' = failed
     \/ (log' = <<>> \/ (u \in overtaken /\ log' = log)) /\ failed' = failed \union {u}
  /\ opened' = opened \ {u}
  /\ overtaken' = (overtaken \ {u}) \union opened'
  /\ UpdateEnds(u)

SavedNext ==
  \/ \E t \in Arrivals : Choose(t) \/ Create(t) \/ Write(t) \/ LogEntry(t)
  \/ \E e \in Arrivals \union {"all"} : Edit(e)
  \/ \E u \in Updaters : Truncate(u) \/ OpenFails(u) \/ WriteLog(u)

SavedSpec == SavedInit /\ [][SavedNext]_sVars

-----------------------------------------------------------------------------
(* resolveUniqueFilePath: what is on the disk stays as it is, but for the  *)
(* transfer writing it and those that chose its name before it was there.  *)
FilesKept ==
  [][\A p \in DOMAIN folder : folder'[p] # folder[p] =>
       \E t \in rivals[p] : phase[t] \in {"create", "write"} /\ Last(paths[t]) = p]_sVars

(* logHistory: the entry a transfer logs is in the log, and an update      *)
(* takes from it what it is meant to take, the entry deleted or the oldest *)
(* beyond the limit.  Any other entry that is lost came in, or was being   *)
(* written, after the update had read the log; or the update failed, or    *)
(* wrote over what another had written since it truncated the file.        *)
EntriesKept ==
  [][/\ \A t \in Arrivals : update[t] # "no" /\ update'[t] = "no" =>
          t \in Range(log') \union overtaken \union failed'
     /\ \A t \in Range(log) \ Range(log') :
       \E u \in Updaters :
         /\ update[u] = "open" /\ update'[u] = "no"
         /\ \/ u \in failed' \union overtaken
            \/ u = User /\ edit \in {t, "all"}
            \/ t \notin Range(snap[u])
            \/ u # User /\ Len(snap[u]) = MaxHistory /\ t = Last(snap[u])]_sVars
=============================================================================
