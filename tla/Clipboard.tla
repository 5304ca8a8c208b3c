------------------------------ MODULE Clipboard ------------------------------
(***************************************************************************)
(* Clipboards of paired computers (desktop/clipboard_app.go) with the      *)
(* helper in the GNOME shell that watches and sets them                    *)
(* (desktop/clipboard_linux.go and its extension).  The shell signals      *)
(* every new text, also those that were set for a text that came in; the   *)
(* last text seen or set is to tell the two apart.  Devices without a link *)
(* or with the switch off get nothing, setting may fail, and without the   *)
(* helper no change is signalled; nobody is told of any of these.          *)
(***************************************************************************)
EXTENDS Integers, Sequences

CONSTANTS
  Desks,       \* computers
  Texts,       \* texts short enough to be synced
  NoText,      \* nothing
  MaxCopies    \* bound on what users put on their clipboards

ASSUME ClipAssumption == NoText \notin Texts /\ MaxCopies \in Nat

VARIABLES
  copied,   \* [Desks -> texts its user copied]
  clip,     \* [Desks -> what its clipboard holds]
  changed,  \* [Desks -> changes the helper has not told of]
  signals,  \* [Desks -> Changed signals, in order]
  last,     \* [Desks -> clip.last]
  history,  \* [Desks -> texts in the history]
  setting,  \* [Desks -> the text setClipboard is at and its step]
  inbox,    \* [Desks -> clipboard packets, in order]
  sent,     \* [Desks -> texts it sent]
  copies,
  overlapped, \* a user copied while an earlier text was still on its way
  missed,   \* [Desks -> texts that were not sent to it, or not taken there]
  parted    \* computers whose clipboard did not take the last text, or whose
            \*  helper did not tell of what it holds

clipVars ==
  <<copied, clip, changed, signals, last, history, setting, inbox, sent, copies, overlapped,
    missed, parted>>

byUsers == <<copied, copies, overlapped>>
losses  == <<missed, parted>>

NotSetting == [text |-> NoText, step |-> "none"]
Quiet ==
  \A c \in Desks :
    changed[c] = 0 /\ signals[c] = <<>> /\ inbox[c] = <<>> /\ setting[c] = NotSetting

ClipOK ==
  /\ copied \in [Desks -> SUBSET Texts] /\ sent \in [Desks -> SUBSET Texts]
  /\ clip \in [Desks -> Texts \union {NoText}] /\ last \in [Desks -> Texts \union {NoText}]
  /\ history \in [Desks -> SUBSET Texts] /\ changed \in [Desks -> Nat]
  /\ copies \in 0..MaxCopies /\ overlapped \in BOOLEAN
  /\ missed \in [Desks -> SUBSET Texts] /\ parted \subseteq Desks
  /\ \A c \in Desks : setting[c].step \in {"none", "last", "call"}

ClipInit ==
  /\ copied = [c \in Desks |-> {}] /\ sent = copied /\ history = copied /\ missed = copied
  /\ clip = [c \in Desks |-> NoText] /\ last = clip
  /\ changed = [c \in Desks |-> 0]
  /\ signals = [c \in Desks |-> <<>>] /\ inbox = signals
  /\ setting = [c \in Desks |-> NotSetting]
  /\ copies = 0 /\ overlapped = FALSE /\ parted = {}

-----------------------------------------------------------------------------
(* The shell. *)
Holds(c, x) ==
  /\ clip' = [clip EXCEPT ![c] = x] /\ changed' = [changed EXCEPT ![c] = @ + 1]

(* Without the helper nobody tells PALT. *)
HoldsUntold(c, x) ==
  /\ clip' = [clip EXCEPT ![c] = x] /\ changed' = changed

ByUser(c, x) ==
  /\ copies < MaxCopies /\ copies' = copies + 1
  /\ overlapped' = (overlapped \/ ~Quiet)
  /\ copied' = [copied EXCEPT ![c] = @ \union {x}]

Copy(c, x) ==
  /\ \A d \in Desks : x \notin copied[d]
  /\ ByUser(c, x)
  /\ \/ Holds(c, x) /\ UNCHANGED losses
     \/ /\ HoldsUntold(c, x)
        /\ missed' = [d \in Desks |-> missed[d] \union {x}] /\ parted' = parted \union {c}
  /\ UNCHANGED <<signals, last, history, setting, inbox, sent>>

(* The helper reads the clipboard some time after it learned of a change. *)
Tell(c) ==
  /\ changed[c] > 0 /\ changed' = [changed EXCEPT ![c] = @ - 1]
  /\ signals' = [signals EXCEPT ![c] = Append(@, clip[c])]
  /\ UNCHANGED <<byUsers, losses, clip, last, history, setting, inbox, sent>>

-----------------------------------------------------------------------------
(* Wrong variant: a text is remembered, but not as the last one.           *)
Remember_NotLast(c, x) ==
  /\ last' = last
  /\ history' = [history EXCEPT ![c] = @ \union {x}]

(* remember, for a text that is new. *)
Remember(c, x) ==
  /\ last' = [last EXCEPT ![c] = x]
  /\ history' = [history EXCEPT ![c] = @ \union {x}]

(* onLocalClipboard: a text that is new goes to the computers linked now   *)
(* whose switch is on; what became of it is ignored.                       *)
SendTo(c, x, to) ==
  /\ sent' = [sent EXCEPT ![c] = @ \union {x}]
  /\ inbox' = [d \in Desks |-> IF d \in to THEN Append(inbox[d], x) ELSE inbox[d]]
  /\ missed' = [d \in Desks |-> IF d \in to \union {c} THEN missed[d] ELSE missed[d] \union {x}]

ReadSignal(c) ==
  LET x == Head(signals[c]) IN
  /\ signals[c] # <<>> /\ signals' = [signals EXCEPT ![c] = Tail(@)]
  /\ \/ /\ x # last[c]
        /\ Remember(c, x) /\ parted' = parted \ {c}
        /\ \E to \in SUBSET (Desks \ {c}) : SendTo(c, x, to)
     \/ x = last[c] /\ UNCHANGED <<last, history, sent, inbox, losses>>
  /\ UNCHANGED <<byUsers, clip, changed, setting>>

(* onRemoteClipboard: a text that is new is remembered, then set, unless   *)
(* the switch for receiving is off.                                        *)
Receive(c) ==
  LET x == Head(inbox[c]) IN
  /\ setting[c] = NotSetting /\ inbox[c] # <<>>
  /\ inbox' = [inbox EXCEPT ![c] = Tail(@)]
  /\ \/ /\ x # last[c]
        /\ Remember(c, x) /\ setting' = [setting EXCEPT ![c] = [text |-> x, step |-> "last"]]
        /\ UNCHANGED losses
     \/ x = last[c] /\ UNCHANGED <<last, history, setting, losses>>
     \/ /\ missed' = [missed EXCEPT ![c] = @ \union {x}]
        /\ UNCHANGED <<last, history, setting, parted>>
  /\ UNCHANGED <<byUsers, clip, changed, signals, sent>>

(* CopyFromHistory. *)
CopyFromHistory(c, x) ==
  /\ setting[c] = NotSetting /\ x \in history[c]
  /\ setting' = [setting EXCEPT ![c] = [text |-> x, step |-> "last"]]
  /\ ByUser(c, x)
  /\ UNCHANGED <<losses, clip, changed, signals, last, history, inbox, sent>>

(* setClipboard: the last text, then the call to the helper. *)
SetLast(c) ==
  /\ setting[c].step = "last"
  /\ last' = [last EXCEPT ![c] = setting[c].text]
  /\ setting' = [setting EXCEPT ![c].step = "call"]
  /\ UNCHANGED <<byUsers, losses, clip, changed, signals, history, inbox, sent>>

(* The helper sets it, or the toolkit does without a signal, or neither.   *)
CallHelper(c) ==
  /\ setting[c].step = "call"
  /\ \/ /\ Holds(c, setting[c].text) \/ HoldsUntold(c, setting[c].text)
        /\ parted' = parted \ {c}
     \/ UNCHANGED <<clip, changed>> /\ parted' = parted \union {c}
  /\ setting' = [setting EXCEPT ![c] = NotSetting]
  /\ UNCHANGED <<byUsers, signals, last, history, inbox, sent, missed>>

ClipNext ==
  \E c \in Desks :
    \/ \E x \in Texts : Copy(c, x) \/ CopyFromHistory(c, x)
    \/ Tell(c) \/ ReadSignal(c) \/ Receive(c) \/ SetLast(c) \/ CallHelper(c)

ClipSpec == ClipInit /\ [][ClipNext]_clipVars
-----------------------------------------------------------------------------
(* "last text seen or set, so syncing doesn't echo" (clipboard_app.go):    *)
(* while users copy one text after the other, a computer sends only what   *)
(* its own user put on the clipboard, and in the end every one has in its  *)
(* history every text but those that were not sent to it or not taken, and *)
(* holds the one it takes for the last, unless setting that one failed or  *)
(* the helper did not tell of another.  When two texts cross, the signal   *)
(* of the first comes after the second was set, and the first is sent      *)
(* back.                                                                   *)
ClipsFollow ==
  ~overlapped =>
    /\ \A c \in Desks : sent[c] \subseteq copied[c]
    /\ Quiet => \A c \in Desks :
                 /\ c \notin parted => clip[c] = last[c]
                 /\ history[c] = (UNION {copied[d] : d \in Desks}) \ missed[c]
=============================================================================
