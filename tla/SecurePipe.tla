----------------------------- MODULE SecurePipe -----------------------------
(***************************************************************************)
(* One direction of the encrypted pipe (desktop/internal/secure/pipe.go):  *)
(* goroutines call Write on the one end, the other end reads, and the      *)
(* connection between them can fail a write after none or some of its      *)
(* bytes.  The two directions have a key and a counter each, and share     *)
(* nothing.                                                                *)
(*                                                                         *)
(* The handshake's exchange of keys is one step: it succeeds if both ends  *)
(* hold the same pairing key and named the same session.                   *)
(***************************************************************************)
EXTENDS Integers, Sequences

CONSTANTS
  Messages,  \* payloads, each written by a goroutine of its own
  Frames,    \* [Messages -> number of frames of at most maxFramePlain]
  None,      \* wmu is free
  MaxBreaks  \* bound on failed writes

VARIABLES
  ends,      \* whether the two ends' keys and sessions agree, and what the
             \* handshake came to
  wmu,       \* the message whose Write holds the lock
  written,   \* [Messages -> frames its Write has sealed]
  writing,   \* the messages whose Write has not returned
  wCount,    \* frames sealed
  wire,      \* what the connection carries: count, frame and whether all
             \* its bytes are there
  rCount,    \* frames opened
  garbled,   \* whether the reader has lost the frames' boundaries
  intact,    \* frames that went out before the first failed write
  got,       \* frames the reader returned
  breaks     \* failed writes so far

pipeVars == <<ends, wmu, written, writing, wCount, wire, rCount, garbled, intact, got, breaks>>

FramesOf == UNION {{m} \X (1..Frames[m]) : m \in Messages}

TypeOK ==
  /\ ends \in [agree : BOOLEAN, shaken : {"no", "yes", "failed"}]
  /\ wmu \in Messages \union {None} /\ writing \subseteq Messages
  /\ written \in [Messages -> Nat] /\ \A m \in Messages : written[m] <= Frames[m]
  /\ wCount \in Nat /\ rCount \in Nat /\ garbled \in BOOLEAN /\ breaks \in 0..MaxBreaks
  /\ wire \in Seq([count : Nat, frame : FramesOf, whole : BOOLEAN])
  /\ intact \in Seq(FramesOf) /\ got \in Seq(FramesOf)

Init ==
  /\ ends \in [agree : BOOLEAN, shaken : {"no"}]
  /\ wmu = None /\ writing = Messages
  /\ written = [m \in Messages |-> 0]
  /\ wCount = 0 /\ wire = <<>> /\ rCount = 0 /\ garbled = FALSE
  /\ intact = <<>> /\ got = <<>> /\ breaks = 0

-----------------------------------------------------------------------------
(* Handshake: the MACs fail unless key and session agree, on the first end *)
(* that checks one.                                                        *)
Handshake ==
  /\ ends.shaken = "no"
  /\ \E r \in {"yes", "failed"} :
       /\ r = "yes" => ends.agree
       /\ ends' = [ends EXCEPT !.shaken = r]
  /\ UNCHANGED <<wmu, written, writing, wCount, wire, rCount, garbled, intact, got, breaks>>

(* Write takes the lock for all of its frames. *)
Lock(m) ==
  /\ ends.shaken = "yes" /\ m \in writing /\ wmu = None
  /\ wmu' = m
  /\ UNCHANGED <<ends, written, writing, wCount, wire, rCount, garbled, intact, got, breaks>>

(* What is left of a frame on the connection: all, some or none of it. *)
Put(count, frame, n) ==
  CASE n = "all"  -> Append(wire, [count |-> count, frame |-> frame, whole |-> TRUE])
    [] n = "some" -> Append(wire, [count |-> count, frame |-> frame, whole |-> FALSE])
    [] n = "none" -> wire

(* The frame is sealed with the counter, which goes up before the frame is *)
(* written; Write returns after its last frame or at the first error.      *)
Seal(m, n) ==
  LET i == written[m] + 1 frame == <<m, i>> IN
  /\ written' = [written EXCEPT ![m] = i]
  /\ wire' = Put(wCount, frame, n)
  /\ breaks' = IF n = "all" THEN breaks ELSE breaks + 1
  /\ intact' = IF n = "all" /\ breaks = 0 THEN Append(intact, frame) ELSE intact
  /\ IF n = "all" /\ i < Frames[m]
       THEN UNCHANGED <<wmu, writing>>
       ELSE wmu' = None /\ writing' = writing \ {m}
  /\ UNCHANGED <<ends, rCount, garbled, got>>

(* Wrong variant: the counter goes up only when the frame was written. *)
WriteFrame_CountAfter(m, n) ==
  /\ wmu = m /\ (n # "all" => breaks < MaxBreaks)
  /\ Seal(m, n) /\ wCount' = IF n = "all" THEN wCount + 1 ELSE wCount

WriteFrame(m, n) ==
  /\ wmu = m /\ (n # "all" => breaks < MaxBreaks)
  /\ Seal(m, n) /\ wCount' = wCount + 1

-----------------------------------------------------------------------------
(* Read opens the next frame with its own counter.  It fails on the wrong  *)
(* frame, and once it waited for the bytes of a frame that was cut short   *)
(* it has taken those of the next ones for them.                           *)
Read ==
  LET f == Head(wire)
      opens == f.whole /\ ~garbled /\ f.count = rCount
  IN
  /\ wire # <<>>
  /\ wire' = Tail(wire)
  /\ garbled' = (garbled \/ ~f.whole)
  /\ rCount' = IF opens THEN rCount + 1 ELSE rCount
  /\ got' = IF opens THEN Append(got, f.frame) ELSE got
  /\ UNCHANGED <<ends, wmu, written, writing, wCount, intact, breaks>>

Next ==
  \/ Handshake \/ Read
  \/ \E m \in Messages : Lock(m) \/ \E n \in {"all", "some", "none"} : WriteFrame(m, n)

Spec == Init /\ [][Next]_pipeVars

-----------------------------------------------------------------------------
Promise == INSTANCE OrderedPipe WITH sent <- intact

(* The pipe keeps its promise: seen as the frames that went out before the *)
(* first failed write and those the reader returned, every step of writers *)
(* and reader is one of OrderedPipe, however writes fail and whoever goes  *)
(* on writing after one did.                                               *)
KeepsPromise == Promise!Spec
=============================================================================
