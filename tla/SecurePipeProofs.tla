-------------------------- MODULE SecurePipeProofs --------------------------
(* SecurePipe implements OrderedPipe, for any messages, numbers of frames   *)
(* and failing writes: proofs for TLAPS.                                    *)
EXTENDS SecurePipe, TLAPS

(* What the constants are: every message has a frame (an empty Write sends  *)
(* none and is no message), None is no message.                             *)
Setting ==
  /\ Frames \in [Messages -> Nat \ {0}]
  /\ None \notin Messages
  /\ MaxBreaks \in Nat

-----------------------------------------------------------------------------
(* The inductive invariant. *)

(* Who holds the lock has frames left; who waits for it has sent none.      *)
Writers ==
  /\ wmu # None => wmu \in writing /\ written[wmu] < Frames[wmu]
  /\ \A m \in writing : m # wmu => written[m] = 0

(* Whole messages went out before the writer's, and the writer's so far.    *)
WholeBefore ==
  intact = <<>> \/ \E l \in Messages : intact[Len(intact)] = <<l, Frames[l]>>

LastSent ==
  breaks = 0 =>
    /\ wmu = None => WholeBefore
    /\ wmu # None => IF written[wmu] = 0 THEN WholeBefore
                     ELSE intact # <<>> /\ intact[Len(intact)] = <<wmu, written[wmu]>>

(* Frames are counted as they go out, up to the first that fails, whose     *)
(* count no other frame has: the reader waits for it in vain.               *)
Counted ==
  /\ breaks = 0 => wCount = Len(intact)
  /\ breaks # 0 => wCount > Len(intact)
  /\ rCount = Len(got) /\ rCount <= Len(intact)
  /\ \A i \in DOMAIN wire : wire[i].count < wCount
  /\ \A i \in DOMAIN wire : wire[i].whole =>
       \/ wire[i].count > Len(intact)
       \/ wire[i].count < Len(intact) /\ wire[i].frame = intact[wire[i].count + 1]

WireFrames == [count : Nat, frame : FramesOf, whole : BOOLEAN]

IInv == TypeOK /\ Writers /\ LastSent /\ Counted

LEMMA InitInv == ASSUME Setting PROVE Init => IInv
<1> SUFFICES ASSUME Setting, Init PROVE IInv OBVIOUS
<1>1. ends \in [agree : BOOLEAN, shaken : {"no", "yes", "failed"}] BY DEF Init
<1>2. /\ wmu = None /\ writing = Messages /\ written = [m \in Messages |-> 0]
      /\ wCount = 0 /\ wire = <<>> /\ rCount = 0 /\ garbled = FALSE
      /\ intact = <<>> /\ got = <<>> /\ breaks = 0
  BY DEF Init
<1>3. ASSUME NEW m \in Messages PROVE written[m] = 0 /\ written[m] <= Frames[m]
  <2>1. written[m] = 0 BY <1>2
  <2>2. Frames[m] \in Nat BY DEF Setting
  <2> QED BY <2>1, <2>2
<1>4. TypeOK
  <2>1. written \in [Messages -> Nat] BY <1>2
  <2>2. wire \in Seq([count : Nat, frame : FramesOf, whole : BOOLEAN])
        /\ intact \in Seq(FramesOf) /\ got \in Seq(FramesOf)
    BY <1>2
  <2>3. breaks \in 0..MaxBreaks BY <1>2 DEF Setting
  <2> QED BY <1>1, <1>2, <1>3, <2>1, <2>2, <2>3 DEF TypeOK
<1>5. Writers /\ LastSent BY <1>2, <1>3 DEF Writers, LastSent, WholeBefore
<1>6. Counted BY <1>2 DEF Counted
<1> QED BY <1>4, <1>5, <1>6 DEF IInv

-----------------------------------------------------------------------------
(* A frame is written: what goes out is a next frame of its message. *)

LEMMA WriterFollows ==
  ASSUME Setting, IInv, NEW m \in Messages, NEW n \in {"all", "some", "none"}, WriteFrame(m, n)
  PROVE  /\ written[m] + 1 \in 1..Frames[m]
         /\ written[m] \in Nat
         /\ breaks = 0 => Promise!Follows(m, written[m] + 1)
<1>1. wmu = m /\ wmu # None BY DEF WriteFrame, Setting
<1>2. m \in writing /\ written[m] < Frames[m] /\ written[m] \in Nat /\ Frames[m] \in Nat
  BY <1>1 DEF IInv, Writers, TypeOK, Setting
<1>3. ASSUME breaks = 0 PROVE Promise!Follows(m, written[m] + 1)
  <2>1. CASE written[m] = 0
    BY <1>1, <1>3, <2>1 DEF IInv, LastSent, WholeBefore, Promise!Follows
  <2>2. CASE written[m] # 0
    <3>1. intact # <<>> /\ intact[Len(intact)] = <<m, written[m]>>
      BY <1>1, <1>3, <2>2 DEF IInv, LastSent
    <3>2. written[m] + 1 # 1 /\ (written[m] + 1) - 1 = written[m] BY <1>2, <2>2
    <3> QED BY <3>1, <3>2 DEF Promise!Follows
  <2> QED BY <2>1, <2>2
<1> QED BY <1>2, <1>3

LEMMA OnTheWire ==
  ASSUME IInv
  PROVE  /\ wire \in Seq(WireFrames)
         /\ \A k \in DOMAIN wire :
              /\ wire[k] \in WireFrames
              /\ wire[k].count \in Nat /\ wire[k].frame \in FramesOf /\ wire[k].whole \in BOOLEAN
<1>1. wire \in Seq(WireFrames) BY DEF IInv, TypeOK, WireFrames
<1>2. ASSUME NEW k \in DOMAIN wire PROVE wire[k] \in WireFrames BY <1>1
<1> QED BY <1>1, <1>2 DEF WireFrames

LEMMA WriteKeeps ==
  ASSUME Setting, IInv, NEW m \in Messages, NEW n \in {"all", "some", "none"}, WriteFrame(m, n)
  PROVE  IInv'
<1> DEFINE i == written[m] + 1
           frame == <<m, i>>
<1>1. i \in 1..Frames[m] /\ written[m] \in Nat BY WriterFollows
<1>2. frame \in FramesOf BY <1>1 DEF FramesOf
<1>3. wmu = m /\ wmu # None /\ m \in writing BY DEF WriteFrame, Setting, IInv, Writers
<1>4. /\ written' = [written EXCEPT ![m] = i]
      /\ written \in [Messages -> Nat]
      /\ written'[m] = i /\ \A l \in Messages : l # m => written'[l] = written[l]
  BY DEF WriteFrame, Seal, IInv, TypeOK
<1>5. /\ wCount \in Nat /\ wCount' = wCount + 1 /\ breaks \in Nat
      /\ breaks' = IF n = "all" THEN breaks ELSE breaks + 1
      /\ n # "all" => breaks < MaxBreaks
  BY DEF WriteFrame, Seal, IInv, TypeOK, Setting
<1>6. UNCHANGED <<ends, rCount, garbled, got>> BY DEF WriteFrame, Seal
<1>7. intact \in Seq(FramesOf) /\ wire \in Seq(WireFrames)
  BY OnTheWire DEF IInv, TypeOK
<1>8. intact' = IF n = "all" /\ breaks = 0 THEN Append(intact, frame) ELSE intact
  BY DEF WriteFrame, Seal
<1>9. \/ wire' = wire
      \/ wire' = Append(wire, [count |-> wCount, frame |-> frame, whole |-> (n = "all")])
  BY DEF WriteFrame, Seal, Put
<1>10. IF n = "all" /\ i < Frames[m]
         THEN UNCHANGED <<wmu, writing>>
         ELSE wmu' = None /\ writing' = writing \ {m}
  BY DEF WriteFrame, Seal
<1>11. TypeOK'
  <2>1. wire' \in Seq(WireFrames)
    <3>1. [count |-> wCount, frame |-> frame, whole |-> (n = "all")] \in WireFrames
      BY <1>2, <1>5 DEF WireFrames
    <3>2. CASE wire' = wire BY <1>7, <3>2
    <3>3. CASE wire' = Append(wire, [count |-> wCount, frame |-> frame, whole |-> (n = "all")])
      <4> HIDE DEF frame
      <4> QED BY <1>7, <3>1, <3>3
    <3> QED BY <1>9, <3>2, <3>3
  <2>2. intact' \in Seq(FramesOf) BY <1>2, <1>7, <1>8
  <2>3. written' \in [Messages -> Nat] /\ \A l \in Messages : written'[l] <= Frames[l]
    BY <1>1, <1>4 DEF IInv, TypeOK
  <2>4. breaks' \in 0..MaxBreaks BY <1>5 DEF IInv, TypeOK, Setting
  <2>5. wmu' \in Messages \union {None} /\ writing' \subseteq Messages
    BY <1>10 DEF IInv, TypeOK
  <2>6. wCount' \in Nat BY <1>5
  <2> QED BY <1>6, <2>1, <2>2, <2>3, <2>4, <2>5, <2>6 DEF TypeOK, IInv, WireFrames
<1>12. Writers'
  BY <1>1, <1>3, <1>4, <1>10 DEF IInv, Writers, TypeOK
<1>13. LastSent'
  <2>1. SUFFICES ASSUME breaks' = 0
                 PROVE  /\ wmu' = None => WholeBefore'
                        /\ wmu' # None => IF written'[wmu'] = 0 THEN WholeBefore'
                             ELSE intact' # <<>> /\ intact'[Len(intact')] = <<wmu', written'[wmu']>>
    BY DEF LastSent
  <2>2. n = "all" /\ breaks = 0 BY <1>5, <2>1
  <2>3. intact' # <<>> /\ intact'[Len(intact')] = frame BY <1>7, <1>8, <1>2, <2>2
  <2>4. CASE i < Frames[m]
    <3>1. wmu' = m /\ written'[wmu'] = i /\ i # 0 BY <1>1, <1>3, <1>4, <1>10, <2>2, <2>4
    <3> QED BY <1>3, <2>3, <3>1
  <2>5. CASE ~(i < Frames[m])
    <3>1. i = Frames[m] /\ wmu' = None BY <1>1, <1>10, <2>5 DEF Setting
    <3>2. WholeBefore' BY <2>3, <3>1 DEF WholeBefore
    <3> QED BY <3>1, <3>2
  <2> QED BY <2>4, <2>5
<1>14. Counted'
  <2>1. /\ breaks = 0 => wCount = Len(intact)
        /\ breaks # 0 => wCount > Len(intact)
        /\ rCount = Len(got) /\ rCount <= Len(intact)
        /\ Len(intact) \in Nat
    BY <1>7 DEF IInv, Counted
  <2>2. CASE n = "all" /\ breaks = 0
    <3>1. intact' = Append(intact, frame) /\ Len(intact') = Len(intact) + 1
      BY <1>2, <1>7, <1>8, <2>2
    <3>2. breaks' = 0 /\ wCount' = Len(intact') BY <1>5, <2>1, <2>2, <3>1
    <3>3. rCount' = Len(got') /\ rCount' <= Len(intact') BY <1>6, <2>1, <3>1
    <3>4. ASSUME NEW k \in DOMAIN wire'
          PROVE  /\ wire'[k].count < wCount'
                 /\ wire'[k].count < Len(intact') /\ (wire'[k].whole => wire'[k].frame = intact'[wire'[k].count + 1])
      <4>1. CASE k \in DOMAIN wire /\ wire'[k] = wire[k]
        <5>1. wire[k].count < wCount /\ wire[k].count \in Nat
          BY OnTheWire, <4>1 DEF IInv, Counted
        <5>2. wire[k].whole => wire[k].frame = intact[wire[k].count + 1]
          BY <2>1, <2>2, <4>1, <5>1 DEF IInv, Counted
        <5>3. intact'[wire[k].count + 1] = intact[wire[k].count + 1]
          BY <1>7, <1>2, <2>1, <2>2, <3>1, <5>1
        <5> QED BY <1>5, <2>1, <2>2, <3>1, <4>1, <5>1, <5>2, <5>3
      <4>2. CASE wire'[k] = [count |-> wCount, frame |-> frame, whole |-> (n = "all")]
        <5>1. wire'[k].count = Len(intact) /\ wire'[k].frame = frame BY <2>1, <2>2, <4>2
        <5>2. intact'[Len(intact) + 1] = frame BY <1>2, <1>7, <3>1
        <5> QED BY <2>1, <3>1, <3>2, <5>1, <5>2
      <4>3. \/ k \in DOMAIN wire /\ wire'[k] = wire[k]
            \/ wire'[k] = [count |-> wCount, frame |-> frame, whole |-> (n = "all")]
        <5>1. CASE wire' = wire BY <5>1
        <5>2. CASE wire' = Append(wire, [count |-> wCount, frame |-> frame, whole |-> (n = "all")])
          <6>1. CASE k \in DOMAIN wire BY <1>7, <5>2, <6>1
          <6>2. CASE k \notin DOMAIN wire
            <7>1. k = Len(wire) + 1 BY <1>7, <5>2, <6>2
            <7> QED BY <1>7, <5>2, <7>1
          <6> QED BY <6>1, <6>2
        <5> QED BY <1>9, <5>1, <5>2
      <4> QED BY <4>1, <4>2, <4>3
    <3> QED BY <3>2, <3>3, <3>4 DEF Counted
  <2>3. CASE ~(n = "all" /\ breaks = 0)
    <3>1. intact' = intact BY <1>8, <2>3
    <3>2. breaks' # 0 /\ wCount' > Len(intact') BY <1>5, <2>1, <2>3, <3>1
    <3>3. rCount' = Len(got') /\ rCount' <= Len(intact') BY <1>6, <2>1, <3>1
    <3>4. ASSUME NEW k \in DOMAIN wire'
          PROVE  /\ wire'[k].count < wCount'
                 /\ wire'[k].whole =>
                      \/ wire'[k].count > Len(intact')
                      \/ wire'[k].count < Len(intact') /\ wire'[k].frame = intact'[wire'[k].count + 1]
      <4>1. CASE k \in DOMAIN wire /\ wire'[k] = wire[k]
        <5>1. wire[k].count < wCount /\ wire[k].count \in Nat
          BY OnTheWire, <4>1 DEF IInv, Counted
        <5>2. wire[k].whole =>
                \/ wire[k].count > Len(intact)
                \/ wire[k].count < Len(intact) /\ wire[k].frame = intact[wire[k].count + 1]
          BY <4>1 DEF IInv, Counted
        <5> QED BY <1>5, <3>1, <4>1, <5>1, <5>2
      <4>2. CASE wire'[k] = [count |-> wCount, frame |-> frame, whole |-> (n = "all")]
        <5>1. wire'[k].count = wCount /\ wire'[k].whole = (n = "all") BY <4>2
        <5>2. n = "all" => wCount > Len(intact) BY <2>1, <2>3
        <5>3. wCount < wCount' BY <1>5
        <5>4. wire'[k].whole => wire'[k].count > Len(intact') BY <3>1, <5>1, <5>2
        <5> QED BY <5>1, <5>3, <5>4
      <4>3. \/ k \in DOMAIN wire /\ wire'[k] = wire[k]
            \/ wire'[k] = [count |-> wCount, frame |-> frame, whole |-> (n = "all")]
        <5>1. CASE wire' = wire BY <5>1
        <5>2. CASE wire' = Append(wire, [count |-> wCount, frame |-> frame, whole |-> (n = "all")])
          <6>1. CASE k \in DOMAIN wire BY <1>7, <5>2, <6>1
          <6>2. CASE k \notin DOMAIN wire
            <7>1. k = Len(wire) + 1 BY <1>7, <5>2, <6>2
            <7> QED BY <1>7, <5>2, <7>1
          <6> QED BY <6>1, <6>2
        <5> QED BY <1>9, <5>1, <5>2
      <4> QED BY <4>1, <4>2, <4>3
    <3> QED BY <3>2, <3>3, <3>4 DEF Counted
  <2> QED BY <2>2, <2>3
<1> QED BY <1>11, <1>12, <1>13, <1>14 DEF IInv

-----------------------------------------------------------------------------
(* A frame is read: if it opens, it is the next of those that went out. *)

LEMMA ReadOpensNext ==
  ASSUME Setting, IInv, Read
  PROVE  \/ got' = got /\ rCount' = rCount
         \/ /\ rCount' = rCount + 1 /\ Len(got) < Len(intact)
            /\ got' = Append(got, intact[Len(got) + 1])
            /\ intact[Len(got) + 1] \in FramesOf
<1>1. wire # <<>> /\ wire \in Seq(WireFrames)
  BY OnTheWire DEF Read
<1>2. 1 \in DOMAIN wire /\ Head(wire) = wire[1] BY <1>1
<1>3. CASE wire[1].whole /\ ~garbled /\ wire[1].count = rCount
  <2>1. rCount' = rCount + 1 /\ got' = Append(got, wire[1].frame) BY <1>2, <1>3 DEF Read
  <2>2. /\ rCount = Len(got) /\ rCount <= Len(intact) /\ rCount \in Nat /\ Len(intact) \in Nat
        /\ \/ wire[1].count > Len(intact)
           \/ wire[1].count < Len(intact) /\ wire[1].frame = intact[wire[1].count + 1]
    BY <1>2, <1>3 DEF IInv, Counted, TypeOK
  <2>3. Len(got) < Len(intact) /\ wire[1].frame = intact[Len(got) + 1] BY <1>3, <2>2
  <2>4. wire[1].frame \in FramesOf BY <1>2, OnTheWire
  <2> QED BY <2>1, <2>3, <2>4
<1>4. CASE ~(wire[1].whole /\ ~garbled /\ wire[1].count = rCount)
  BY <1>2, <1>4 DEF Read
<1> QED BY <1>3, <1>4

LEMMA ReadKeeps ==
  ASSUME Setting, IInv, Read
  PROVE  IInv'
<1>1. UNCHANGED <<ends, wmu, written, writing, wCount, intact, breaks>> BY DEF Read
<1>2. wire # <<>> /\ wire \in Seq(WireFrames) /\ wire' = Tail(wire)
  BY OnTheWire DEF Read
<1>3. garbled' \in BOOLEAN BY DEF Read, IInv, TypeOK
<1>4. rCount \in Nat /\ got \in Seq(FramesOf) /\ rCount = Len(got) /\ rCount <= Len(intact)
      /\ Len(intact) \in Nat
  BY DEF IInv, TypeOK, Counted
<1>5. rCount' \in Nat /\ got' \in Seq(FramesOf) /\ rCount' = Len(got') /\ rCount' <= Len(intact)
  BY <1>4, ReadOpensNext
<1>6. wire' \in Seq(WireFrames)
      /\ \A k \in DOMAIN wire' : k + 1 \in DOMAIN wire /\ wire'[k] = wire[k + 1]
  BY <1>2
<1>7. TypeOK' BY <1>1, <1>3, <1>5, <1>6 DEF IInv, TypeOK, WireFrames
<1>8. Writers' /\ LastSent' BY <1>1 DEF IInv, Writers, LastSent, WholeBefore
<1>9. Counted'
  <2>1. \A k \in DOMAIN wire' : wire'[k].count < wCount' BY <1>1, <1>6 DEF IInv, Counted
  <2>2. ASSUME NEW k \in DOMAIN wire', wire'[k].whole
        PROVE  \/ wire'[k].count > Len(intact')
               \/ wire'[k].count < Len(intact') /\ wire'[k].frame = intact'[wire'[k].count + 1]
    BY <1>1, <1>6, <2>2 DEF IInv, Counted
  <2> QED BY <1>1, <1>5, <2>1, <2>2 DEF IInv, Counted
<1> QED BY <1>7, <1>8, <1>9 DEF IInv

-----------------------------------------------------------------------------
LEMMA NextKeeps == ASSUME Setting, IInv, [Next]_pipeVars PROVE IInv'
<1>1. CASE Handshake
  BY <1>1 DEF Handshake, IInv, TypeOK, Writers, LastSent, WholeBefore, Counted
<1>2. CASE Read BY <1>2, ReadKeeps
<1>3. ASSUME NEW m \in Messages, Lock(m) PROVE IInv'
  <2>1. /\ wmu = None /\ wmu' = m /\ m # None /\ m \in writing
        /\ UNCHANGED <<ends, written, writing, wCount, wire, rCount, garbled, intact, got, breaks>>
    BY <1>3 DEF Lock, Setting
  <2>2. written[m] = 0 /\ Frames[m] \in Nat \ {0} BY <2>1 DEF IInv, Writers, Setting
  <2>3. TypeOK' BY <2>1 DEF IInv, TypeOK
  <2>4. Writers'
    <3>1. wmu' \in writing' /\ written'[wmu'] < Frames[wmu'] BY <2>1, <2>2
    <3>2. \A l \in writing' : l # wmu' => written'[l] = 0
      <4>1. \A l \in writing : l # wmu => written[l] = 0 BY DEF IInv, Writers
      <4>2. \A l \in writing : l # wmu BY <2>1 DEF Setting, IInv, TypeOK
      <4> QED BY <2>1, <4>1, <4>2
    <3> QED BY <3>1, <3>2 DEF Writers
  <2>5. LastSent' BY <2>1, <2>2 DEF IInv, LastSent, WholeBefore
  <2>6. Counted' BY <2>1 DEF IInv, Counted
  <2> QED BY <2>3, <2>4, <2>5, <2>6 DEF IInv
<1>4. ASSUME NEW m \in Messages, NEW n \in {"all", "some", "none"}, WriteFrame(m, n) PROVE IInv'
  BY <1>4, WriteKeeps
<1>5. CASE UNCHANGED pipeVars
  BY <1>5 DEF pipeVars, IInv, TypeOK, Writers, LastSent, WholeBefore, Counted
<1> QED BY <1>1, <1>2, <1>3, <1>4, <1>5 DEF Next

(* Every step of the pipe is one of OrderedPipe or changes nothing of it.   *)
LEMMA StepsMap == ASSUME Setting, IInv, [Next]_pipeVars PROVE [Promise!Next]_(Promise!oVars)
<1>1. CASE Handshake BY <1>1 DEF Handshake, Promise!oVars
<1>2. CASE Read
  <2>1. intact' = intact BY <1>2 DEF Read
  <2>2. got' = got \/ (Len(got) < Len(intact) /\ got' = Append(got, intact[Len(got) + 1]))
    BY <1>2, ReadOpensNext
  <2> QED BY <2>1, <2>2 DEF Promise!oVars, Promise!Next, Promise!Receive
<1>3. ASSUME NEW m \in Messages, Lock(m) PROVE UNCHANGED <<intact, got>>
  BY <1>3 DEF Lock
<1>4. ASSUME NEW m \in Messages, NEW n \in {"all", "some", "none"}, WriteFrame(m, n)
      PROVE  [Promise!Next]_(Promise!oVars)
  <2>1. got' = got BY <1>4 DEF WriteFrame, Seal
  <2>2. CASE n = "all" /\ breaks = 0
    <3>1. intact' = Append(intact, <<m, written[m] + 1>>) BY <1>4, <2>2 DEF WriteFrame, Seal
    <3>2. written[m] + 1 \in 1..Frames[m] /\ Promise!Follows(m, written[m] + 1)
      BY <1>4, <2>2, WriterFollows
    <3>3. Promise!Send(m, written[m] + 1) BY <2>1, <3>1, <3>2 DEF Promise!Send
    <3> QED BY <3>2, <3>3 DEF Promise!Next
  <2>3. CASE ~(n = "all" /\ breaks = 0)
    BY <1>4, <2>1, <2>3 DEF WriteFrame, Seal, Promise!oVars
  <2> QED BY <2>2, <2>3
<1>5. CASE UNCHANGED pipeVars BY <1>5 DEF pipeVars, Promise!oVars
<1> QED BY <1>1, <1>2, <1>3, <1>4, <1>5 DEF Next, Promise!oVars

(* pipe.go: whatever becomes of the connection and whoever goes on writing, *)
(* the frames come out in the order they went in, none twice and none left  *)
(* out, and no message's frames between those of another.                   *)
THEOREM PipeImplementsPromise == ASSUME Setting PROVE Spec => KeepsPromise
<1>1. Init => IInv BY InitInv
<1>2. IInv /\ [Next]_pipeVars => IInv' BY NextKeeps
<1>3. IInv /\ [Next]_pipeVars => [Promise!Next]_(Promise!oVars) BY StepsMap
<1>4. Init => Promise!Init BY DEF Init, Promise!Init
<1> QED BY <1>1, <1>2, <1>3, <1>4, PTL DEF Spec, KeepsPromise, Promise!Spec
=============================================================================
