--------------------------- MODULE TransferProofs ---------------------------
(***************************************************************************)
(* Proofs about Transfer, for any transfers, numbers and sizes of files,   *)
(* and any number of changes and faults; and about SavedFiles, for any     *)
(* transfers with any names of files, and a log of any length.             *)
(***************************************************************************)
EXTENDS Transfer, SavedFiles, FiniteSetTheorems, SequenceTheorems, TLAPS

(***************************************************************************)
(* The inductive invariant. Files change only once they are offered,       *)
(* nothing is received before a connection is there, and nothing saved     *)
(* before the offer is accepted; a phone moves on to the next file only    *)
(* when it has the whole of this one.                                      *)
(***************************************************************************)
Fresh ==
  \A t \in Transfers :
    /\ sender[t].step = "idle" => conn[t] = "none" /\ disk[t] \in [Files -> Sizes]
    /\ conn[t] = "none" => receiver[t].step = "none"
    /\ receiver[t].step \in {"none", "prompt"} =>
         receiver[t].file = 1 /\ \A f \in Files : saved[t][f] = <<>>

PhoneHasWhole ==
  \A t \in Transfers :
    ex[t].to \in Phones =>
      /\ receiver[t].step = "saving" =>
           \A f \in 1 .. receiver[t].file - 1 : Len(saved[t][f]) = offer[t][f]
      /\ receiver[t].step = "completed" => Whole(t)

IInv == TypeOK /\ Fresh /\ PhoneHasWhole

LEMMA InitIInv == Init => IInv
<1> SUFFICES ASSUME Init PROVE IInv
  OBVIOUS
<1>1. SendingOK
  BY TransferAssumption DEF Init, SendingOK, SenderSteps, Sizes, Files
<1>2. \A f \in Files : Len(<<>>) = 0
  OBVIOUS
<1>3. WireOK /\ SavingOK
  BY <1>2, TransferAssumption DEF Init, WireOK, SavingOK, ReceiverSteps, Sizes, Files, Exchange
<1> QED
  BY <1>1, <1>3 DEF Init, IInv, TypeOK, Fresh, PhoneHasWhole

(***************************************************************************)
(* Steps of the sender that leave the offer and the wire alone.            *)
(***************************************************************************)
TouchedOK == touched \in [Transfers -> SUBSET Spoils] /\ touches \in 0 .. MaxTouches

LEMMA StillTouched ==
  ASSUME IInv, touched' = touched, touches' = touches
  PROVE  TouchedOK'
  BY DEF TouchedOK, IInv, TypeOK, SendingOK

\* What a step that may fail to read the sender's files does to them.
LEMMA ReadingTouches ==
  ASSUME IInv, NEW t \in Transfers, OpenFile(t) \/ SendFails(t)
  PROVE  /\ TouchedOK'
         /\ UNCHANGED <<ex, disk, offer, verdict, wire, receiver, saved, prompt, faults>>
         /\ touched[t] \subseteq touched'[t]
         /\ touched'[t] \subseteq touched[t] \union {"unopened", "unread"}
         /\ \A u \in Transfers : u # t => touched'[u] = touched[u]
<1>1. touched \in [Transfers -> SUBSET Spoils] /\ touches \in 0 .. MaxTouches
  BY DEF IInv, TypeOK, SendingOK
<1>2. /\ UNCHANGED <<ex, disk, offer, verdict, wire, receiver, saved, prompt, faults>>
      /\ \/ UNCHANGED <<touched, touches>>
         \/ \E how \in {"unopened", "unread"} : CannotRead(t, how)
  BY DEF OpenFile, SendFails
<1>3. ASSUME NEW how \in {"unopened", "unread"}, CannotRead(t, how)
      PROVE  /\ touched' = [touched EXCEPT ![t] = @ \union {how}]
             /\ touches' \in 0 .. MaxTouches
  BY <1>1, <1>3, TransferAssumption DEF CannotRead
<1>4. \A how \in {"unopened", "unread"} : how \in Spoils
  BY DEF Spoils
<1>5. CASE UNCHANGED <<touched, touches>>
  BY <1>1, <1>2, <1>5 DEF TouchedOK
<1>6. ASSUME NEW how \in {"unopened", "unread"}, CannotRead(t, how)
      PROVE  /\ TouchedOK' /\ touched[t] \subseteq touched'[t]
             /\ touched'[t] \subseteq touched[t] \union {"unopened", "unread"}
             /\ \A u \in Transfers : u # t => touched'[u] = touched[u]
  <2>1. /\ touched' = [touched EXCEPT ![t] = @ \union {how}] /\ touches' \in 0 .. MaxTouches
        /\ how \in Spoils
    BY <1>3, <1>4, <1>6
  <2>2. touched' \in [Transfers -> SUBSET Spoils]
    BY <1>1, <2>1
  <2>3. touched'[t] = touched[t] \union {how} /\ \A u \in Transfers : u # t => touched'[u] = touched[u]
    BY <1>1, <2>1
  <2> QED
    BY <2>1, <2>2, <2>3 DEF TouchedOK
<1> QED
  BY <1>2, <1>5, <1>6

LEMMA SenderMoves ==
  ASSUME IInv, NEW t \in Transfers,
         UNCHANGED <<ex, disk, offer, verdict, wire, receiver, saved, prompt>>,
         TouchedOK', faults' \in 0 .. MaxFaults,
         NEW r \in [step : SenderSteps \ {"idle"}, file : 1 .. MaxFiles + 1, at : Sizes],
         r.step = "streaming" => r.file <= ex[t].n /\ disk[t][r.file] # None,
         sender' = [sender EXCEPT ![t] = r],
         NEW c \in {"none", "open", "closed", "cut"}, c = "none" => conn[t] = "none",
         conn' = [conn EXCEPT ![t] = c]
  PROVE  IInv'
<1>1. SendingOK'
  BY DEF IInv, TypeOK, SendingOK, TouchedOK
<1>2. WireOK'
  BY DEF IInv, TypeOK, WireOK
<1>3. SavingOK'
  BY DEF IInv, TypeOK, SavingOK
<1>4. PhoneHasWhole'
  BY DEF IInv, PhoneHasWhole, Whole
<1>5. Fresh'
  BY DEF IInv, TypeOK, SendingOK, WireOK, Fresh
<1> QED
  BY <1>1, <1>2, <1>3, <1>4, <1>5 DEF IInv, TypeOK

\* The same for a step that leaves the bytes read as they are.
LEMMA SenderGoes ==
  ASSUME IInv, NEW t \in Transfers,
         UNCHANGED <<ex, disk, offer, verdict, wire, receiver, saved, prompt>>,
         TouchedOK', faults' \in 0 .. MaxFaults,
         NEW x \in SenderSteps \ {"idle", "streaming"}, NEW f \in 1 .. MaxFiles + 1,
         sender' = [sender EXCEPT ![t] = [@ EXCEPT !.step = x, !.file = f]],
         NEW c \in {"none", "open", "closed", "cut"}, c = "none" => conn[t] = "none",
         conn' = [conn EXCEPT ![t] = c]
  PROVE  IInv'
<1> DEFINE r == [sender[t] EXCEPT !.step = x, !.file = f]
<1>1. sender[t] \in [step : SenderSteps, file : 1 .. MaxFiles + 1, at : Sizes]
  BY DEF IInv, TypeOK, SendingOK
<1>2. /\ r \in [step : SenderSteps \ {"idle"}, file : 1 .. MaxFiles + 1, at : Sizes]
      /\ r.step # "streaming" /\ sender' = [sender EXCEPT ![t] = r]
  BY <1>1
<1> HIDE DEF r
<1> QED
  BY <1>2, SenderMoves

\* What a sender's step may do to the connection.
LEMMA ConnLeft ==
  ASSUME IInv, NEW t \in Transfers, conn' = conn \/ Closes(t)
  PROVE  \E c \in {"none", "open", "closed", "cut"} :
           (c = "none" => conn[t] = "none") /\ conn' = [conn EXCEPT ![t] = c]
<1>1. conn[t] \in {"none", "open", "closed", "cut"} /\ conn = [conn EXCEPT ![t] = conn[t]]
  BY DEF IInv, TypeOK, WireOK
<1>2. CASE conn' = conn
  BY <1>1, <1>2
<1>3. CASE Closes(t)
  BY <1>1, <1>3 DEF Closes
<1> QED
  BY <1>2, <1>3

LEMMA SenderStops ==
  ASSUME IInv, NEW t \in Transfers, TouchedOK',
         UNCHANGED <<ex, disk, offer, verdict, wire, receiver, saved, prompt, faults>>,
         NEW x \in SenderSteps \ {"idle", "streaming"}, NEW f \in 1 .. MaxFiles + 1,
         sender' = [sender EXCEPT ![t] = [@ EXCEPT !.step = x, !.file = f]],
         conn' = conn \/ Closes(t)
  PROVE  IInv'
<1>1. PICK c \in {"none", "open", "closed", "cut"} :
        (c = "none" => conn[t] = "none") /\ conn' = [conn EXCEPT ![t] = c]
  BY ConnLeft
<1>2. faults' \in 0 .. MaxFaults
  BY DEF IInv, TypeOK, SendingOK
<1> QED
  BY <1>1, <1>2, SenderGoes

LEMMA StepOnly ==
  ASSUME IInv, NEW t \in Transfers, NEW x
  PROVE  /\ sender[t].file \in 1 .. MaxFiles + 1
         /\ [sender EXCEPT ![t].step = x]
              = [sender EXCEPT ![t] = [@ EXCEPT !.step = x, !.file = sender[t].file]]
  BY DEF IInv, TypeOK, SendingOK

LEMMA SenderStepOnly ==
  ASSUME IInv, NEW t \in Transfers, TouchedOK',
         UNCHANGED <<ex, disk, offer, verdict, wire, receiver, saved, prompt, faults>>,
         NEW x \in SenderSteps \ {"idle", "streaming"},
         sender' = [sender EXCEPT ![t].step = x],
         conn' = conn \/ Closes(t)
  PROVE  IInv'
<1>1. sender[t].file \in 1 .. MaxFiles + 1
  BY StepOnly
<1>2. sender' = [sender EXCEPT ![t] = [@ EXCEPT !.step = x, !.file = sender[t].file]]
  BY StepOnly
<1> QED
  BY <1>1, <1>2, SenderStops

LEMMA ThrowsStep ==
  ASSUME IInv, NEW t \in Transfers, Stops(t), TouchedOK',
         UNCHANGED <<ex, disk, offer, verdict, wire, receiver, saved, prompt, faults>>
  PROVE  IInv'
  BY SenderStepOnly DEF Stops, Throws, SenderSteps

LEMMA ReadVerdictStep ==
  ASSUME IInv, NEW t \in Transfers, ReadVerdict(t)
  PROVE  IInv'
<1> TouchedOK' /\ UNCHANGED <<ex, disk, offer, verdict, wire, receiver, saved, prompt, faults>>
  BY StillTouched DEF ReadVerdict, sending
<1>1. CASE sender' = [sender EXCEPT ![t].step = "opening"] /\ conn' = conn
  BY <1>1, SenderStepOnly DEF ReadVerdict, SenderSteps
<1>2. CASE sender' = [sender EXCEPT ![t].step = "error"] /\ Closes(t)
  BY <1>2, SenderStepOnly DEF ReadVerdict, SenderSteps
<1> QED
  BY <1>1, <1>2 DEF ReadVerdict

LEMMA AllSentStep ==
  ASSUME IInv, NEW t \in Transfers, AllSent(t)
  PROVE  IInv'
<1> TouchedOK' /\ UNCHANGED <<ex, disk, offer, verdict, wire, receiver, saved, prompt, faults>>
  BY StillTouched DEF AllSent, sending
<1> QED
  BY SenderStepOnly DEF AllSent, SenderSteps

LEMMA FileEndsStep ==
  ASSUME IInv, NEW t \in Transfers, FileEnds(t)
  PROVE  IInv'
<1> DEFINE f == sender[t].file
<1>1. f + 1 \in 1 .. MaxFiles + 1
  BY TransferAssumption DEF FileEnds, IInv, TypeOK, SendingOK, Exchange, Files
<1>2. sender' = [sender EXCEPT ![t] = [@ EXCEPT !.step = "opening", !.file = f + 1]]
  BY DEF FileEnds
<1>3. TouchedOK'
  BY StillTouched DEF FileEnds, sending
<1> QED
  BY <1>1, <1>2, <1>3, SenderStops DEF FileEnds, sending, SenderSteps

LEMMA OpenFileStep ==
  ASSUME IInv, NEW t \in Transfers, OpenFile(t)
  PROVE  IInv'
<1> DEFINE f == sender[t].file
<1>1. /\ sender \in [Transfers -> [step : SenderSteps, file : 1 .. MaxFiles + 1, at : Sizes]]
      /\ sender[t].step = "opening" /\ f <= ex[t].n /\ ex[t].n \in Files
  BY DEF OpenFile, IInv, TypeOK, SendingOK, Exchange
<1>2. CASE /\ disk[t][f] # None /\ conn' = conn
           /\ sender' = [sender EXCEPT ![t].step = "streaming", ![t].at = 0]
  <2> DEFINE r == [sender[t] EXCEPT !.step = "streaming", !.at = 0]
  <2>1. /\ r \in [step : SenderSteps \ {"idle"}, file : 1 .. MaxFiles + 1, at : Sizes]
        /\ r.file = f
    <3>1. 0 \in Sizes /\ "streaming" \in SenderSteps \ {"idle"}
      BY TransferAssumption DEF SenderSteps, Sizes
    <3> QED
      BY <1>1, <3>1
  <2>4. sender' = [sender EXCEPT ![t] = r]
    BY <1>1, <1>2
  <2>2. PICK c \in {"none", "open", "closed", "cut"} :
          (c = "none" => conn[t] = "none") /\ conn' = [conn EXCEPT ![t] = c]
    BY <1>2, ConnLeft
  <2>3. faults' \in 0 .. MaxFaults
    BY DEF OpenFile, IInv, TypeOK, SendingOK
  <2>5. /\ UNCHANGED <<ex, disk, offer, verdict, wire, receiver, saved, prompt>> /\ TouchedOK'
        /\ r.file <= ex[t].n /\ disk[t][r.file] # None
    BY <1>1, <1>2, <2>1, ReadingTouches
  <2> HIDE DEF r, f
  <2> QED
    BY <2>1, <2>2, <2>3, <2>4, <2>5, SenderMoves
<1>3. CASE sender' = [sender EXCEPT ![t].file = f + 1] /\ conn' = conn
  <2>1. f + 1 \in 1 .. MaxFiles + 1
    BY <1>1, TransferAssumption DEF Files
  <2>2. sender' = [sender EXCEPT ![t] = [@ EXCEPT !.step = "opening", !.file = f + 1]]
    <3>1. [sender EXCEPT ![t].file = f + 1]
            = [sender EXCEPT ![t] = [sender[t] EXCEPT !.file = f + 1]]
      BY <1>1
    <3>2. [sender[t] EXCEPT !.file = f + 1]
            = [sender[t] EXCEPT !.step = "opening", !.file = f + 1]
      BY <1>1
    <3> QED
      BY <1>3, <3>1, <3>2
  <2>3. /\ UNCHANGED <<ex, disk, offer, verdict, wire, receiver, saved, prompt, faults>> /\ TouchedOK'
        /\ "opening" \in SenderSteps \ {"idle", "streaming"}
    BY ReadingTouches DEF SenderSteps
  <2> HIDE DEF f
  <2> QED
    BY <1>3, <2>1, <2>2, <2>3, SenderStops
<1>4. CASE Stops(t)
  BY <1>4, ThrowsStep, ReadingTouches
<1> QED
  BY <1>2, <1>3, <1>4 DEF OpenFile

LEMMA SenderDiesStep ==
  ASSUME IInv, NEW t \in Transfers, SenderDies(t)
  PROVE  IInv'
<1>1. PICK c \in {"none", "open", "closed", "cut"} :
        (c = "none" => conn[t] = "none") /\ conn' = [conn EXCEPT ![t] = c]
  BY DEF SenderDies, IInv, TypeOK, WireOK
<1>2. faults' \in 0 .. MaxFaults
  BY TransferAssumption DEF SenderDies, IInv, TypeOK, SendingOK
<1>3. /\ UNCHANGED <<ex, disk, offer, verdict, wire, receiver, saved, prompt>> /\ TouchedOK'
      /\ "dead" \in SenderSteps \ {"idle", "streaming"}
  BY StillTouched DEF SenderDies, sending, SenderSteps
<1>4. /\ sender[t].file \in 1 .. MaxFiles + 1
      /\ sender' = [sender EXCEPT ![t] = [@ EXCEPT !.step = "dead", !.file = sender[t].file]]
  BY StepOnly DEF SenderDies
<1> QED
  BY <1>1, <1>2, <1>3, <1>4, SenderGoes

LEMMA CutStep ==
  ASSUME IInv, NEW t \in Transfers, Cut(t)
  PROVE  IInv'
<1>1. SendingOK'
  BY TransferAssumption DEF Cut, sending, IInv, TypeOK, SendingOK
<1>2. WireOK' /\ SavingOK'
  BY DEF Cut, sending, IInv, TypeOK, WireOK, SavingOK
<1>3. Fresh' /\ PhoneHasWhole'
  BY DEF Cut, sending, IInv, TypeOK, WireOK, Fresh, PhoneHasWhole, Whole
<1> QED
  BY <1>1, <1>2, <1>3 DEF IInv, TypeOK

(***************************************************************************)
(* Steps of the receiver that save nothing.                                *)
(***************************************************************************)
ReceiverInfo == [step : ReceiverSteps \ {"none"}, file : Files]

\* What a phone that gets to r has saved.
Earned(t, r) ==
  ex[t].to \in Phones =>
    /\ r.step = "saving" => \A f \in 1 .. r.file - 1 : Len(saved[t][f]) = offer[t][f]
    /\ r.step = "completed" => Whole(t)

LEMMA ReceiverMoves ==
  ASSUME IInv, NEW t \in Transfers,
         UNCHANGED <<ex, sending, offer, sender, conn, wire, saved, faults>>,
         verdict' \in [Transfers -> {None, "accept", "reject"}],
         NEW r \in ReceiverInfo, receiver' = [receiver EXCEPT ![t] = r],
         r.file <= ex[t].n, conn[t] # "none", Earned(t, r),
         r.step = "prompt" => r.file = 1 /\ \A f \in Files : saved[t][f] = <<>>,
         prompt' \in [Dev -> Transfers \union {None}],
         \A d \in Dev : prompt'[d] # None =>
           \/ prompt'[d] = t /\ r.step = "prompt" /\ d = ex[t].to
           \/ prompt'[d] = prompt[d] /\ prompt[d] # t
  PROVE  IInv'
<1>1. receiver \in [Transfers -> [step : ReceiverSteps, file : Files]]
  BY DEF IInv, TypeOK, SavingOK
<1>2. receiver'[t] = r /\ \A u \in Transfers : u # t => receiver'[u] = receiver[u]
  BY <1>1
<1>3. SendingOK' /\ WireOK'
  BY DEF sending, IInv, TypeOK, SendingOK, WireOK
<1>4. SavingOK'
  <2>1. receiver' \in [Transfers -> [step : ReceiverSteps, file : Files]]
    BY <1>1 DEF ReceiverInfo
  <2>2. \A u \in Transfers : receiver'[u].file <= ex[u].n
    BY <1>2 DEF IInv, TypeOK, SavingOK
  <2>3. \A d \in Dev :
          prompt'[d] # None => receiver'[prompt'[d]].step = "prompt" /\ ex[prompt'[d]].to = d
    BY <1>2 DEF IInv, TypeOK, SavingOK
  <2> QED
    BY <2>1, <2>2, <2>3 DEF IInv, TypeOK, SavingOK
<1>5. Fresh'
  BY <1>2 DEF sending, IInv, Fresh, ReceiverInfo
<1>6. PhoneHasWhole'
  <2> SUFFICES ASSUME NEW u \in Transfers, ex[u].to \in Phones
               PROVE  /\ receiver'[u].step = "saving" =>
                           \A f \in 1 .. receiver'[u].file - 1 :
                             Len(saved[u][f]) = offer[u][f]
                      /\ receiver'[u].step = "completed" => Whole(u)
    BY DEF PhoneHasWhole, Whole
  <2>1. CASE u = t
    BY <1>2, <2>1 DEF Earned
  <2>2. CASE u # t
    <3>1. receiver'[u] = receiver[u]
      BY <1>2, <2>2
    <3> QED
      BY <3>1 DEF IInv, PhoneHasWhole
  <2> QED
    BY <2>1, <2>2
<1> QED
  BY <1>3, <1>4, <1>5, <1>6 DEF IInv, TypeOK

\* The same for a transfer no user is asked about any more.
LEMMA SaverMoves ==
  ASSUME IInv, NEW t \in Transfers, receiver[t].step = "saving",
         UNCHANGED <<ex, sending, offer, sender, conn, verdict, wire, saved, prompt, faults>>,
         NEW r \in ReceiverInfo, receiver' = [receiver EXCEPT ![t] = r],
         r.file <= ex[t].n, r.step # "prompt", Earned(t, r)
  PROVE  IInv'
<1>1. conn[t] # "none"
  BY DEF IInv, Fresh
<1>2. \A d \in Dev : prompt'[d] # None => prompt'[d] = prompt[d] /\ prompt[d] # t
  BY DEF IInv, TypeOK, SavingOK
<1>3. /\ verdict' \in [Transfers -> {None, "accept", "reject"}]
      /\ prompt' \in [Dev -> Transfers \union {None}]
  BY DEF IInv, TypeOK, WireOK, SavingOK
<1> QED
  BY <1>1, <1>2, <1>3, ReceiverMoves

LEMMA NextFileMoves ==
  ASSUME IInv, NEW t \in Transfers, receiver[t].step = "saving", NextFile(t),
         ex[t].to \in Phones => ~Short(t),
         UNCHANGED <<ex, sending, offer, sender, conn, verdict, wire, saved, prompt, faults>>
  PROVE  IInv'
<1> DEFINE g == receiver[t].file
           r == IF g < ex[t].n THEN [receiver[t] EXCEPT !.file = g + 1]
                ELSE [receiver[t] EXCEPT !.step = "completed"]
<1>1. /\ receiver[t] \in [step : ReceiverSteps, file : Files]
      /\ g \in Files /\ g <= ex[t].n /\ ex[t].n \in Files
  BY DEF IInv, TypeOK, SendingOK, SavingOK, Exchange
<1>2. receiver' = [receiver EXCEPT ![t] = r]
  <2>1. CASE g < ex[t].n /\ receiver' = [receiver EXCEPT ![t].file = g + 1]
    BY <2>1
  <2>2. CASE g = ex[t].n /\ receiver' = [receiver EXCEPT ![t].step = "completed"]
    <3>1. ~(g < ex[t].n)
      BY <1>1, <2>2, TransferAssumption DEF Files
    <3> QED
      BY <2>2, <3>1
  <2> QED
    BY <2>1, <2>2 DEF NextFile
<1>3. r \in ReceiverInfo /\ r.file <= ex[t].n /\ r.step # "prompt"
  BY <1>1, TransferAssumption DEF ReceiverInfo, ReceiverSteps, Files
<1>4. Earned(t, r)
  <2> SUFFICES ASSUME ex[t].to \in Phones
               PROVE  /\ r.step = "saving" =>
                           \A f \in 1 .. r.file - 1 : Len(saved[t][f]) = offer[t][f]
                      /\ r.step = "completed" => Whole(t)
    BY DEF Earned
  <2>1. Len(saved[t][g]) = offer[t][g]
    <3>1. /\ saved[t][g] \in Seq(Files) /\ offer[t][g] \in Nat
          /\ Len(saved[t][g]) <= offer[t][g]
      BY <1>1, TransferAssumption DEF IInv, TypeOK, WireOK, SavingOK, Sizes
    <3>2. ~(Len(saved[t][g]) < offer[t][g])
      BY DEF Short
    <3>3. Len(saved[t][g]) \in Nat
      BY <3>1, LenProperties
    <3> QED
      BY <3>1, <3>2, <3>3
  <2>2. \A f \in 1 .. g : Len(saved[t][f]) = offer[t][f]
    <3>1. \A f \in 1 .. g : f = g \/ f \in 1 .. g - 1
      BY <1>1 DEF Files
    <3> QED
      BY <2>1, <3>1 DEF IInv, PhoneHasWhole
  <2>3. CASE g < ex[t].n
    BY <1>1, <2>2, <2>3 DEF Files
  <2>4. CASE ~(g < ex[t].n)
    BY <1>1, <2>2, <2>4 DEF Files, Whole
  <2> QED
    BY <2>3, <2>4
<1> HIDE DEF r, g
<1> QED
  BY <1>2, <1>3, <1>4, SaverMoves

LEMMA SavingEndsStep ==
  ASSUME IInv, NEW t \in Transfers, receiver[t].step = "saving",
         NEW x \in {"error", "lost"}, receiver' = [receiver EXCEPT ![t].step = x],
         UNCHANGED <<ex, sending, offer, sender, conn, verdict, wire, saved, prompt, faults>>
  PROVE  IInv'
<1> DEFINE r == [receiver[t] EXCEPT !.step = x]
<1>1. /\ receiver[t] \in [step : ReceiverSteps, file : Files]
      /\ receiver[t].file <= ex[t].n
  BY DEF IInv, TypeOK, SavingOK
<1>2. receiver' = [receiver EXCEPT ![t] = r]
  OBVIOUS
<1>3. r \in ReceiverInfo /\ r.file <= ex[t].n /\ r.step = x
  BY <1>1 DEF ReceiverInfo, ReceiverSteps
<1> HIDE DEF r
<1>4. Earned(t, r)
  BY <1>3 DEF Earned
<1> QED
  BY <1>2, <1>3, <1>4, SaverMoves

LEMMA SaverSteps ==
  ASSUME IInv, NEW t \in Transfers,
         \/ FileSaved(t) \/ ComputerStreamEnds(t) \/ PhoneStreamEnds(t)
         \/ ReadFails(t) \/ CannotSave(t)
  PROVE  IInv'
<1>1. CASE FileSaved(t)
  BY <1>1, NextFileMoves DEF FileSaved
<1>2. CASE ComputerStreamEnds(t)
  <2>1. ex[t].to \notin Phones
    BY <1>2, TransferAssumption DEF ComputerStreamEnds
  <2> QED
    BY <1>2, <2>1, NextFileMoves DEF ComputerStreamEnds
<1>3. CASE PhoneStreamEnds(t)
  BY <1>3, SavingEndsStep DEF PhoneStreamEnds
<1>4. CASE ReadFails(t)
  BY <1>4, SavingEndsStep DEF ReadFails
<1>5. CASE CannotSave(t)
  <2>1. PICK x \in {"error", "lost"} : receiver' = [receiver EXCEPT ![t].step = x]
    BY <1>5 DEF CannotSave
  <2> QED
    BY <1>5, <2>1, SavingEndsStep DEF CannotSave
<1> QED
  BY <1>1, <1>2, <1>3, <1>4, <1>5

(***************************************************************************)
(* Reading an offer and answering it.                                      *)
(***************************************************************************)
LEMMA AnswerMoves ==
  ASSUME IInv, NEW t \in Transfers, receiver[t].step \in {"none", "prompt"}, conn[t] # "none",
         UNCHANGED <<ex, sending, offer, sender, conn, wire, saved, faults>>,
         verdict' \in [Transfers -> {None, "accept", "reject"}],
         NEW x \in {"prompt", "saving", "rejected", "lost"},
         receiver' = [receiver EXCEPT ![t].step = x],
         prompt' \in [Dev -> Transfers \union {None}],
         \A d \in Dev : prompt'[d] # None =>
           \/ prompt'[d] = t /\ x = "prompt" /\ d = ex[t].to
           \/ prompt'[d] = prompt[d] /\ prompt[d] # t
  PROVE  IInv'
<1> DEFINE r == [receiver[t] EXCEPT !.step = x]
<1>1. /\ receiver[t] \in [step : ReceiverSteps, file : Files] /\ receiver[t].file <= ex[t].n
      /\ receiver[t].file = 1 /\ \A f \in Files : saved[t][f] = <<>>
  BY DEF IInv, TypeOK, SavingOK, Fresh
<1>2. /\ r \in ReceiverInfo /\ r.file = 1 /\ r.file <= ex[t].n /\ r.step = x
      /\ receiver' = [receiver EXCEPT ![t] = r]
  BY <1>1 DEF ReceiverInfo, ReceiverSteps
<1> HIDE DEF r
<1>3. Earned(t, r)
  BY <1>2 DEF Earned
<1>4. \A d \in Dev : prompt'[d] # None =>
        \/ prompt'[d] = t /\ r.step = "prompt" /\ d = ex[t].to
        \/ prompt'[d] = prompt[d] /\ prompt[d] # t
  BY <1>2
<1> QED
  BY <1>1, <1>2, <1>3, <1>4, ReceiverMoves, ZenonT(30)

LEMMA AcceptsMoves ==
  ASSUME IInv, NEW t \in Transfers, Accepts(t)
  PROVE  /\ verdict' \in [Transfers -> {None, "accept", "reject"}]
         /\ \E x \in {"saving", "lost"} : receiver' = [receiver EXCEPT ![t].step = x]
  BY DEF Accepts, IInv, TypeOK, WireOK

LEMMA ReadOfferStep ==
  ASSUME IInv, NEW t \in Transfers, ReadOffer(t)
  PROVE  IInv'
<1>1. /\ receiver[t].step = "none" /\ conn[t] # "none"
      /\ UNCHANGED <<ex, sending, offer, sender, conn, wire, saved, faults>>
      /\ prompt \in [Dev -> Transfers \union {None}]
      /\ verdict \in [Transfers -> {None, "accept", "reject"}]
  BY DEF ReadOffer, IInv, TypeOK, WireOK, SavingOK
<1>2. \A d \in Dev : prompt[d] # None => prompt[d] # t
  BY <1>1 DEF IInv, TypeOK, SavingOK
<1>3. CASE Accepts(t) /\ prompt' = prompt
  BY <1>1, <1>2, <1>3, AcceptsMoves, AnswerMoves
<1>4. CASE /\ receiver' = [receiver EXCEPT ![t].step = "prompt"]
           /\ prompt' = [prompt EXCEPT ![ex[t].to] = t] /\ verdict' = verdict
  <2>1. \A d \in Dev :
          prompt'[d] # None => (prompt'[d] = t /\ d = ex[t].to) \/ prompt'[d] = prompt[d]
    <3>1. ex[t].to \in Dev
      BY DEF IInv, TypeOK, SendingOK, Exchange
    <3> QED
      BY <1>1, <1>4, <3>1
  <2>2. prompt' \in [Dev -> Transfers \union {None}]
    BY <1>1, <1>4
  <2>3. \A d \in Dev : prompt'[d] # None =>
          \/ prompt'[d] = t /\ "prompt" = "prompt" /\ d = ex[t].to
          \/ prompt'[d] = prompt[d] /\ prompt[d] # t
    BY <1>2, <2>1
  <2>4. verdict' \in [Transfers -> {None, "accept", "reject"}]
    BY <1>1, <1>4
  <2> QED
    BY <1>1, <1>4, <2>2, <2>3, <2>4, AnswerMoves, ZenonT(30)
<1>5. CASE receiver' = [receiver EXCEPT ![t].step = "lost"] /\ UNCHANGED <<verdict, prompt>>
  <2>1. /\ verdict' \in [Transfers -> {None, "accept", "reject"}]
        /\ prompt' \in [Dev -> Transfers \union {None}]
    BY <1>1, <1>5
  <2>2. \A d \in Dev : prompt'[d] # None => prompt'[d] = prompt[d] /\ prompt[d] # t
    BY <1>2, <1>5
  <2> QED
    BY <1>1, <1>5, <2>1, <2>2, AnswerMoves, ZenonT(30)
<1> QED
  BY <1>3, <1>4, <1>5 DEF ReadOffer

LEMMA AnswerStep ==
  ASSUME IInv, NEW d \in Dev, Answer(d)
  PROVE  IInv'
<1> DEFINE t == prompt[d]
<1>1. /\ t \in Transfers /\ receiver[t].step = "prompt"
      /\ UNCHANGED <<ex, sending, offer, sender, conn, wire, saved, faults>>
      /\ prompt \in [Dev -> Transfers \union {None}]
      /\ prompt' = [prompt EXCEPT ![d] = None]
      /\ verdict \in [Transfers -> {None, "accept", "reject"}]
  BY DEF Answer, IInv, TypeOK, WireOK, SavingOK
<1>2. conn[t] # "none"
  BY <1>1 DEF IInv, Fresh
<1>3. \A e \in Dev : prompt'[e] # None => prompt'[e] = prompt[e] /\ prompt[e] # t
  <2>1. \A e \in Dev : e # d => prompt'[e] = prompt[e]
    BY <1>1
  <2>2. \A e \in Dev : prompt[e] = t => ex[t].to = e
    BY <1>1, TransferAssumption DEF IInv, TypeOK, SavingOK
  <2>3. \A e \in Dev : e # d => prompt[e] # t
    BY <2>2
  <2> QED
    BY <1>1, <2>1, <2>3
<1>4. prompt' \in [Dev -> Transfers \union {None}]
  BY <1>1
<1>5. Accepts(t) \/ /\ verdict' = [verdict EXCEPT ![t] = "reject"]
                    /\ receiver' = [receiver EXCEPT ![t].step = "rejected"]
  BY DEF Answer
<1> HIDE DEF t
<1>6. CASE Accepts(t)
  BY <1>1, <1>2, <1>3, <1>4, <1>6, AcceptsMoves, AnswerMoves
<1>7. CASE /\ verdict' = [verdict EXCEPT ![t] = "reject"]
           /\ receiver' = [receiver EXCEPT ![t].step = "rejected"]
  BY <1>1, <1>2, <1>3, <1>4, <1>7, AnswerMoves
<1> QED
  BY <1>5, <1>6, <1>7

LEMMA OtherOfferStep ==
  ASSUME IInv, NEW d \in Dev, OtherOffer(d)
  PROVE  IInv'
<1>1. SendingOK' /\ WireOK'
  BY DEF OtherOffer, sending, IInv, TypeOK, SendingOK, WireOK
<1>2. SavingOK'
  BY DEF OtherOffer, IInv, TypeOK, SavingOK
<1>3. Fresh'
  BY DEF OtherOffer, sending, IInv, Fresh
<1>4. PhoneHasWhole'
  BY DEF OtherOffer, IInv, PhoneHasWhole, Whole
<1> QED
  BY <1>1, <1>2, <1>3, <1>4 DEF IInv, TypeOK

(***************************************************************************)
(* Steps that change the offer, the files or the bytes on their way.       *)
(***************************************************************************)
LEMMA AskStep ==
  ASSUME IInv, NEW t \in Transfers, Ask(t)
  PROVE  IInv'
<1>1. CASE /\ sender' = [sender EXCEPT ![t].step = "error"]
           /\ UNCHANGED <<offer, conn>>
  BY <1>1, SenderStepOnly, StillTouched DEF Ask, sending, SenderSteps
<1>2. CASE /\ offer' = [offer EXCEPT ![t] = disk[t]]
           /\ sender' = [sender EXCEPT ![t].step = "asking"]
           /\ conn' = [conn EXCEPT ![t] = "open"]
  <2>1. /\ receiver[t].step = "none" /\ disk[t] \in [Files -> Sizes]
        /\ \A f \in Files : saved[t][f] = <<>>
    BY DEF Ask, IInv, Fresh
  <2>2. UNCHANGED <<ex, disk, touched, touches, verdict, wire, receiver, saved, prompt, faults>>
    BY DEF Ask, sending
  <2>3. SendingOK'
    BY <1>2, <2>2 DEF IInv, TypeOK, SendingOK, SenderSteps
  <2>4. WireOK'
    BY <1>2, <2>1, <2>2 DEF IInv, TypeOK, WireOK
  <2>5. SavingOK'
    <3>1. \A u \in Transfers, f \in Files : Len(saved[u][f]) <= offer'[u][f]
      <4>1. \A f \in Files : Len(saved[t][f]) = 0 /\ offer'[t][f] \in Nat
        BY <1>2, <2>1, <2>4, TransferAssumption DEF WireOK, Sizes
      <4>2. \A u \in Transfers : u # t => offer'[u] = offer[u]
        BY <1>2 DEF IInv, TypeOK, WireOK
      <4>3. \A u \in Transfers : u # t => \A f \in Files : Len(saved[u][f]) <= offer'[u][f]
        BY <4>2 DEF IInv, TypeOK, SavingOK
      <4>4. \A f \in Files : Len(saved[t][f]) <= offer'[t][f]
        BY <4>1
      <4> QED
        BY <4>3, <4>4
    <3> QED
      BY <2>2, <3>1 DEF IInv, TypeOK, SavingOK
  <2>6. Fresh'
    BY <1>2, <2>2 DEF IInv, TypeOK, SendingOK, WireOK, Fresh
  <2>7. PhoneHasWhole'
    <3> SUFFICES ASSUME NEW u \in Transfers, ex[u].to \in Phones
                 PROVE  /\ receiver[u].step = "saving" =>
                             \A f \in 1 .. receiver[u].file - 1 :
                               Len(saved[u][f]) = offer'[u][f]
                        /\ receiver[u].step = "completed" =>
                             \A f \in 1 .. ex[u].n : Len(saved[u][f]) = offer'[u][f]
      BY <2>2 DEF PhoneHasWhole, Whole
    <3>1. CASE u = t
      BY <2>1, <3>1
    <3>2. CASE u # t
      BY <1>2, <3>2 DEF IInv, TypeOK, WireOK, PhoneHasWhole, Whole
    <3> QED
      BY <3>1, <3>2
  <2> QED
    BY <2>3, <2>4, <2>5, <2>6, <2>7 DEF IInv, TypeOK
<1> QED
  BY <1>1, <1>2 DEF Ask

LEMMA SendByteStep ==
  ASSUME IInv, NEW t \in Transfers, SendByte(t)
  PROVE  IInv'
<1> DEFINE f == sender[t].file
<1>1. /\ f \in Files /\ f <= ex[t].n /\ disk[t][f] \in Sizes
      /\ sender[t].at \in Sizes /\ sender[t].at < disk[t][f]
      /\ sender \in [Transfers -> [step : SenderSteps, file : 1 .. MaxFiles + 1, at : Sizes]]
  <2>1. /\ f \in 1 .. MaxFiles + 1 /\ f <= ex[t].n /\ ex[t].n \in Files
        /\ disk[t][f] # None /\ disk[t] \in [Files -> Sizes \union {None}]
    BY DEF SendByte, IInv, TypeOK, SendingOK, Exchange
  <2>2. f \in Files
    BY <2>1, TransferAssumption DEF Files
  <2> QED
    BY <2>1, <2>2 DEF SendByte, IInv, TypeOK, SendingOK
<1>2. UNCHANGED <<ex, disk, touched, touches, offer, conn, verdict, receiver, saved, prompt, faults>>
  BY DEF SendByte, sending
<1>3. SendingOK'
  <2>1. sender[t].at + 1 \in Sizes
    BY <1>1, TransferAssumption DEF Sizes
  <2>2. sender' = [sender EXCEPT ![t].at = sender[t].at + 1]
    BY DEF SendByte
  <2> QED
    BY <1>1, <1>2, <2>1, <2>2 DEF IInv, TypeOK, SendingOK
<1>4. WireOK'
  <2>1. Append(wire[t], f) \in Seq(Files)
    BY <1>1, AppendProperties DEF IInv, TypeOK, WireOK
  <2>2. wire' \in [Transfers -> Seq(Files)]
    BY <2>1 DEF SendByte, IInv, TypeOK, WireOK
  <2> QED
    BY <1>2, <2>2 DEF IInv, TypeOK, WireOK
<1>5. SavingOK'
  BY <1>2 DEF IInv, TypeOK, SavingOK
<1>6. PhoneHasWhole'
  BY <1>2 DEF IInv, PhoneHasWhole, Whole
<1>7. Fresh'
  <2>1. \A u \in Transfers : sender'[u].step = sender[u].step
    BY <1>1 DEF SendByte
  <2> QED
    BY <1>2, <2>1 DEF IInv, Fresh
<1> QED
  BY <1>3, <1>4, <1>5, <1>6, <1>7 DEF IInv, TypeOK

LEMMA SaveByteStep ==
  ASSUME IInv, NEW t \in Transfers, SaveByte(t)
  PROVE  IInv'
<1> DEFINE g == receiver[t].file
           s == Append(saved[t][g], Head(wire[t]))
<1>1. /\ g \in Files /\ saved \in [Transfers -> [Files -> Seq(Files)]]
      /\ saved[t][g] \in Seq(Files) /\ wire[t] \in Seq(Files) /\ wire[t] # <<>>
      /\ wire \in [Transfers -> Seq(Files)] /\ offer[t][g] \in Sizes
  BY DEF SaveByte, IInv, TypeOK, WireOK, SavingOK
<1>2. /\ UNCHANGED <<ex, disk, touched, touches, offer, sender, conn, verdict, receiver,
                     prompt, faults>>
      /\ receiver[t].step = "saving" /\ Len(saved[t][g]) < offer[t][g]
  BY DEF SaveByte, sending, Short
<1>3. s \in Seq(Files) /\ Len(s) <= offer[t][g] /\ Tail(wire[t]) \in Seq(Files)
  <2>1. Head(wire[t]) \in Files /\ Tail(wire[t]) \in Seq(Files)
    BY <1>1, HeadTailProperties
  <2>2. s \in Seq(Files) /\ Len(s) = Len(saved[t][g]) + 1
    BY <1>1, <2>1, AppendProperties
  <2>3. Len(saved[t][g]) \in Nat
    BY <1>1, LenProperties
  <2>4. offer[t][g] \in Nat
    BY <1>1, TransferAssumption DEF Sizes
  <2>5. Len(s) <= offer[t][g]
    BY <1>2, <2>2, <2>3, <2>4
  <2> QED
    BY <2>1, <2>2, <2>5
<1>4. /\ saved' \in [Transfers -> [Files -> Seq(Files)]]
      /\ saved'[t][g] = s
      /\ \A u \in Transfers, f \in Files : u # t \/ f # g => saved'[u][f] = saved[u][f]
  <2>1. saved' = [saved EXCEPT ![t] = [saved[t] EXCEPT ![g] = s]]
    BY <1>1 DEF SaveByte
  <2> HIDE DEF s, g
  <2> QED
    BY <1>1, <1>3, <2>1
<1>5. wire' = [wire EXCEPT ![t] = Tail(wire[t])]
  BY DEF SaveByte
<1> HIDE DEF s
<1>6. SendingOK' /\ WireOK'
  BY <1>1, <1>2, <1>3, <1>5 DEF IInv, TypeOK, SendingOK, WireOK
<1>7. SavingOK'
  <2>1. \A u \in Transfers, f \in Files : Len(saved'[u][f]) <= offer[u][f]
    BY <1>3, <1>4 DEF IInv, TypeOK, SavingOK
  <2> QED
    BY <1>2, <1>4, <2>1 DEF IInv, TypeOK, SavingOK
<1>8. Fresh'
  <2>1. \A u \in Transfers : receiver[u].step \in {"none", "prompt"} =>
          u # t /\ \A f \in Files : saved'[u][f] = saved[u][f]
    BY <1>2, <1>4
  <2> QED
    BY <1>2, <2>1 DEF IInv, Fresh
<1>9. PhoneHasWhole'
  <2> SUFFICES ASSUME NEW u \in Transfers, ex[u].to \in Phones
               PROVE  /\ receiver[u].step = "saving" =>
                           \A f \in 1 .. receiver[u].file - 1 :
                             Len(saved'[u][f]) = offer[u][f]
                      /\ receiver[u].step = "completed" =>
                           \A f \in 1 .. ex[u].n : Len(saved'[u][f]) = offer[u][f]
    BY <1>2 DEF PhoneHasWhole, Whole
  <2>1. ex[u].n \in Files /\ receiver[u].file \in Files
    BY DEF IInv, TypeOK, SendingOK, SavingOK, Exchange
  <2>2. CASE u = t
    <3>1. \A f \in 1 .. g - 1 : f \in Files /\ f # g
      BY <2>1, <2>2, TransferAssumption DEF Files
    <3>2. \A f \in 1 .. g - 1 : saved'[t][f] = saved[t][f]
      BY <1>4, <3>1
    <3>3. \A f \in 1 .. g - 1 : Len(saved[t][f]) = offer[t][f]
      BY <1>2, <2>2 DEF IInv, PhoneHasWhole
    <3> QED
      BY <1>2, <2>2, <3>2, <3>3
  <2>3. CASE u # t
    <3>1. /\ \A f \in 1 .. ex[u].n : f \in Files
          /\ \A f \in 1 .. receiver[u].file - 1 : f \in Files
      BY <2>1, TransferAssumption DEF Files
    <3>2. \A f \in Files : saved'[u][f] = saved[u][f]
      BY <1>4, <2>3
    <3> QED
      BY <3>1, <3>2 DEF IInv, PhoneHasWhole, Whole
  <2> QED
    BY <2>2, <2>3
<1> QED
  BY <1>6, <1>7, <1>8, <1>9 DEF IInv, TypeOK

LEMMA TouchStep ==
  ASSUME IInv, NEW t \in Transfers, NEW f \in Files, NEW s \in Sizes \union {None},
         Touch(t, f, s)
  PROVE  IInv'
<1>1. UNCHANGED <<ex, offer, sender, conn, verdict, wire, receiver, saved, prompt, faults>>
  BY DEF Touch
<1>2. /\ disk' \in [Transfers -> [Files -> Sizes \union {None}]]
      /\ disk'[t][f] = s
      /\ \A u \in Transfers, g \in Files : u # t \/ g # f => disk'[u][g] = disk[u][g]
      /\ \A u \in Transfers : u # t => disk'[u] = disk[u]
  <2>1. disk' = [disk EXCEPT ![t] = [disk[t] EXCEPT ![f] = s]]
    BY DEF Touch, IInv, TypeOK, SendingOK
  <2> QED
    BY <2>1 DEF IInv, TypeOK, SendingOK
<1>3. SendingOK'
  <2>1. touched' \in [Transfers -> SUBSET Spoils] /\ touches' \in 0 .. MaxTouches
    BY TransferAssumption DEF Touch, IInv, TypeOK, SendingOK, Spoils
  <2>2. ASSUME NEW u \in Transfers, sender[u].step = "streaming"
        PROVE  sender[u].file <= ex[u].n /\ disk'[u][sender[u].file] # None
    <3>1. /\ sender[u].file \in 1 .. MaxFiles + 1 /\ sender[u].file <= ex[u].n
          /\ ex[u].n \in Files /\ disk[u][sender[u].file] # None
      BY <2>2 DEF IInv, TypeOK, SendingOK, Exchange
    <3>2. sender[u].file \in Files
      BY <3>1, TransferAssumption DEF Files
    <3>3. CASE u = t /\ sender[u].file = f
      BY <1>2, <2>2, <3>1, <3>3 DEF Touch
    <3>4. CASE u # t \/ sender[u].file # f
      BY <1>2, <3>1, <3>2, <3>4
    <3> QED
      BY <3>1, <3>3, <3>4
  <2> QED
    BY <1>1, <1>2, <2>1, <2>2 DEF IInv, TypeOK, SendingOK
<1>4. WireOK' /\ SavingOK'
  BY <1>1 DEF IInv, TypeOK, WireOK, SavingOK
<1>5. PhoneHasWhole'
  BY <1>1 DEF IInv, PhoneHasWhole, Whole
<1>6. Fresh'
  <2>1. sender[t].step # "idle"
    BY DEF Touch, Active
  <2> QED
    BY <1>1, <1>2, <2>1 DEF IInv, Fresh
<1> QED
  BY <1>3, <1>4, <1>5, <1>6 DEF IInv, TypeOK

(***************************************************************************)
(* The theorems                                                            *)
(***************************************************************************)
LEMMA StepsStep ==
  ASSUME IInv, NEW t \in Transfers, Steps(t) \/ GiveUp(t) \/ CannotSave(t)
  PROVE  IInv'
<1>1. CASE NoVerdict(t) \/ GiveUp(t) \/ SendFails(t)
  <2>1. CASE NoVerdict(t) \/ GiveUp(t)
    BY <2>1, ThrowsStep, StillTouched DEF NoVerdict, GiveUp, Stops, sending
  <2>2. CASE SendFails(t)
    BY <2>2, ThrowsStep, ReadingTouches DEF SendFails, Stops
  <2> QED
    BY <1>1, <2>1, <2>2
<1>2. CASE ReadOffer(t) \/ ReadVerdict(t)
  BY <1>2, ReadOfferStep, ReadVerdictStep
<1>3. CASE OpenFile(t) \/ SendByte(t) \/ FileEnds(t) \/ AllSent(t)
  BY <1>3, OpenFileStep, SendByteStep, FileEndsStep, AllSentStep
<1>4. CASE SaveByte(t)
  BY <1>4, SaveByteStep
<1>5. CASE \/ FileSaved(t) \/ ComputerStreamEnds(t) \/ PhoneStreamEnds(t)
           \/ ReadFails(t) \/ CannotSave(t)
  BY <1>5, SaverSteps
<1> QED
  BY <1>1, <1>2, <1>3, <1>4, <1>5 DEF Steps

LEMMA NextIInv ==
  ASSUME IInv, [Next]_vars
  PROVE  IInv'
<1>1. CASE \E t \in Transfers : Steps(t) \/ GiveUp(t) \/ CannotSave(t)
  BY <1>1, StepsStep
<1>2. CASE \E t \in Transfers : Ask(t) \/ SenderDies(t) \/ Cut(t)
  BY <1>2, AskStep, SenderDiesStep, CutStep
<1>3. CASE \E t \in Transfers, f \in Files, s \in Sizes \union {None} : Touch(t, f, s)
  BY <1>3, TouchStep
<1>4. CASE \E d \in Dev : Answer(d) \/ OtherOffer(d)
  BY <1>4, AnswerStep, OtherOfferStep
<1>5. CASE UNCHANGED vars
  <2>1. SendingOK' /\ WireOK' /\ SavingOK'
    BY <1>5 DEF vars, IInv, TypeOK, SendingOK, WireOK, SavingOK
  <2>2. Fresh' /\ PhoneHasWhole'
    BY <1>5 DEF vars, IInv, Fresh, PhoneHasWhole, Whole
  <2> QED
    BY <2>1, <2>2 DEF IInv, TypeOK
<1> QED
  BY <1>1, <1>2, <1>3, <1>4, <1>5 DEF Next

LEMMA AlwaysIInv == Spec => []IInv
  BY InitIInv, NextIInv, PTL DEF Spec

(* The types hold for any transfers and any sizes; in particular no file   *)
(* is ever written past the size it was offered with (a computer reads it  *)
(* through io.LimitReader, a phone counts what it has written).            *)
THEOREM TypeCorrect == Spec => []TypeOK
<1>1. IInv => TypeOK
  BY DEF IInv
<1> QED
  BY <1>1, AlwaysIInv, PTL

(* A phone records a transfer as completed only when it has every byte     *)
(* that was offered, for any number and sizes of files, however often they *)
(* change and connections break (transfer_service.dart, _serve).           *)
THEOREM PhoneRecordsWhole == Spec => []PhoneKeepsWhole
<1>1. IInv => PhoneKeepsWhole
  BY DEF IInv, PhoneHasWhole, PhoneKeepsWhole
<1> QED
  BY <1>1, AlwaysIInv, PTL

(***************************************************************************)
(* Which bytes arrive                                                      *)
(*                                                                         *)
(* ComputerKeepsWhole and RightBytes are about what the receiver wrote,    *)
(* and are kept up by what is still on its way. A place in the stream is   *)
(* the x-th byte of file a; the stream goes on from there as it does from  *)
(* the y-th byte of file b when nothing lies between them: a is at its end *)
(* and the files up to b are empty.                                        *)
(***************************************************************************)
Behind(o, a, x, b, y) ==
  a < b /\ x = o[a] /\ y = 0 /\ \A f \in a + 1 .. b - 1 : o[f] = 0
Same(o, a, x, b, y) == (a = b /\ x = y) \/ Behind(o, a, x, b, y) \/ Behind(o, b, y, a, x)
\* The bytes w are on their way to file g, of which l are there, and are those that follow:
\* byte i of them is number x[i] of its file. The sender's place is (f, r).
FileAt(w, g, i) == IF i = 0 THEN g ELSE w[i]
Runs(w, x, o, g, l) ==
  /\ x[0] = l
  /\ \A i \in 1 .. Len(w) :
       0 < x[i] /\ x[i] <= o[w[i]] /\ Same(o, FileAt(w, g, i - 1), x[i - 1], w[i], x[i] - 1)
Ends(w, x, o, g, f, r) == Same(o, FileAt(w, g, Len(w)), x[Len(w)], f, r)

Offers == [Files -> Sizes]
Counts(w) == [0 .. Len(w) -> Sizes]

LEMMA FilesNat ==
  /\ \A f \in Files : f \in Nat /\ 0 < f /\ f \in 1 .. MaxFiles + 1 /\ f + 1 \in 1 .. MaxFiles + 1
  /\ \A s \in Sizes : s \in Nat
  /\ 0 \in Sizes
  BY TransferAssumption DEF Files, Sizes

\* The end of a file is the beginning of the next one.
LEMMA SameStep ==
  ASSUME NEW o \in Offers, NEW a \in Files, NEW b \in 1 .. MaxFiles + 1, NEW y \in Nat,
         Same(o, a, o[a], b, y)
  PROVE  Same(o, a + 1, 0, b, y)
<1>1. a \in Nat \ {0} /\ b \in Nat /\ o[a] \in Nat
  BY FilesNat, TransferAssumption DEF Offers, Files
<1>2. CASE a = b /\ y = o[a]
  BY <1>1, <1>2 DEF Same, Behind
<1>3. CASE Behind(o, a, o[a], b, y)
  BY <1>1, <1>3 DEF Same, Behind
<1>4. CASE Behind(o, b, y, a, o[a])
  BY <1>1, <1>4 DEF Same, Behind
<1> QED
  BY <1>2, <1>3, <1>4 DEF Same

LEMMA SameSwap ==
  ASSUME NEW o, NEW a, NEW b, NEW x, NEW y
  PROVE  Same(o, a, x, b, y) = Same(o, b, y, a, x)
  BY DEF Same

\* Two places with more of their files to come are one place.
LEMMA SameShort ==
  ASSUME NEW o \in Offers, NEW a \in Files, NEW x \in Nat, x < o[a],
         NEW b \in Files, NEW y \in Nat, y < o[b], Same(o, a, x, b, y)
  PROVE  a = b /\ x = y
  BY FilesNat DEF Same, Behind, Offers

\* Lemmas about the bytes on their way: the sender begins the next file, one byte is
\* sent, one is taken, the receiver begins the next file.
LEMMA EndsNext ==
  ASSUME NEW w \in Seq(Files), NEW o \in Offers, NEW x \in Counts(w), NEW g \in Files,
         NEW f \in Files, Ends(w, x, o, g, f, o[f])
  PROVE  Ends(w, x, o, g, f + 1, 0)
<1> DEFINE h == FileAt(w, g, Len(w))
<1>1. h \in Files /\ x[Len(w)] \in Sizes
  BY DEF FileAt, Counts
<1>2. h \in 1 .. MaxFiles + 1 /\ x[Len(w)] \in Nat
  BY <1>1, FilesNat, TransferAssumption DEF Files
<1>3. Same(o, f, o[f], h, x[Len(w)])
  BY SameSwap DEF Ends
<1> HIDE DEF h
<1>4. Same(o, f + 1, 0, h, x[Len(w)])
  BY <1>2, <1>3, SameStep
<1> QED
  BY <1>4, SameSwap DEF Ends, h

LEMMA RunsAppend ==
  ASSUME NEW w \in Seq(Files), NEW o \in Offers, NEW x \in Counts(w), NEW g \in Files,
         NEW l, Runs(w, x, o, g, l),
         NEW f \in Files, NEW r \in Sizes, r < o[f], Ends(w, x, o, g, f, r)
  PROVE  \E y \in Counts(Append(w, f)) :
           Runs(Append(w, f), y, o, g, l) /\ Ends(Append(w, f), y, o, g, f, r + 1)
<1> DEFINE v == Append(w, f)  n == Len(w)
           y == [i \in 0 .. Len(v) |-> IF i = n + 1 THEN r + 1 ELSE x[i]]
<1>1. /\ n \in Nat /\ Len(v) = n + 1 /\ v[n + 1] = f
      /\ \A i \in 1 .. n : v[i] = w[i]
      /\ v \in Seq(Files) /\ r \in Nat /\ r + 1 \in Sizes /\ o[f] \in Nat
  <2>1. o[f] \in Sizes
    BY DEF Offers
  <2>2. r + 1 \in Sizes
    BY <2>1, TransferAssumption DEF Sizes
  <2> QED
    BY <2>1, <2>2, FilesNat, AppendProperties, LenProperties
<1>2. y \in Counts(v)
  BY <1>1 DEF Counts
<1>3. \A i \in 0 .. n : y[i] = x[i] /\ FileAt(v, g, i) = FileAt(w, g, i)
  BY <1>1 DEF FileAt
<1>4. y[n + 1] = r + 1 /\ FileAt(v, g, n + 1) = f
  BY <1>1 DEF FileAt
<1> HIDE DEF v, y
<1>5. Ends(v, y, o, g, f, r + 1)
  BY <1>1, <1>4 DEF Ends, Same
<1>6. y[0] = l
  BY <1>1, <1>3 DEF Runs
<1>7. ASSUME NEW i \in 1 .. Len(v)
      PROVE  /\ 0 < y[i] /\ y[i] <= o[v[i]]
             /\ Same(o, FileAt(v, g, i - 1), y[i - 1], v[i], y[i] - 1)
  <2>1. CASE i = n + 1
    <3>1. Same(o, FileAt(w, g, n), x[n], f, r)
      BY DEF Ends
    <3>2. i - 1 = n /\ y[i] - 1 = r /\ v[i] = f /\ n \in 0 .. n
      BY <1>1, <1>4, <2>1
    <3>3. Same(o, FileAt(v, g, i - 1), y[i - 1], v[i], y[i] - 1)
      BY <1>3, <3>1, <3>2
    <3> QED
      BY <1>1, <1>4, <2>1, <3>2, <3>3
  <2>2. CASE i # n + 1
    <3>1. i \in 1 .. n /\ i \in 0 .. n /\ i - 1 \in 0 .. n
      BY <1>1, <2>2
    <3>2. y[i] = x[i] /\ v[i] = w[i] /\ y[i - 1] = x[i - 1]
          /\ FileAt(v, g, i - 1) = FileAt(w, g, i - 1)
      BY <1>1, <1>3, <3>1
    <3>3. 0 < x[i] /\ x[i] <= o[w[i]] /\ Same(o, FileAt(w, g, i - 1), x[i - 1], w[i], x[i] - 1)
      BY <3>1 DEF Runs
    <3> QED
      BY <3>2, <3>3
  <2> QED
    BY <2>1, <2>2
<1> QED
  BY <1>2, <1>5, <1>6, <1>7 DEF Runs, v

RunsAfterHead(w, x, o, g, l, f, r) ==
  \E y \in Counts(Tail(w)) :
    /\ Runs(Tail(w), y, o, g, l + 1)
    /\ Ends(w, x, o, g, f, r) => Ends(Tail(w), y, o, g, f, r)

LEMMA RunsTail ==
  ASSUME NEW w \in Seq(Files), w # <<>>, NEW o \in Offers, NEW x \in Counts(w),
         NEW g \in Files, NEW l \in Nat, l < o[g], Runs(w, x, o, g, l), NEW f, NEW r
  PROVE  Head(w) = g /\ RunsAfterHead(w, x, o, g, l, f, r)
<1> DEFINE v == Tail(w)  n == Len(w)  y == [i \in 0 .. Len(v) |-> x[i + 1]]
<1>1. /\ n \in Nat \ {0} /\ Len(v) = n - 1 /\ v \in Seq(Files) /\ Head(w) = w[1]
      /\ \A i \in 1 .. n - 1 : v[i] = w[i + 1]
  BY HeadTailProperties, LenProperties, EmptySeq
<1>2. w[1] = g /\ x[1] = l + 1
  <2>1. /\ w[1] \in Files /\ x[1] \in Sizes /\ o[w[1]] \in Sizes
        /\ 0 < x[1] /\ x[1] <= o[w[1]] /\ Same(o, g, l, w[1], x[1] - 1)
    BY <1>1 DEF Runs, FileAt, Counts, Offers
  <2>2. x[1] - 1 \in Nat /\ x[1] - 1 < o[w[1]]
    BY <2>1, FilesNat
  <2>3. g = w[1] /\ l = x[1] - 1
    BY <2>1, <2>2, SameShort
  <2>4. x[1] \in Nat
    BY <2>1, FilesNat
  <2> QED
    BY <2>3, <2>4
<1>3. y \in Counts(v)
  BY <1>1 DEF Counts
<1>4. \A i \in 0 .. n - 1 : y[i] = x[i + 1] /\ FileAt(v, g, i) = FileAt(w, g, i + 1)
  BY <1>1, <1>2 DEF FileAt
<1> HIDE DEF v, y
<1>5. ASSUME NEW i \in 1 .. Len(v)
      PROVE  /\ 0 < y[i] /\ y[i] <= o[v[i]]
             /\ Same(o, FileAt(v, g, i - 1), y[i - 1], v[i], y[i] - 1)
  <2>1. i \in 0 .. n - 1 /\ i - 1 \in 0 .. n - 1 /\ i + 1 \in 1 .. n /\ (i + 1) - 1 = (i - 1) + 1
    BY <1>1
  <2>2. y[i] = x[i + 1] /\ v[i] = w[i + 1] /\ y[i - 1] = x[(i + 1) - 1]
        /\ FileAt(v, g, i - 1) = FileAt(w, g, (i + 1) - 1)
    BY <1>1, <1>4, <2>1
  <2>3. 0 < x[i + 1] /\ x[i + 1] <= o[w[i + 1]]
        /\ Same(o, FileAt(w, g, (i + 1) - 1), x[(i + 1) - 1], w[i + 1], x[i + 1] - 1)
    BY <2>1 DEF Runs
  <2> QED
    BY <2>2, <2>3
<1>6. Runs(v, y, o, g, l + 1)
  BY <1>1, <1>2, <1>4, <1>5 DEF Runs
<1>7. Ends(w, x, o, g, f, r) => Ends(v, y, o, g, f, r)
  <2>1. y[Len(v)] = x[n] /\ FileAt(v, g, Len(v)) = FileAt(w, g, n)
    BY <1>1, <1>4
  <2> QED
    BY <2>1 DEF Ends
<1> QED
  BY <1>1, <1>2, <1>3, <1>6, <1>7 DEF v, RunsAfterHead

LEMMA RunsNext ==
  ASSUME NEW w \in Seq(Files), NEW o \in Offers, NEW x \in Counts(w),
         NEW g \in Files, Runs(w, x, o, g, o[g])
  PROVE  \E y \in Counts(w) :
           /\ Runs(w, y, o, g + 1, 0)
           /\ \A f \in 1 .. MaxFiles + 1, r \in Nat :
                Ends(w, x, o, g, f, r) => Ends(w, y, o, g + 1, f, r)
<1> DEFINE n == Len(w)  y == [x EXCEPT ![0] = 0]
<1>1. /\ n \in Nat /\ 0 \in 0 .. n /\ y \in Counts(w) /\ y[0] = 0 /\ x[0] = o[g]
      /\ \A i \in 1 .. n : y[i] = x[i] /\ w[i] \in Files /\ x[i] \in Sizes
      /\ \A i \in 1 .. n : FileAt(w, g, i) = w[i] /\ FileAt(w, g + 1, i) = w[i]
      /\ FileAt(w, g, 0) = g /\ FileAt(w, g + 1, 0) = g + 1
  <2>1. n \in Nat /\ 0 \in 0 .. n /\ \A i \in 1 .. n : i \in 0 .. n /\ i # 0
    BY LenProperties
  <2>2. \A i \in 1 .. n : w[i] \in Files /\ x[i] \in Sizes
    BY <2>1 DEF Counts
  <2>3. y \in Counts(w) /\ y[0] = 0 /\ \A i \in 1 .. n : y[i] = x[i]
    BY <2>1, FilesNat DEF Counts
  <2> HIDE DEF y
  <2> QED
    BY <2>1, <2>2, <2>3 DEF FileAt, Runs
<1> HIDE DEF y
<1>2. ASSUME NEW i \in 1 .. n
      PROVE  /\ 0 < y[i] /\ y[i] <= o[w[i]]
             /\ Same(o, FileAt(w, g + 1, i - 1), y[i - 1], w[i], y[i] - 1)
  <2>1. /\ 0 < x[i] /\ x[i] <= o[w[i]] /\ y[i] = x[i]
        /\ Same(o, FileAt(w, g, i - 1), x[i - 1], w[i], x[i] - 1)
    BY <1>1 DEF Runs
  <2>2. CASE i = 1
    <3>1. w[1] \in 1 .. MaxFiles + 1 /\ x[1] - 1 \in Nat
      BY <1>1, <2>1, <2>2, FilesNat, TransferAssumption DEF Files
    <3>2. Same(o, g, o[g], w[1], x[1] - 1)
      BY <1>1, <2>1, <2>2
    <3>3. Same(o, g + 1, 0, w[1], x[1] - 1)
      BY <3>1, <3>2, SameStep
    <3> QED
      BY <1>1, <2>1, <2>2, <3>3
  <2>3. CASE i # 1
    <3>1. i - 1 \in 1 .. n
      BY <1>1, <2>3
    <3> QED
      BY <1>1, <2>1, <3>1
  <2> QED
    BY <2>2, <2>3
<1>3. ASSUME NEW f \in 1 .. MaxFiles + 1, NEW r \in Nat, Ends(w, x, o, g, f, r)
      PROVE  Ends(w, y, o, g + 1, f, r)
  <2>1. CASE n = 0
    <3>1. Same(o, g, o[g], f, r)
      BY <1>1, <1>3, <2>1 DEF Ends
    <3>2. Same(o, g + 1, 0, f, r)
      BY <3>1, SameStep
    <3> QED
      BY <1>1, <2>1, <3>2 DEF Ends
  <2>2. CASE n # 0
    <3>1. n \in 1 .. n
      BY <1>1, <2>2
    <3> QED
      BY <1>1, <1>3, <3>1 DEF Ends
  <2> QED
    BY <2>1, <2>2
<1> QED
  BY <1>1, <1>2, <1>3 DEF Runs

(***************************************************************************)
(* The invariant. As long as the receiver waits for bytes and no file was  *)
(* changed in a way that shifts them, the bytes on their way follow those  *)
(* it has, up to the place the sender is at if that still sends into an    *)
(* open connection or has sent everything. A connection that was closed    *)
(* though no file changed was closed by a sender that had sent everything, *)
(* or by its death: that is what makes the end of the stream a sign of the *)
(* end of the last file.                                                   *)
(***************************************************************************)
Unspoiled(t) ==
  touched[t] \subseteq (IF ex[t].from \in Phones THEN Spoils \ {"resized"} ELSE {"unread"})
Waits(t) == receiver[t].step \in {"none", "prompt", "saving"}
Linked(t) ==
  (conn[t] = "open" /\ Active(t)) \/ (conn[t] = "closed" /\ sender[t].step = "completed")
Read(t) == IF sender[t].step = "streaming" THEN sender[t].at ELSE 0
Stream(t) ==
  \E x \in Counts(wire[t]) :
    /\ Runs(wire[t], x, offer[t], receiver[t].file, Len(saved[t][receiver[t].file]))
    /\ Linked(t) => Ends(wire[t], x, offer[t], receiver[t].file, sender[t].file, Read(t))

AsOffered(t) ==
  \A f \in 1 .. ex[t].n :
    \/ disk[t][f] = offer[t][f]
    \/ "resized" \in touched[t]
    \/ disk[t][f] = None /\ "gone" \in touched[t]

Sent(t) ==
  /\ sender[t].step = "idle" => wire[t] = <<>> /\ sender[t].file = 1
  /\ Active(t) => conn[t] \in {"open", "cut"} /\ sender[t].file <= ex[t].n + 1 /\ AsOffered(t)
  /\ sender[t].step = "asking" => sender[t].file = 1
  /\ sender[t].step = "streaming" /\ "resized" \notin touched[t] =>
       sender[t].at <= disk[t][sender[t].file]
  /\ sender[t].step = "completed" => sender[t].file = ex[t].n + 1
  /\ verdict[t] = "reject" => receiver[t].step = "rejected"
  /\ conn[t] = "closed" /\ touched[t] = {} /\ Waits(t) => sender[t].step \in {"completed", "dead"}

Pure(t) == \A f \in Files : \A i \in 1 .. Len(saved[t][f]) : saved[t][f][i] = f
Full(t) ==
  /\ receiver[t].step = "saving" =>
       \A f \in 1 .. receiver[t].file - 1 : Len(saved[t][f]) = offer[t][f]
  /\ receiver[t].step = "completed" => Whole(t)

Saved(t) ==
  /\ Waits(t) => \A f \in Files : f > receiver[t].file => saved[t][f] = <<>>
  /\ Unspoiled(t) => Pure(t) /\ (Waits(t) => Stream(t))
  /\ touched[t] = {} /\ sender[t].step # "dead" => Full(t)

SenderMove(t) ==
  \/ ReadVerdict(t) \/ NoVerdict(t) \/ GiveUp(t) \/ OpenFile(t) \/ FileEnds(t) \/ SendFails(t)
  \/ AllSent(t) \/ SenderDies(t) \/ Cut(t)

LEMMA Typed ==
  ASSUME IInv, NEW t \in Transfers
  PROVE  /\ ex[t] \in Exchange /\ ex[t].n \in Files
         /\ sender[t] \in [step : SenderSteps, file : 1 .. MaxFiles + 1, at : Sizes]
         /\ disk[t] \in [Files -> Sizes \union {None}] /\ touched[t] \in SUBSET Spoils
         /\ sender[t].step = "streaming" => sender[t].file <= ex[t].n /\ sender[t].file \in Files
                                            /\ disk[t][sender[t].file] \in Sizes
         /\ offer[t] \in Offers /\ conn[t] \in {"none", "open", "closed", "cut"}
         /\ wire[t] \in Seq(Files)
         /\ receiver[t] \in [step : ReceiverSteps, file : Files] /\ receiver[t].file <= ex[t].n
         /\ saved[t] \in [Files -> Seq(Files)]
         /\ \A f \in Files : Len(saved[t][f]) <= offer[t][f] /\ Len(saved[t][f]) \in Nat
         /\ \A f \in 1 .. ex[t].n : f \in Files
<1>1. ex[t].n \in Files /\ sender[t].file \in 1 .. MaxFiles + 1
  BY DEF IInv, TypeOK, SendingOK, Exchange
<1>2. \A f \in 1 .. ex[t].n : f \in Files
  BY <1>1, TransferAssumption DEF Files
<1>3. sender[t].step = "streaming" => sender[t].file <= ex[t].n /\ sender[t].file \in Files
  BY <1>1, TransferAssumption DEF IInv, TypeOK, SendingOK, Files
<1>4. \A f \in Files : Len(saved[t][f]) \in Nat
  BY LenProperties DEF IInv, TypeOK, SavingOK
<1> QED
  BY <1>1, <1>2, <1>3, <1>4 DEF IInv, TypeOK, SendingOK, WireOK, SavingOK, Offers

\* Nobody else changes the sender's files in a step of the sender.
LEMMA SenderMoveTouches ==
  ASSUME IInv, NEW t \in Transfers, SenderMove(t)
  PROVE  /\ UNCHANGED <<ex, disk, offer, verdict, wire, receiver, saved>>
         /\ touched[t] \subseteq touched'[t]
         /\ touched'[t] \subseteq touched[t] \union {"unopened", "unread"}
         /\ \A u \in Transfers : u # t => touched'[u] = touched[u]
<1>1. CASE OpenFile(t) \/ SendFails(t)
  BY <1>1, ReadingTouches
<1>2. CASE \/ ReadVerdict(t) \/ NoVerdict(t) \/ GiveUp(t) \/ FileEnds(t) \/ AllSent(t)
           \/ SenderDies(t) \/ Cut(t)
  BY <1>2 DEF ReadVerdict, NoVerdict, GiveUp, FileEnds, AllSent, SenderDies, Cut, sending
<1> QED
  BY <1>1, <1>2 DEF SenderMove

LEMMA SenderSent ==
  ASSUME IInv, NEW t \in Transfers, Sent(t), SenderMove(t)
  PROVE  Sent(t)'
<1>1. sender \in [Transfers -> [step : SenderSteps, file : 1 .. MaxFiles + 1, at : Sizes]]
      /\ conn \in [Transfers -> {"none", "open", "closed", "cut"}]
  BY DEF IInv, TypeOK, SendingOK, WireOK
<1>2. /\ UNCHANGED <<ex, disk, offer, verdict, wire, receiver, saved>>
      /\ touched[t] \subseteq touched'[t]
      /\ touched'[t] \subseteq touched[t] \union {"unopened", "unread"}
  BY SenderMoveTouches
<1>3. /\ ex[t].n \in Nat /\ sender[t].file \in Nat /\ disk[t] \in [Files -> Sizes \union {None}]
      /\ touched[t] \in SUBSET Spoils
      /\ \A s \in Sizes : s \in Nat
      /\ offer[t] \in [Files -> Sizes] /\ None \notin Sizes
      /\ \A f \in 1 .. ex[t].n : f \in Files
  BY Typed, FilesNat, TransferAssumption DEF Offers
<1>4. /\ AsOffered(t)' <=> AsOffered(t)
      /\ "resized" \in touched'[t] <=> "resized" \in touched[t]
      /\ touched'[t] = {} => touched[t] = {}
  BY <1>2 DEF AsOffered
<1>5. CASE ReadVerdict(t) \/ NoVerdict(t) \/ GiveUp(t) \/ SendFails(t)
  <2>1. /\ Active(t) /\ sender[t].step # "opening"
        /\ \/ sender'[t].step = "opening" /\ conn'[t] = conn[t] /\ sender[t].step = "asking"
           \/ /\ sender'[t].step = "error"
              /\ conn'[t] = "closed" => ~Waits(t) \/ touched'[t] # {}
        /\ sender'[t].file = sender[t].file
    <3>1. ex[t].from \in Phones => ex[t].from \notin Computers
      BY TransferAssumption
    <3>2. Active(t) /\ conn[t] # "closed"
      BY <1>5 DEF Sent, Active, ReadVerdict, NoVerdict, GiveUp, SendFails
    <3>3. CASE ReadVerdict(t)
      BY <1>1, <3>2, <3>3 DEF Sent, Active, Waits, ReadVerdict, Closes
    <3>4. CASE NoVerdict(t) \/ GiveUp(t)
      BY <1>1, <3>1, <3>2, <3>4
         DEF Active, Waits, Ended, NoVerdict, GiveUp, Throws, Closes
    <3>5. CASE SendFails(t)
      <4>1. CannotRead(t, "unread") => touched'[t] # {}
        BY DEF CannotRead, IInv, TypeOK, SendingOK
      <4> QED
        BY <1>1, <3>1, <3>2, <3>5, <4>1
           DEF Active, Waits, Ended, SendFails, Stops, Throws, Closes
    <3> QED
      BY <1>5, <3>3, <3>4, <3>5
  <2> QED
    BY <1>2, <1>4, <2>1 DEF Sent, Active, Waits
<1>6. CASE OpenFile(t)
  <2>1. /\ sender[t].step = "opening" /\ sender[t].file <= ex[t].n /\ conn[t] \in {"open", "cut"}
        /\ conn'[t] = conn[t] \/ (conn'[t] = "closed" /\ sender'[t].step = "error")
        /\ sender'[t].file = sender[t].file \/ sender'[t].file = sender[t].file + 1
        /\ sender'[t].step \in {"opening", "streaming", "error"}
        /\ sender'[t].step = "streaming" => /\ sender'[t].at = 0 /\ disk[t][sender[t].file] # None
                                            /\ sender'[t].file = sender[t].file
        /\ conn'[t] = "closed" => disk[t][sender[t].file] = None \/ CannotRead(t, "unopened")
    BY <1>1, <1>6 DEF OpenFile, Stops, Throws, Closes, Sent, Active
  <2>2. sender[t].file \in Files /\ sender[t].file \in 1 .. ex[t].n
    BY <1>1, <1>3, <2>1, TransferAssumption, Typed DEF Files
  <2>3. conn'[t] = "closed" => touched'[t] # {}
    <3>1. CannotRead(t, "unopened") => touched'[t] # {}
      BY DEF CannotRead, IInv, TypeOK, SendingOK
    <3>2. disk[t][sender[t].file] = None => touched[t] # {}
      BY <1>3, <2>1, <2>2, SMT DEF Sent, Active, AsOffered
    <3> QED
      BY <1>2, <2>1, <3>1, <3>2
  <2>4. disk[t][sender[t].file] # None => disk[t][sender[t].file] \in Nat
    BY <1>3, <2>2
  <2> QED
    BY <1>2, <1>3, <1>4, <2>1, <2>3, <2>4 DEF Sent, Active
<1>7. CASE FileEnds(t) \/ AllSent(t)
  <2>1. CASE FileEnds(t)
    <3>1. sender[t].file <= ex[t].n
      BY <2>1, Typed DEF FileEnds
    <3> QED
      BY <1>1, <1>2, <1>3, <1>4, <2>1, <3>1 DEF Sent, Active, FileEnds
  <2>2. CASE AllSent(t)
    <3>1. /\ sender'[t].step = "completed" /\ sender'[t].file = sender[t].file
          /\ conn'[t] = IF conn[t] = "open" THEN "closed" ELSE conn[t]
          /\ sender[t].step = "opening" /\ sender[t].file > ex[t].n
      BY <1>1, <2>2 DEF AllSent, Closes
    <3> QED
      BY <1>2, <1>3, <1>4, <3>1 DEF Sent, Active
  <2> QED
    BY <1>7, <2>1, <2>2
<1>8. CASE SenderDies(t) \/ Cut(t)
  BY <1>1, <1>2, <1>3, <1>4, <1>8 DEF Sent, Active, Waits, SenderDies, Cut
<1> QED
  BY <1>5, <1>6, <1>7, <1>8 DEF SenderMove

LEMMA FileKnown ==
  ASSUME IInv, NEW t \in Transfers
  PROVE  /\ sender[t].file \in 1 .. MaxFiles + 1 /\ sender[t].file \in Nat /\ Read(t) \in Nat
         /\ receiver[t].file \in Files /\ receiver[t].file \in Nat
         /\ saved[t][receiver[t].file] \in Seq(Files)
<1>1. sender[t].file \in 1 .. MaxFiles + 1 /\ sender[t].at \in Sizes
  BY Typed
<1>2. receiver[t].file \in Files /\ saved[t] \in [Files -> Seq(Files)]
  BY Typed
<1> QED
  BY <1>1, <1>2, FilesNat DEF Read

\* A step of the sender that sends nothing leaves the end of the stream where it is.
LEMMA StreamKept ==
  ASSUME NEW t \in Transfers, Stream(t),
         wire'[t] = wire[t], offer'[t] = offer[t], saved'[t] = saved[t],
         receiver'[t].file = receiver[t].file,
         Linked(t)' =>
           /\ Linked(t)
           /\ \A x \in Counts(wire[t]) :
                Ends(wire[t], x, offer[t], receiver[t].file, sender[t].file, Read(t)) =>
                  Ends(wire[t], x, offer[t], receiver[t].file, sender'[t].file, Read(t)')
  PROVE  Stream(t)'
  BY DEF Stream

LEMMA SenderSaved ==
  ASSUME IInv, IInv', NEW t \in Transfers, Sent(t), Saved(t), SenderMove(t)
  PROVE  Saved(t)'
<1>1. sender \in [Transfers -> [step : SenderSteps, file : 1 .. MaxFiles + 1, at : Sizes]]
      /\ conn \in [Transfers -> {"none", "open", "closed", "cut"}]
  BY DEF IInv, TypeOK, SendingOK, WireOK
<1>2. /\ UNCHANGED <<ex, disk, offer, verdict, wire, receiver, saved>>
      /\ touched[t] \subseteq touched'[t]
      /\ touched'[t] \subseteq touched[t] \union {"unopened", "unread"}
  BY SenderMoveTouches
<1>3. sender[t].step = "dead" => sender'[t].step = "dead"
  BY <1>1 DEF SenderMove, ReadVerdict, NoVerdict, GiveUp, OpenFile, FileEnds, SendFails, AllSent,
         SenderDies, Cut, Stops, Throws
<1>4. ASSUME Unspoiled(t), Unspoiled(t)', Waits(t), Stream(t) PROVE Stream(t)'
  <2>1. CASE FileEnds(t)
    <3>1. /\ sender[t].step = "streaming" /\ sender'[t].step = "opening"
          /\ sender'[t].file = sender[t].file + 1 /\ conn' = conn
          /\ sender[t].at >= disk[t][sender[t].file]
      BY <1>1, <2>1 DEF FileEnds
    <3>2. Read(t) = sender[t].at /\ Read(t)' = 0
      BY <3>1 DEF Read
    <3>3. sender[t].at = offer[t][sender[t].file]
      <4>1. /\ sender[t].file \in Files /\ disk[t][sender[t].file] \in Sizes
            /\ sender[t].at \in Sizes /\ sender[t].file \in 1 .. ex[t].n
        BY <3>1, Typed, FilesNat
      <4>2. "resized" \notin touched[t]
        BY <1>4 DEF Unspoiled
      <4>3. disk[t][sender[t].file] = offer[t][sender[t].file]
        BY <3>1, <4>1, <4>2, TransferAssumption DEF Sent, Active, AsOffered
      <4>4. sender[t].at <= disk[t][sender[t].file]
        BY <3>1, <4>2 DEF Sent
      <4> QED
        BY <3>1, <4>1, <4>3, <4>4, FilesNat
    <3>4. \A x \in Counts(wire[t]) :
            Ends(wire[t], x, offer[t], receiver[t].file, sender[t].file, Read(t)) =>
            Ends(wire[t], x, offer[t], receiver[t].file, sender'[t].file, Read(t)')
      BY <3>1, <3>2, <3>3, Typed, FileKnown, EndsNext
    <3>5. Linked(t)' => Linked(t)
      BY <3>1 DEF Linked, Active
    <3> QED
      BY <1>2, <1>4, <3>4, <3>5, StreamKept
  <2>2. CASE ~FileEnds(t)
    <3>1. Linked(t)' => Linked(t) /\ sender'[t].file = sender[t].file /\ Read(t)' = Read(t)
      <4>1. CASE AllSent(t)
        BY <1>1, <4>1 DEF AllSent, Closes, Linked, Active, Read, Sent
      <4>4. CASE OpenFile(t)
        <5>1. sender[t].step = "opening" /\ sender[t].file <= ex[t].n
          BY <4>4 DEF OpenFile
        <5>2. sender[t].file \in Files /\ sender[t].file \in 1 .. ex[t].n
          BY <5>1, Typed, FileKnown, TransferAssumption DEF Files
        <5>3. disk[t][sender[t].file] = None \/ CannotRead(t, "unopened") => ex[t].from \in Phones
          <6>1. offer[t][sender[t].file] # None
            BY <5>2, Typed, TransferAssumption DEF Offers
          <6>2. disk[t][sender[t].file] = None =>
                  "gone" \in touched[t] \/ "resized" \in touched[t]
            BY <5>1, <5>2, <6>1 DEF Sent, Active, AsOffered
          <6>3. CannotRead(t, "unopened") => "unopened" \in touched'[t]
            BY DEF CannotRead, IInv, TypeOK, SendingOK
          <6> QED
            BY <1>2, <1>4, <6>2, <6>3 DEF Unspoiled
        <5>4. ex[t].from \in Computers => ex[t].from \notin Phones
          BY TransferAssumption
        <5> QED
          BY <1>1, <4>4, <5>1, <5>3, <5>4
             DEF OpenFile, Stops, Throws, Closes, Linked, Active, Read, Sent
      <4>2. CASE ReadVerdict(t) \/ NoVerdict(t) \/ GiveUp(t) \/ SendFails(t)
        BY <1>1, <4>2 DEF ReadVerdict, NoVerdict, GiveUp, SendFails, Stops, Throws, Closes,
                          Linked, Active, Read
      <4>3. CASE SenderDies(t) \/ Cut(t)
        BY <1>1, <4>3 DEF SenderDies, Cut, Linked, Active, Read
      <4> QED
        BY <2>2, <4>1, <4>2, <4>3, <4>4 DEF SenderMove
    <3> QED
      BY <1>2, <1>4, <3>1, StreamKept
  <2> QED
    BY <2>1, <2>2
<1>5. /\ Unspoiled(t)' => Unspoiled(t)
      /\ touched'[t] = {} => touched[t] = {}
      /\ Waits(t)' = Waits(t) /\ Pure(t)' = Pure(t) /\ Full(t)' = Full(t)
  BY <1>2 DEF Unspoiled, Waits, Pure, Full, Whole
<1> QED
  BY <1>2, <1>3, <1>4, <1>5 DEF Saved

\* What the receiver of t does not change, and nobody does in another transfer.
Quiet(t) == ex'[t] = ex[t] /\ disk'[t] = disk[t] /\ touched'[t] = touched[t]
            /\ offer'[t] = offer[t] /\ sender'[t] = sender[t] /\ conn'[t] = conn[t]

LEMMA QuietSame ==
  ASSUME NEW t \in Transfers, Quiet(t)
  PROVE  /\ Unspoiled(t)' = Unspoiled(t) /\ Linked(t)' = Linked(t) /\ Read(t)' = Read(t)
         /\ Active(t)' = Active(t) /\ AsOffered(t)' = AsOffered(t)
  BY DEF Quiet, Unspoiled, Linked, Read, Active, AsOffered

LEMMA OtherBytes ==
  ASSUME NEW t \in Transfers, Sent(t), Saved(t), Quiet(t),
         verdict'[t] = verdict[t], wire'[t] = wire[t], receiver'[t] = receiver[t],
         saved'[t] = saved[t]
  PROVE  Sent(t)' /\ Saved(t)'
<1>1. Sent(t)'
  BY QuietSame DEF Quiet, Sent, Waits
<1>2. Stream(t) => Stream(t)'
  BY QuietSame DEF Quiet, Stream
<1>3. Saved(t)'
  BY <1>2, QuietSame DEF Quiet, Saved, Waits, Pure, Full, Whole
<1> QED
  BY <1>1, <1>3

LEMMA ReceiverTurns ==
  ASSUME IInv, NEW t \in Transfers, Sent(t), Saved(t), Quiet(t), wire'[t] = wire[t],
         saved'[t] = saved[t], receiver'[t].file = receiver[t].file,
         verdict'[t] = "reject" => receiver'[t].step = "rejected",
         receiver'[t].step # "completed", Waits(t)' => Waits(t),
         receiver'[t].step = "saving" => receiver[t].step = "saving" \/ receiver[t].file = 1
  PROVE  Sent(t)' /\ Saved(t)'
<1>1. Sent(t)'
  BY QuietSame DEF Quiet, Sent
<1>2. Stream(t) => Stream(t)'
  BY QuietSame DEF Quiet, Stream
<1>3. Full(t) => Full(t)'
  BY DEF Quiet, Full, Whole
<1>4. Saved(t)'
  BY <1>2, <1>3, QuietSame DEF Quiet, Saved, Pure
<1> QED
  BY <1>1, <1>4

LEMMA AnswerBytes ==
  ASSUME IInv, NEW t \in Transfers, Sent(t), Saved(t),
         ReadOffer(t) \/ (\E d \in Dev : Answer(d) /\ prompt[d] = t)
  PROVE  Sent(t)' /\ Saved(t)'
<1>1. receiver \in [Transfers -> [step : ReceiverSteps, file : Files]]
      /\ verdict \in [Transfers -> {None, "accept", "reject"}]
  BY DEF IInv, TypeOK, WireOK, SavingOK
<1>2. CASE ReadOffer(t)
  <2>1. receiver[t].step = "none"
    BY <1>2 DEF ReadOffer
  <2>2. receiver[t].file = 1
    BY <2>1 DEF IInv, Fresh
  <2>3. Quiet(t) /\ wire' = wire /\ saved' = saved
    BY <1>2 DEF Quiet, ReadOffer, sending
  <2>4. /\ receiver'[t].file = 1 /\ receiver'[t].step \in {"prompt", "saving", "lost"}
        /\ verdict'[t] # "reject"
    BY <1>1, <1>2, <2>1, <2>2 DEF ReadOffer, Accepts, Sent
  <2> QED
    BY <2>1, <2>2, <2>3, <2>4, ReceiverTurns DEF Waits
<1>3. CASE \E d \in Dev : Answer(d) /\ prompt[d] = t
  <2>1. PICK d \in Dev : Answer(d) /\ prompt[d] = t
    BY <1>3
  <2>2. receiver[t].step = "prompt"
    BY <2>1, TransferAssumption DEF IInv, TypeOK, SavingOK
  <2>3. receiver[t].file = 1
    BY <2>2 DEF IInv, Fresh
  <2>4. Quiet(t) /\ wire' = wire /\ saved' = saved
    BY <2>1 DEF Quiet, Answer, sending
  <2>5. \/ Accepts(t)
        \/ /\ verdict' = [verdict EXCEPT ![t] = "reject"]
           /\ receiver' = [receiver EXCEPT ![t].step = "rejected"]
    BY <2>1 DEF Answer
  <2>6. /\ receiver'[t].file = 1 /\ receiver'[t].step \in {"saving", "lost", "rejected"}
        /\ verdict'[t] = "reject" => receiver'[t].step = "rejected"
    BY <1>1, <2>2, <2>3, <2>5 DEF Accepts, Sent
  <2> QED
    BY <2>2, <2>3, <2>4, <2>6, ReceiverTurns DEF Waits
<1> QED
  BY <1>2, <1>3

LEMMA SaverStops ==
  ASSUME IInv, NEW t \in Transfers, Sent(t), Saved(t),
         PhoneStreamEnds(t) \/ ReadFails(t) \/ CannotSave(t)
  PROVE  Sent(t)' /\ Saved(t)'
<1>1. receiver \in [Transfers -> [step : ReceiverSteps, file : Files]]
  BY DEF IInv, TypeOK, SavingOK
<1>2. Quiet(t) /\ wire' = wire /\ saved' = saved /\ verdict' = verdict /\ receiver[t].step = "saving"
  BY DEF Quiet, PhoneStreamEnds, ReadFails, CannotSave, sending
<1>3. /\ receiver'[t].file = receiver[t].file /\ receiver'[t].step \in {"error", "lost"}
      /\ verdict[t] # "reject"
  BY <1>1, <1>2 DEF PhoneStreamEnds, ReadFails, CannotSave, Sent
<1> QED
  BY <1>2, <1>3, ReceiverTurns DEF Waits

\* The receiver goes on to the next file with everything of this one, or when the stream
\* ended: then the program that sent it died or a file changed.
LEMMA NextFileBytes ==
  ASSUME IInv, NEW t \in Transfers, Sent(t), Saved(t), receiver[t].step = "saving",
         NextFile(t), Quiet(t), UNCHANGED <<wire, saved, verdict>>,
         Unspoiled(t) => ~Short(t) \/ (wire[t] = <<>> /\ ~Linked(t)),
         touched[t] = {} /\ sender[t].step # "dead" => ~Short(t)
  PROVE  Sent(t)' /\ Saved(t)'
<1> DEFINE g == receiver[t].file
<1>1. /\ receiver \in [Transfers -> [step : ReceiverSteps, file : Files]]
      /\ g \in Files /\ g \in Nat /\ ex[t].n \in Nat /\ offer[t] \in Offers
      /\ saved[t] \in [Files -> Seq(Files)] /\ wire[t] \in Seq(Files)
      /\ Len(saved[t][g]) \in Nat /\ offer[t][g] \in Nat /\ Len(saved[t][g]) <= offer[t][g]
      /\ \A f \in 1 .. ex[t].n : f \in Files
      /\ \A f \in Files : f \in Nat /\ 0 < f
  <2>1. offer[t][g] \in Sizes
    BY Typed, FileKnown DEF Offers
  <2> QED
    BY <2>1, Typed, FileKnown, FilesNat DEF IInv, TypeOK, SavingOK
<1>2. ~Short(t) => Len(saved[t][g]) = offer[t][g]
  BY <1>1 DEF Short
<1>3. \/ g < ex[t].n /\ receiver'[t].file = g + 1 /\ receiver'[t].step = "saving"
      \/ g = ex[t].n /\ receiver'[t].step = "completed" /\ receiver'[t].file = g
  BY <1>1 DEF NextFile
<1>4. Sent(t)'
  BY <1>3, QuietSame DEF Quiet, Sent, Waits
<1>5. Waits(t)' => \A f \in Files : f > receiver'[t].file => saved[t][f] = <<>>
  BY <1>1, <1>3 DEF Saved, Waits
<1>6. ASSUME Unspoiled(t), Waits(t)' PROVE Stream(t)'
  <2>1. Stream(t) /\ receiver'[t].file = g + 1 /\ g + 1 \in Files /\ Len(saved[t][g + 1]) = 0
    <3>1. g + 1 \in Files
      <4>1. g < ex[t].n
        BY <1>3, <1>6 DEF Waits
      <4>2. g + 1 \in 1 .. ex[t].n
        BY <1>1, <4>1
      <4>3. QED
        BY <1>1, <4>2
    <3>2. saved[t][g + 1] = <<>>
      BY <1>1, <3>1 DEF Saved, Waits
    <3> QED
      BY <1>3, <1>6, <3>1, <3>2 DEF Saved, Waits
  <2>2. PICK x \in Counts(wire[t]) :
           /\ Runs(wire[t], x, offer[t], g, Len(saved[t][g]))
           /\ Linked(t) => Ends(wire[t], x, offer[t], g, sender[t].file, Read(t))
    BY <2>1 DEF Stream
  <2>3. CASE ~Short(t)
    <3>1. PICK y \in Counts(wire[t]) :
           /\ Runs(wire[t], y, offer[t], g + 1, 0)
           /\ \A f \in 1 .. MaxFiles + 1, r \in Nat :
                Ends(wire[t], x, offer[t], g, f, r) => Ends(wire[t], y, offer[t], g + 1, f, r)
      BY <1>1, <1>2, <2>2, <2>3, RunsNext
    <3>2. Linked(t) => Ends(wire[t], y, offer[t], g + 1, sender[t].file, Read(t))
      BY <2>2, <3>1, FileKnown
    <3> QED
      BY <2>1, <3>1, <3>2, QuietSame DEF Stream, Quiet
  <2>4. CASE wire[t] = <<>> /\ ~Linked(t)
    <3> DEFINE y == [i \in 0 .. Len(wire[t]) |-> 0]
    <3>1. y \in Counts(wire[t]) /\ Runs(wire[t], y, offer[t], g + 1, 0)
      BY <2>4, FilesNat DEF Counts, Runs
    <3> HIDE DEF y
    <3> QED
      BY <2>1, <2>4, <3>1, QuietSame DEF Stream, Quiet
  <2> QED
    BY <1>6, <2>3, <2>4
<1>7. ASSUME touched[t] = {}, sender[t].step # "dead" PROVE Full(t)'
  <2>1. \A f \in 1 .. g : Len(saved[t][f]) = offer[t][f]
    <3>1. \A f \in 1 .. g : f = g \/ f \in 1 .. g - 1
      BY <1>1
    <3> QED
      BY <1>2, <1>7, <3>1 DEF Saved, Full
  <2> QED
    BY <1>1, <1>3, <2>1 DEF Full, Whole, Quiet
<1>8. Saved(t)'
  BY <1>5, <1>6, <1>7, QuietSame DEF Saved, Quiet, Pure, Waits
<1> QED
  BY <1>4, <1>8

LEMMA NextFileSteps ==
  ASSUME IInv, NEW t \in Transfers, Sent(t), Saved(t), FileSaved(t) \/ ComputerStreamEnds(t)
  PROVE  Sent(t)' /\ Saved(t)'
<1>1. Quiet(t) /\ UNCHANGED <<wire, saved, verdict>> /\ receiver[t].step = "saving" /\ NextFile(t)
  BY DEF FileSaved, ComputerStreamEnds, Quiet, sending
<1>2. CASE FileSaved(t)
  BY <1>1, <1>2, NextFileBytes DEF FileSaved
<1>3. CASE ComputerStreamEnds(t)
  <2>1. wire[t] = <<>> /\ conn[t] = "closed" /\ Short(t)
    BY <1>3 DEF ComputerStreamEnds
  <2>2. ASSUME Unspoiled(t), Linked(t) PROVE FALSE
    <3> DEFINE g == receiver[t].file
    <3>1. sender[t].step = "completed" /\ sender[t].file = ex[t].n + 1 /\ Read(t) = 0
      BY <2>1, <2>2 DEF Linked, Sent, Read
    <3>2. PICK x \in Counts(wire[t]) :
             /\ Runs(wire[t], x, offer[t], g, Len(saved[t][g]))
             /\ Ends(wire[t], x, offer[t], g, sender[t].file, Read(t))
      BY <1>1, <2>2 DEF Saved, Waits, Stream
    <3>3. Same(offer[t], g, Len(saved[t][g]), ex[t].n + 1, 0)
      BY <2>1, <3>1, <3>2 DEF Runs, Ends, FileAt
    <3>4. g \in Nat /\ g <= ex[t].n /\ ex[t].n \in Nat /\ Len(saved[t][g]) < offer[t][g]
      BY <2>1, Typed, FilesNat DEF Short
    <3>5. offer[t] \in Offers /\ Len(saved[t][g]) \in Nat
      BY Typed, FileKnown
    <3> HIDE DEF g
    <3> QED
      BY <3>3, <3>4, <3>5, FilesNat DEF Same, Behind, Offers
  <2>3. touched[t] = {} /\ sender[t].step # "dead" => Unspoiled(t) /\ Linked(t)
    BY <1>1, <2>1 DEF Sent, Waits, Unspoiled, Linked
  <2> QED
    BY <1>1, <2>1, <2>2, <2>3, NextFileBytes
<1> QED
  BY <1>2, <1>3

LEMMA SaveByteBytes ==
  ASSUME IInv, NEW t \in Transfers, Sent(t), Saved(t), SaveByte(t)
  PROVE  Sent(t)' /\ Saved(t)'
<1> DEFINE g == receiver[t].file
<1>1. /\ Quiet(t) /\ UNCHANGED <<verdict, receiver>> /\ receiver[t].step = "saving"
      /\ Short(t) /\ wire[t] # <<>>
  BY DEF SaveByte, Quiet, sending
<1>2. /\ wire'[t] = Tail(wire[t]) /\ saved'[t][g] = Append(saved[t][g], Head(wire[t]))
      /\ \A f \in Files : f # g => saved'[t][f] = saved[t][f]
  BY DEF SaveByte, IInv, TypeOK, WireOK, SavingOK
<1>3. /\ g \in Files /\ g \in Nat /\ offer[t] \in Offers /\ wire[t] \in Seq(Files)
      /\ saved[t][g] \in Seq(Files) /\ Len(saved[t][g]) \in Nat /\ Len(saved[t][g]) < offer[t][g]
      /\ Head(wire[t]) \in Files
      /\ \A f \in 1 .. g - 1 : f \in Files /\ f # g
  <2>1. g \in Files /\ g \in Nat
    BY FileKnown
  <2>2. \A f \in 1 .. g - 1 : f \in Files /\ f # g
    BY <2>1, TransferAssumption DEF Files
  <2>3. wire[t] \in Seq(Files) /\ Head(wire[t]) \in Files
    BY <1>1, Typed, HeadTailProperties
  <2> QED
    BY <1>1, <2>1, <2>2, <2>3, Typed DEF Short
<1>4. Len(saved'[t][g]) = Len(saved[t][g]) + 1
      /\ saved'[t][g][Len(saved[t][g]) + 1] = Head(wire[t])
      /\ \A i \in 1 .. Len(saved[t][g]) : saved'[t][g][i] = saved[t][g][i]
  <2>1. ASSUME NEW s \in Seq(Files), NEW e \in Files
        PROVE  /\ Len(Append(s, e)) = Len(s) + 1 /\ Append(s, e)[Len(s) + 1] = e
               /\ \A i \in 1 .. Len(s) : Append(s, e)[i] = s[i]
    BY AppendProperties
  <2>2. saved[t][g] \in Seq(Files) /\ Head(wire[t]) \in Files
    BY <1>3
  <2>3. saved'[t][g] = Append(saved[t][g], Head(wire[t]))
    BY <1>2
  <2> HIDE DEF g
  <2> QED
    BY <2>1, <2>2, <2>3
<1>5. Sent(t)'
  BY <1>1, QuietSame DEF Quiet, Sent, Waits
<1>6. ASSUME Unspoiled(t) PROVE Stream(t)' /\ Pure(t)'
  <2>1. PICK x \in Counts(wire[t]) :
           /\ Runs(wire[t], x, offer[t], g, Len(saved[t][g]))
           /\ Linked(t) => Ends(wire[t], x, offer[t], g, sender[t].file, Read(t))
    BY <1>1, <1>6 DEF Saved, Waits, Stream
  <2>2. /\ Head(wire[t]) = g
        /\ RunsAfterHead(wire[t], x, offer[t], g, Len(saved[t][g]), sender[t].file, Read(t))
    BY <1>1, <1>3, <2>1, RunsTail
  <2>3. PICK y \in Counts(Tail(wire[t])) :
           /\ Runs(Tail(wire[t]), y, offer[t], g, Len(saved[t][g]) + 1)
           /\ Ends(wire[t], x, offer[t], g, sender[t].file, Read(t)) =>
                Ends(Tail(wire[t]), y, offer[t], g, sender[t].file, Read(t))
    BY <2>2 DEF RunsAfterHead
  <2>4. Stream(t)'
    BY <1>1, <1>2, <1>4, <2>1, <2>3, QuietSame DEF Stream, Quiet
  <2>5. \A f \in Files : \A i \in 1 .. Len(saved'[t][f]) : saved'[t][f][i] = f
    <3>1. ASSUME NEW i \in 1 .. Len(saved'[t][g]) PROVE saved'[t][g][i] = g
      <4>1. CASE i = Len(saved[t][g]) + 1
        BY <1>4, <2>2, <4>1
      <4>2. CASE i # Len(saved[t][g]) + 1
        <5>1. i \in 1 .. Len(saved[t][g])
          BY <1>3, <1>4, <4>2
        <5> QED
          BY <1>3, <1>4, <1>6, <5>1 DEF Saved, Pure
      <4> QED
        BY <4>1, <4>2
    <3> QED
      BY <1>2, <1>6, <3>1 DEF Saved, Pure
  <2> QED
    BY <2>4, <2>5 DEF Pure
<1>7. Full(t) => Full(t)'
  BY <1>1, <1>2, <1>3 DEF Full, Quiet
<1>8. \A f \in Files : f > g => saved'[t][f] = <<>>
  <2>1. \A f \in Files : f > g => f # g
    BY <1>3
  <2> QED
    BY <1>1, <1>2, <2>1 DEF Saved, Waits
<1>9. Saved(t)'
  BY <1>1, <1>6, <1>7, <1>8, QuietSame DEF Saved, Quiet, Waits
<1> QED
  BY <1>5, <1>9

LEMMA SendByteBytes ==
  ASSUME IInv, NEW t \in Transfers, Sent(t), Saved(t), SendByte(t)
  PROVE  Sent(t)' /\ Saved(t)'
<1> DEFINE f == sender[t].file  r == sender[t].at
<1>1. /\ UNCHANGED <<ex, disk, touched, offer, conn, verdict, receiver, saved>>
      /\ sender[t].step = "streaming" /\ r < disk[t][f]
      /\ sender'[t] = [sender[t] EXCEPT !.at = r + 1]
      /\ wire'[t] = IF conn[t] = "open" THEN Append(wire[t], f) ELSE wire[t]
  BY DEF SendByte, sending, IInv, TypeOK, SendingOK, WireOK
<1>2. /\ f \in Files /\ r \in Sizes /\ disk[t][f] \in Sizes /\ f \in 1 .. ex[t].n
      /\ r \in Nat /\ disk[t][f] \in Nat
  BY <1>1, Typed, FilesNat
<1>3. /\ sender'[t].step = "streaming" /\ sender'[t].file = f /\ sender'[t].at = r + 1
  BY <1>1, Typed
<1>4. Sent(t)'
  BY <1>1, <1>2, <1>3 DEF Sent, Active, AsOffered, Waits
<1>5. ASSUME Unspoiled(t), Stream(t) PROVE Stream(t)'
  <2>1. disk[t][f] = offer[t][f]
    <3>1. AsOffered(t) /\ disk[t][f] # None /\ "resized" \notin touched[t]
      BY <1>1, <1>2, <1>5, TransferAssumption DEF Sent, Active, Unspoiled
    <3> QED
      BY <1>2, <3>1 DEF AsOffered
  <2>2. PICK x \in Counts(wire[t]) :
           /\ Runs(wire[t], x, offer[t], receiver[t].file, Len(saved[t][receiver[t].file]))
           /\ Linked(t) => Ends(wire[t], x, offer[t], receiver[t].file, f, Read(t))
    BY <1>5 DEF Stream
  <2>3. CASE conn[t] = "open"
    <3>1. Ends(wire[t], x, offer[t], receiver[t].file, f, r)
      BY <1>1, <2>2, <2>3 DEF Linked, Active, Read
    <3>2. \E y \in Counts(Append(wire[t], f)) :
             /\ Runs(Append(wire[t], f), y, offer[t], receiver[t].file,
                     Len(saved[t][receiver[t].file]))
             /\ Ends(Append(wire[t], f), y, offer[t], receiver[t].file, f, r + 1)
      <4>1. /\ wire[t] \in Seq(Files) /\ offer[t] \in Offers /\ receiver[t].file \in Files
            /\ r < offer[t][f]
        BY <1>1, <2>1, Typed, FileKnown
      <4> QED
        BY <1>2, <2>2, <3>1, <4>1, RunsAppend
    <3>3. Read(t)' = r + 1 /\ sender'[t].file = f /\ wire'[t] = Append(wire[t], f)
      BY <1>1, <1>3, <2>3 DEF Read
    <3> QED
      BY <1>1, <3>2, <3>3 DEF Stream
  <2>4. CASE conn[t] # "open"
    <3>1. ~Linked(t)' /\ wire'[t] = wire[t]
      BY <1>1, <1>3, <2>4 DEF Linked
    <3> QED
      BY <1>1, <2>2, <3>1 DEF Stream
  <2> QED
    BY <2>3, <2>4
<1>6. Saved(t)'
  <2>1. Unspoiled(t)' = Unspoiled(t) /\ Waits(t)' = Waits(t) /\ Pure(t)' = Pure(t)
        /\ Full(t)' = Full(t)
    BY <1>1 DEF Unspoiled, Waits, Pure, Full, Whole
  <2> QED
    BY <1>1, <1>3, <1>5, <2>1 DEF Saved
<1> QED
  BY <1>4, <1>6

LEMMA TouchBytes ==
  ASSUME IInv, NEW t \in Transfers, NEW f \in Files, NEW s \in Sizes \union {None},
         Sent(t), Saved(t), Touch(t, f, s)
  PROVE  Sent(t)' /\ Saved(t)'
<1>1. /\ UNCHANGED <<ex, offer, sender, conn, verdict, wire, receiver, saved>>
      /\ touched'[t] = touched[t] \union {IF s = None THEN "gone" ELSE "resized"}
      /\ disk'[t][f] = s /\ \A h \in Files : h # f => disk'[t][h] = disk[t][h]
      /\ Active(t) /\ (s = None => sender[t].step # "streaming" \/ sender[t].file # f)
  BY DEF Touch, IInv, TypeOK, SendingOK
<1>2. AsOffered(t)'
  <2> SUFFICES ASSUME NEW h \in 1 .. ex[t].n
               PROVE  \/ disk'[t][h] = offer[t][h]
                      \/ "resized" \in touched'[t]
                      \/ disk'[t][h] = None /\ "gone" \in touched'[t]
    BY <1>1 DEF AsOffered
  <2>1. h \in Files
    BY Typed
  <2>2. CASE h = f
    BY <1>1, <2>2
  <2>3. CASE h # f
    BY <1>1, <2>1, <2>3 DEF Sent, AsOffered
  <2> QED
    BY <2>2, <2>3
<1>3. sender[t].step = "streaming" /\ "resized" \notin touched'[t] =>
        sender[t].at <= disk'[t][sender[t].file]
  <2> SUFFICES ASSUME sender[t].step = "streaming", "resized" \notin touched'[t]
               PROVE  sender[t].at <= disk'[t][sender[t].file]
    OBVIOUS
  <2>1. s = None /\ sender[t].file # f /\ sender[t].file \in Files /\ "resized" \notin touched[t]
    BY <1>1, Typed
  <2> QED
    BY <1>1, <2>1 DEF Sent
<1>4. Sent(t)'
  BY <1>1, <1>2, <1>3 DEF Sent, Active, Waits
<1>5. Unspoiled(t)' => Unspoiled(t)
  BY <1>1 DEF Unspoiled
<1>6. Stream(t) => Stream(t)'
  BY <1>1 DEF Stream, Linked, Read, Active
<1>7. Saved(t)'
  BY <1>1, <1>5, <1>6 DEF Saved, Waits, Pure
<1> QED
  BY <1>4, <1>7

LEMMA AskBytes ==
  ASSUME IInv, IInv', NEW t \in Transfers, Sent(t), Saved(t), Ask(t)
  PROVE  Sent(t)' /\ Saved(t)'
<1>1. /\ UNCHANGED <<ex, disk, touched, verdict, wire, receiver, saved>>
      /\ sender[t].step = "idle"
  BY DEF Ask, sending
<1>2. /\ conn[t] = "none" /\ receiver[t].step = "none" /\ receiver[t].file = 1
      /\ \A f \in Files : saved[t][f] = <<>>
  BY <1>1 DEF IInv, Fresh
<1>3. /\ sender'[t].file = 1 /\ wire[t] = <<>>
      /\ \/ offer'[t] = disk[t] /\ sender'[t].step = "asking" /\ conn'[t] = "open"
         \/ sender'[t].step = "error" /\ conn'[t] = "none"
  BY <1>1, <1>2 DEF Ask, Sent, IInv, TypeOK, SendingOK, WireOK
<1>4. Sent(t)'
  BY <1>1, <1>2, <1>3, Typed, FilesNat DEF Sent, Active, AsOffered
<1>5. Stream(t)'
  <2> DEFINE y == [i \in 0 .. Len(wire[t]) |-> 0]
  <2>1. /\ y \in Counts(wire[t]) /\ Runs(wire[t], y, offer'[t], 1, 0)
        /\ Ends(wire[t], y, offer'[t], 1, 1, 0)
    BY <1>3, FilesNat DEF Counts, Runs, Ends, Same, FileAt
  <2>2. Len(saved[t][1]) = 0
    BY <1>2, FileKnown
  <2>3. Linked(t)' => Read(t)' = 0
    BY <1>3 DEF Linked, Read, Active
  <2> HIDE DEF y
  <2> QED
    BY <1>1, <1>2, <1>3, <2>1, <2>2, <2>3 DEF Stream
<1>6. Saved(t)'
  <2>1. Pure(t)'
    <3>1. \A f \in Files : Len(saved[t][f]) = 0
      BY <1>2
    <3> QED
      BY <1>1, <3>1 DEF Pure
  <2>2. Full(t)'
    BY <1>1, <1>2 DEF Full
  <2> QED
    BY <1>1, <1>2, <1>5, <2>1, <2>2 DEF Saved
<1> QED
  BY <1>4, <1>6

Bytes == \A t \in Transfers : Sent(t) /\ Saved(t)

Act(t) ==
  \/ SenderMove(t) \/ Ask(t) \/ SendByte(t)
  \/ ReadOffer(t) \/ (\E d \in Dev : Answer(d) /\ prompt[d] = t)
  \/ SaveByte(t) \/ FileSaved(t) \/ ComputerStreamEnds(t)
  \/ PhoneStreamEnds(t) \/ ReadFails(t) \/ CannotSave(t)
  \/ \E f \in Files, s \in Sizes \union {None} : Touch(t, f, s)

LEMMA ActBytes ==
  ASSUME IInv, IInv', NEW t \in Transfers, Sent(t), Saved(t), Act(t)
  PROVE  Sent(t)' /\ Saved(t)'
  BY SenderSent, SenderSaved, AskBytes, SendByteBytes, AnswerBytes, SaveByteBytes, NextFileSteps,
     SaverStops, TouchBytes DEF Act

\* A step of one transfer leaves the others alone.
LEMMA ActAlone ==
  ASSUME IInv, NEW t \in Transfers, Act(t), NEW u \in Transfers, u # t
  PROVE  /\ Quiet(u) /\ verdict'[u] = verdict[u] /\ wire'[u] = wire[u]
         /\ receiver'[u] = receiver[u] /\ saved'[u] = saved[u]
<1>1. CASE SenderMove(t) \/ Ask(t) \/ SendByte(t)
  <2>1. CASE Ask(t) \/ SendByte(t)
    BY <2>1 DEF Ask, SendByte, sending, Quiet, IInv, TypeOK, SendingOK, WireOK
  <2>2. CASE SenderMove(t)
    <3>1. sender'[u] = sender[u] /\ conn'[u] = conn[u]
      BY <2>2 DEF SenderMove, ReadVerdict, NoVerdict, GiveUp, OpenFile, FileEnds, SendFails, AllSent,
                  SenderDies, Cut, Stops, Throws, Closes, IInv, TypeOK, SendingOK, WireOK
    <3> QED
      BY <2>2, <3>1, SenderMoveTouches DEF Quiet
  <2> QED
    BY <1>1, <2>1, <2>2
<1>2. CASE ReadOffer(t) \/ \E d \in Dev : Answer(d) /\ prompt[d] = t
  <2> DEFINE Still == /\ UNCHANGED <<ex, disk, touched, offer, sender, conn, wire, saved>>
                      /\ verdict'[u] = verdict[u] /\ receiver'[u] = receiver[u]
  <2>1. /\ Accepts(t) => verdict'[u] = verdict[u] /\ receiver'[u] = receiver[u]
        /\ \A s : receiver' = [receiver EXCEPT ![t].step = s] => receiver'[u] = receiver[u]
        /\ verdict' = [verdict EXCEPT ![t] = "reject"] => verdict'[u] = verdict[u]
    BY DEF Accepts, IInv, TypeOK, WireOK, SavingOK
  <2>2. ReadOffer(t) => Still
    BY <2>1 DEF ReadOffer, sending
  <2>3. ASSUME NEW d \in Dev, Answer(d), prompt[d] = t PROVE Still
    BY <2>1, <2>3 DEF Answer, sending
  <2>4. Still
    BY <1>2, <2>2, <2>3
  <2> QED
    BY <2>4 DEF Quiet
<1>3. CASE SaveByte(t)
  BY <1>3 DEF SaveByte, sending, Quiet, IInv, TypeOK, WireOK, SavingOK
<1>4. CASE FileSaved(t) \/ ComputerStreamEnds(t) \/ PhoneStreamEnds(t)
  BY <1>4 DEF FileSaved, ComputerStreamEnds, PhoneStreamEnds, NextFile, sending, Quiet, IInv, TypeOK,
              SavingOK
<1>5. CASE ReadFails(t) \/ CannotSave(t)
  BY <1>5 DEF ReadFails, CannotSave, sending, Quiet, IInv, TypeOK, WireOK, SavingOK
<1>6. CASE \E f \in Files, s \in Sizes \union {None} : Touch(t, f, s)
  BY <1>6 DEF Touch, Quiet, IInv, TypeOK, SendingOK
<1> QED
  BY <1>1, <1>2, <1>3, <1>4, <1>5, <1>6 DEF Act

LEMMA NextBytes ==
  ASSUME IInv, IInv', Bytes, [Next]_vars
  PROVE  Bytes'
<1> SUFFICES ASSUME NEW u \in Transfers PROVE Sent(u)' /\ Saved(u)'
  BY DEF Bytes
<1>1. Sent(u) /\ Saved(u)
  BY DEF Bytes
<1>2. CASE \E t \in Transfers : Act(t)
  <2>1. PICK t \in Transfers : Act(t)
    BY <1>2
  <2> QED
    BY <1>1, <2>1, ActBytes, ActAlone, OtherBytes
<1>3. CASE UNCHANGED vars \/ \E d \in Dev : OtherOffer(d)
  BY <1>1, <1>3, OtherBytes DEF vars, OtherOffer, Quiet, sending
<1>4. \A d \in Dev : Answer(d) => \E t \in Transfers : Act(t)
  BY DEF Answer, Act, IInv, TypeOK, SavingOK
<1> QED
  BY <1>2, <1>3, <1>4 DEF Next, Steps, Act, SenderMove

LEMMA InitBytes == Init => Bytes
<1> SUFFICES ASSUME Init, NEW t \in Transfers PROVE Sent(t) /\ Saved(t)
  BY DEF Bytes
<1>1. /\ sender[t] = [step |-> "idle", file |-> 1, at |-> 0] /\ wire[t] = <<>>
      /\ conn[t] = "none" /\ verdict[t] = None /\ offer[t] = [f \in Files |-> 0]
      /\ receiver[t] = [step |-> "none", file |-> 1] /\ \A f \in Files : saved[t][f] = <<>>
  BY DEF Init
<1>2. Sent(t)
  BY <1>1, TransferAssumption DEF Sent, Active
<1>3. Stream(t)
  <2> DEFINE y == [i \in 0 .. Len(wire[t]) |-> 0]
  <2>1. y \in Counts(wire[t]) /\ Runs(wire[t], y, offer[t], 1, 0)
    BY <1>1, FilesNat DEF Counts, Runs
  <2>2. ~Linked(t)
    BY <1>1 DEF Linked
  <2>3. 1 \in Files
    BY TransferAssumption DEF Files
  <2>4. Len(saved[t][1]) = 0
    BY <1>1, <2>3
  <2> HIDE DEF y
  <2> QED
    BY <1>1, <2>1, <2>2, <2>4 DEF Stream
<1>4. Pure(t)
  <2>1. \A f \in Files : Len(saved[t][f]) = 0
    BY <1>1
  <2> QED
    BY <2>1 DEF Pure
<1>5. Saved(t)
  BY <1>1, <1>3, <1>4 DEF Saved, Full
<1> QED
  BY <1>2, <1>5

LEMMA AlwaysBytes == Spec => []Bytes
<1>1. IInv /\ IInv' /\ Bytes /\ [Next]_vars => Bytes'
  BY NextBytes
<1> QED
  BY <1>1, InitBytes, AlwaysIInv, PTL DEF Spec

(* A computer, which takes the end of the stream for the end of a file,    *)
(* records a transfer of files nobody touched from a program that did not  *)
(* end as completed only with every byte, wherever connections break and   *)
(* for any number and sizes of files, empty ones too (server.go, receive). *)
THEOREM ComputerRecordsWhole == Spec => []ComputerKeepsWhole
<1>1. Bytes => ComputerKeepsWhole
  BY DEF Bytes, Saved, Full, ComputerKeepsWhole
<1> QED
  BY <1>1, AlwaysBytes, PTL

(* The receiver cuts the stream by the sizes in the offer; the bytes of    *)
(* one file nevertheless never end up in another, as long as no file grew  *)
(* or shrank and a computer could open each of them, whether or not it     *)
(* could read them to their ends (SendFilesTo, sendFiles).                 *)
THEOREM BytesStayInFile == Spec => []RightBytes
<1>1. Bytes => RightBytes
  BY DEF Bytes, Saved, Unspoiled, Pure, RightBytes
<1> QED
  BY <1>1, AlwaysBytes, PTL
(***************************************************************************)
(* What a sender records as completed. Nothing is streamed that was not    *)
(* accepted, a receiver that accepted saves on as long as it has room, and *)
(* what makes it fail makes the sender fail too or is a break of the       *)
(* connection; a sender that is done leaves on the wire what the receiver  *)
(* is short of.                                                            *)
(***************************************************************************)
Accepted(t) ==
  /\ sender[t].step \in {"opening", "streaming", "completed"} => verdict[t] = "accept"
  /\ receiver[t].step \in {"none", "prompt"} => verdict[t] = None
  /\ verdict[t] = "accept" =>
       \/ receiver[t].step \in {"saving", "completed", "error"}
       \/ receiver[t].step = "lost" /\ ~ex[t].room
  /\ receiver[t].step = "error" /\ ex[t].room /\ touched[t] = {} =>
       conn[t] = "cut" \/ sender[t].step \in {"error", "dead"}

Arriving == \A t \in Transfers : Accepted(t)

LEMMA NoneMissing ==
  ASSUME IInv, NEW t \in Transfers, Sent(t), Saved(t), Unspoiled(t),
         receiver[t].step = "saving", wire[t] = <<>>,
         sender[t].step = "completed", conn[t] = "closed"
  PROVE  ~Short(t)
<1> SUFFICES ASSUME Short(t) PROVE FALSE
  OBVIOUS
<1> DEFINE g == receiver[t].file
<1>1. sender[t].file = ex[t].n + 1 /\ Read(t) = 0 /\ Linked(t)
  BY DEF Linked, Sent, Read
<1>2. PICK x \in Counts(wire[t]) :
        /\ Runs(wire[t], x, offer[t], g, Len(saved[t][g]))
        /\ Ends(wire[t], x, offer[t], g, sender[t].file, Read(t))
  BY <1>1 DEF Saved, Waits, Stream
<1>3. Same(offer[t], g, Len(saved[t][g]), ex[t].n + 1, 0)
  BY <1>1, <1>2 DEF Runs, Ends, FileAt
<1>4. g \in Nat /\ g <= ex[t].n /\ ex[t].n \in Nat /\ Len(saved[t][g]) < offer[t][g]
  BY Typed, FilesNat DEF Short
<1>5. QED
  BY <1>3, <1>4, Typed, FileKnown, FilesNat DEF Same, Behind, Offers

\* A step of another transfer.
LEMMA OtherAccepted ==
  ASSUME NEW t \in Transfers, Accepted(t), Quiet(t),
         verdict'[t] = verdict[t], receiver'[t] = receiver[t]
  PROVE  Accepted(t)'
  BY DEF Accepted, Quiet

LEMMA SenderAccepted ==
  ASSUME IInv, NEW t \in Transfers, Accepted(t), SenderMove(t) \/ Ask(t) \/ SendByte(t)
  PROVE  Accepted(t)'
<1>1. sender \in [Transfers -> [step : SenderSteps, file : 1 .. MaxFiles + 1, at : Sizes]]
      /\ conn \in [Transfers -> {"none", "open", "closed", "cut"}]
  BY DEF IInv, TypeOK, SendingOK, WireOK
<1>2. UNCHANGED <<ex, verdict, receiver>> /\ (touched'[t] = {} => touched[t] = {})
  BY SenderMoveTouches DEF Ask, SendByte, sending
<1>3. /\ sender'[t].step \in {"opening", "streaming", "completed"} =>
           sender[t].step \in {"opening", "streaming", "completed"} \/ verdict[t] = "accept"
      /\ sender[t].step \in {"error", "dead"} => sender'[t].step \in {"error", "dead"}
      /\ conn[t] = "cut" => conn'[t] = "cut" \/ Ask(t)
  <2>1. CASE ReadVerdict(t) \/ NoVerdict(t) \/ GiveUp(t) \/ SendFails(t)
    BY <1>1, <2>1 DEF ReadVerdict, NoVerdict, GiveUp, SendFails, Stops, Throws, Closes
  <2>2. CASE OpenFile(t)
    BY <1>1, <2>2 DEF OpenFile, Stops, Throws, Closes
  <2>3. CASE FileEnds(t) \/ AllSent(t) \/ SendByte(t)
    BY <1>1, <2>3 DEF FileEnds, AllSent, SendByte, Closes
  <2>4. CASE SenderDies(t) \/ Cut(t)
    BY <1>1, <2>4 DEF SenderDies, Cut, Active
  <2>5. CASE Ask(t)
    BY <1>1, <2>5 DEF Ask
  <2>6. QED
    BY <2>1, <2>2, <2>3, <2>4, <2>5 DEF SenderMove
<1>4. Ask(t) => conn[t] = "none"
  BY DEF Ask, IInv, Fresh
<1>5. QED
  BY <1>2, <1>3, <1>4 DEF Accepted

LEMMA ReceiverAccepted ==
  ASSUME IInv, NEW t \in Transfers, Sent(t), Saved(t), Accepted(t),
         \/ ReadOffer(t) \/ (\E d \in Dev : Answer(d) /\ prompt[d] = t)
         \/ SaveByte(t) \/ FileSaved(t) \/ ComputerStreamEnds(t)
         \/ PhoneStreamEnds(t) \/ ReadFails(t) \/ CannotSave(t)
  PROVE  Accepted(t)'
<1>1. /\ receiver \in [Transfers -> [step : ReceiverSteps, file : Files]]
      /\ verdict \in [Transfers -> {None, "accept", "reject"}]
      /\ None # "accept"
  BY TransferAssumption DEF IInv, TypeOK, WireOK, SavingOK
<1>2. UNCHANGED <<ex, touched, sender, conn>>
  BY DEF ReadOffer, Answer, SaveByte, FileSaved, ComputerStreamEnds, PhoneStreamEnds, ReadFails,
         CannotSave, sending
<1>3. CASE ReadOffer(t) \/ \E d \in Dev : Answer(d) /\ prompt[d] = t
  <2>1. receiver[t].step \in {"none", "prompt"}
    BY <1>3, TransferAssumption DEF ReadOffer, Answer, IInv, TypeOK, SavingOK
  <2>2. sender[t].step \notin {"opening", "streaming", "completed"}
    BY <1>1, <2>1 DEF Accepted
  <2>3. Accepts(t) => \/ verdict'[t] = "accept" /\ receiver'[t].step = "saving"
                      \/ verdict'[t] = verdict[t] /\ receiver'[t].step = "lost"
    BY <1>1 DEF Accepts
  <2>4. \/ verdict'[t] = "accept" /\ receiver'[t].step = "saving"
        \/ verdict'[t] = verdict[t] /\ receiver'[t].step \in {"prompt", "lost"}
        \/ verdict'[t] = "reject" /\ receiver'[t].step = "rejected"
    <3>1. CASE ReadOffer(t)
      BY <1>1, <2>3, <3>1 DEF ReadOffer
    <3>2. ASSUME NEW d \in Dev, Answer(d), prompt[d] = t
          PROVE  \/ Accepts(t)
                 \/ verdict'[t] = "reject" /\ receiver'[t].step = "rejected"
      BY <1>1, <3>2 DEF Answer
    <3>3. QED
      BY <1>3, <2>3, <3>1, <3>2
  <2>5. QED
    BY <1>1, <1>2, <2>1, <2>2, <2>4 DEF Accepted
<1>4. CASE SaveByte(t) \/ FileSaved(t) \/ ComputerStreamEnds(t)
  <2>1. /\ receiver[t].step = "saving" /\ receiver'[t].step \in {"saving", "completed"}
        /\ verdict' = verdict
    BY <1>1, <1>4 DEF SaveByte, FileSaved, ComputerStreamEnds, NextFile
  <2>2. QED
    BY <1>2, <2>1 DEF Accepted
<1>5. CASE PhoneStreamEnds(t)
  <2>1. /\ receiver[t].step = "saving" /\ receiver'[t].step = "error" /\ verdict' = verdict
        /\ Short(t) /\ wire[t] = <<>> /\ conn[t] = "closed"
    BY <1>1, <1>5 DEF PhoneStreamEnds
  <2>2. touched[t] = {} => sender[t].step = "dead"
    BY <2>1, NoneMissing DEF Sent, Waits, Unspoiled
  <2>3. QED
    BY <1>2, <2>1, <2>2 DEF Accepted
<1>6. CASE ReadFails(t)
  <2>1. /\ receiver[t].step = "saving" /\ receiver'[t].step = "error" /\ verdict' = verdict
        /\ conn[t] = "cut"
    BY <1>1, <1>6 DEF ReadFails
  <2>2. QED
    BY <1>2, <2>1 DEF Accepted
<1>7. CASE CannotSave(t)
  <2>1. /\ receiver[t].step = "saving" /\ receiver'[t].step \in {"error", "lost"}
        /\ verdict' = verdict /\ ~ex[t].room
    BY <1>1, <1>7 DEF CannotSave
  <2>2. QED
    BY <1>2, <2>1 DEF Accepted
<1>8. QED
  BY <1>3, <1>4, <1>5, <1>6, <1>7

LEMMA TouchAccepted ==
  ASSUME IInv, NEW t \in Transfers, Accepted(t),
         NEW f \in Files, NEW s \in Sizes \union {None}, Touch(t, f, s)
  PROVE  Accepted(t)'
<1>1. UNCHANGED <<ex, sender, conn, verdict, receiver>>
  BY DEF Touch
<1>2. touched[t] \subseteq touched'[t]
  BY DEF Touch, IInv, TypeOK, SendingOK
<1>3. QED
  BY <1>1, <1>2 DEF Accepted

LEMMA NextArriving ==
  ASSUME IInv, Bytes, Arriving, [Next]_vars
  PROVE  Arriving'
<1> SUFFICES ASSUME NEW u \in Transfers PROVE Accepted(u)'
  BY DEF Arriving
<1>1. Sent(u) /\ Saved(u) /\ Accepted(u)
  BY DEF Bytes, Arriving
<1>2. CASE \E t \in Transfers : Act(t)
  <2>1. PICK t \in Transfers : Act(t)
    BY <1>2
  <2>2. CASE u = t
    BY <1>1, <2>1, <2>2, SenderAccepted, ReceiverAccepted, TouchAccepted DEF Act
  <2>3. CASE u # t
    BY <1>1, <2>1, <2>3, ActAlone, OtherAccepted
  <2>4. QED
    BY <2>2, <2>3
<1>3. CASE UNCHANGED vars \/ \E d \in Dev : OtherOffer(d)
  BY <1>1, <1>3, OtherAccepted DEF vars, OtherOffer, Quiet, sending
<1>4. \A d \in Dev : Answer(d) => \E t \in Transfers : Act(t)
  BY DEF Answer, Act, IInv, TypeOK, SavingOK
<1>5. QED
  BY <1>2, <1>3, <1>4 DEF Next, Steps, Act, SenderMove

LEMMA InitArriving == Init => Arriving
<1> SUFFICES ASSUME Init, NEW t \in Transfers PROVE Accepted(t)
  BY DEF Arriving
<1>1. sender[t].step = "idle" /\ verdict[t] = None /\ receiver[t].step = "none"
  BY DEF Init
<1>2. QED
  BY <1>1, TransferAssumption DEF Accepted

(* A transfer the sender recorded as completed is recorded as completed by *)
(* a receiver with room for it, with every byte, or the receiver still     *)
(* saves it and never waits for more than is on the wire: unless the       *)
(* connection broke, the files changed or a computer skipped one that it   *)
(* could not open, it was not turned down, no receiver failed over it, and *)
(* no close takes bytes away (SendFilesTo, sendFiles, handleTransfer,      *)
(* _receiveFile). What is left of Delivered is that the receiver goes on.  *)
THEOREM CompletedIsThere == Spec => []CompletedArrives
<1>1. ASSUME IInv, Bytes, Arriving PROVE CompletedArrives
  <2> SUFFICES ASSUME NEW t \in Transfers, sender[t].step = "completed", conn[t] = "closed",
                      touched[t] = {}, ex[t].room
               PROVE  \/ receiver[t].step = "completed" /\ Whole(t)
                      \/ receiver[t].step = "saving" /\ (Short(t) => wire[t] # <<>>)
    BY DEF CompletedArrives
  <2>1. Sent(t) /\ Saved(t) /\ Accepted(t) /\ Unspoiled(t)
    BY <1>1 DEF Bytes, Arriving, Unspoiled
  <2>2. receiver[t].step \in {"saving", "completed"}
    BY <2>1 DEF Accepted
  <2>3. receiver[t].step = "completed" => Whole(t)
    BY <2>1 DEF Saved, Full
  <2>4. receiver[t].step = "saving" /\ wire[t] = <<>> => ~Short(t)
    BY <1>1, <2>1, NoneMissing
  <2>5. QED
    BY <2>2, <2>3, <2>4
<1>2. IInv /\ Bytes /\ Arriving /\ [Next]_vars => Arriving'
  BY NextArriving
<1>3. Spec => []Arriving
  BY <1>2, InitArriving, AlwaysIInv, AlwaysBytes, PTL DEF Spec
<1>4. QED
  BY <1>1, <1>3, AlwaysIInv, AlwaysBytes, PTL

-----------------------------------------------------------------------------
(* SavedFiles: the inductive invariant. *)

(* Names and lists are sequences, and those of the updates are no longer   *)
(* than the log.                                                           *)
STyped ==
  /\ phase \in [Arrivals -> {"choose", "create", "write", "log", "end"}]
  /\ paths \in [Arrivals -> Seq(Seq(Nat))]
  /\ \A t \in Arrivals : Len(paths[t]) <= Len(Asked[t])
  /\ \A p \in DOMAIN folder : folder[p] \subseteq FileIds
  /\ DOMAIN rivals = DOMAIN folder
  /\ folder = [p \in DOMAIN folder |-> folder[p]]
  /\ rivals = [p \in DOMAIN folder |-> rivals[p]]
  /\ IsFiniteSet(DOMAIN folder)
  /\ result \in [Arrivals -> {"none", "completed", "error"}]

LTyped ==
  /\ log \in Seq(Arrivals) /\ Len(log) <= MaxHistory
  /\ snap \in [Updaters -> Seq(Arrivals)] /\ \A u \in Updaters : Len(snap[u]) <= MaxHistory
  /\ overtaken \subseteq opened /\ opened \subseteq Updaters /\ failed \subseteq Updaters
  /\ update \in [Updaters -> {"no", "read", "open"}]
  /\ edit \in Arrivals \union {"all"} /\ edits \in 0..MaxEdits

(* A transfer that is at a file has chosen its name, and is a rival for it *)
(* once there is a file of that name.                                      *)
AtFile(t) ==
  /\ phase[t] \in {"create", "write"} => paths[t] # <<>>
  /\ phase[t] = "write" => Last(paths[t]) \in DOMAIN folder
  /\ phase[t] \in {"create", "write"} /\ Last(paths[t]) \in DOMAIN folder =>
       t \in rivals[Last(paths[t])]

(* Entries are those of transfers that have ended, and in a list once.     *)
ListOK(s) == Once(s) /\ \A t \in Range(s) : phase[t] = "end"
Listed ==
  /\ ListOK(log)
  /\ \A u \in Updaters : ListOK(snap[u])
  /\ \A t \in Arrivals : update[t] # "no" => phase[t] = "log"

SInv ==
  /\ STyped /\ LTyped
  /\ \A t \in Arrivals : AtFile(t)
  /\ Listed

-----------------------------------------------------------------------------
LEMMA LeastOf ==
  ASSUME NEW T, T \subseteq Nat, T # {}
  PROVE  \E n \in T : \A m \in T : n <= m
<1>1. IsWellFoundedOn(OpToRel(<, Nat), Nat)
  BY NatLessThanWellFounded
<1>2. \E x \in T : \A y \in T : ~ (<<y, x>> \in OpToRel(<, Nat))
  BY <1>1, WFMin, Zenon
<1>3. \E x \in T : \A y \in T : ~ (y < x)
  BY <1>2, Zenon DEF OpToRel
<1>4. QED
  BY <1>3

(* One more name than there are files: one of them is free.                *)
LEMMA NameIsFree ==
  ASSUME NEW n \in Seq(Nat), IsFiniteSet(DOMAIN folder)
  PROVE  /\ FreeName(n) \in Seq(Nat)
         /\ FreeName(n) \notin DOMAIN folder
<1> DEFINE D == DOMAIN folder
           c == Cardinality(D)
           Free == {k \in 0 .. c : Numbered(n, k) \notin D}
           f == [k \in 0 .. c |-> Numbered(n, k)]
<1>1. c \in Nat
  BY FS_CardinalityType
<1>2. \A k \in Nat : Numbered(n, k) \in Seq(Nat)
  BY DEF Numbered
<1>3. \A j, k \in Nat : Numbered(n, j) = Numbered(n, k) => j = k
  <2> SUFFICES ASSUME NEW j \in Nat, NEW k \in Nat, Numbered(n, j) = Numbered(n, k)
               PROVE  j = k
    OBVIOUS
  <2>1. \A i \in Nat : Len(Append(n, i)) = Len(n) + 1 /\ Append(n, i)[Len(n) + 1] = i
    OBVIOUS
  <2>2. Len(n) \in Nat
    OBVIOUS
  <2>3. CASE j = 0 /\ k = 0
    BY <2>3
  <2>4. CASE j # 0 /\ k # 0
    BY <2>1, <2>4 DEF Numbered
  <2>5. CASE j = 0 /\ k # 0
    <3>1. n = Append(n, k)
      BY <2>5 DEF Numbered
    <3>2. QED
      BY <2>1, <2>2, <3>1
  <2>6. CASE j # 0 /\ k = 0
    <3>1. n = Append(n, j)
      BY <2>6 DEF Numbered
    <3>2. QED
      BY <2>1, <2>2, <3>1
  <2>7. QED
    BY <2>3, <2>4, <2>5, <2>6
<1>4. Free # {}
  <2> SUFFICES ASSUME Free = {} PROVE FALSE
    OBVIOUS
  <2>1. f \in Injection(0 .. c, D)
    <3>1. f \in [0 .. c -> D]
      OBVIOUS
    <3>2. \A j, k \in 0 .. c : f[j] = f[k] => j = k
      BY <1>1, <1>3
    <3>3. QED
      BY <3>1, <3>2 DEF Injection, IsInjective
  <2>2. IsFiniteSet(0 .. c) /\ Cardinality(0 .. c) = c + 1
    BY <1>1, FS_Interval
  <2>3. Cardinality(0 .. c) <= c
    BY <2>1, FS_Injection
  <2>4. QED
    BY <1>1, <2>2, <2>3
<1>5. PICK k \in Free : \A j \in Free : k <= j
  <2>1. Free \subseteq Nat
    BY <1>1
  <2>2. QED
    BY <1>4, <2>1, LeastOf, Zenon
<1>6. /\ k \in 0 .. c /\ Numbered(n, k) \notin D
      /\ \A j \in 0 .. k - 1 : Numbered(n, j) \in D
  BY <1>1, <1>5
<1> HIDE DEF c, D, Free, f
<1>7. \E m \in 0 .. c : Numbered(n, m) \notin D /\ \A j \in 0 .. m - 1 : Numbered(n, j) \in D
  BY <1>6
<1>8. PICK m : /\ m \in 0 .. c /\ Numbered(n, m) \notin D
               /\ FreeName(n) = Numbered(n, m)
  BY <1>7 DEF FreeName, c, D
<1>9. QED
  BY <1>1, <1>2, <1>8 DEF D

-----------------------------------------------------------------------------
(* The files. *)

LEMMA ChosenLast ==
  ASSUME NEW S, NEW s \in Seq(S), NEW x \in S
  PROVE  /\ Append(s, x) \in Seq(S) /\ Append(s, x) # <<>>
         /\ Len(Append(s, x)) = Len(s) + 1
         /\ Last(Append(s, x)) = x
  BY DEF Last

LEMMA ChooseKeeps ==
  ASSUME SInv, NEW t \in Arrivals, Choose(t)
  PROVE  STyped' /\ \A x \in Arrivals : AtFile(x)'
<1> DEFINE n == Asked[t][Len(paths[t]) + 1]
           p == FreeName(n)
<1> USE DEF SInv, STyped
<1>1. n \in Seq(Nat)
  <2>1. Asked[t] \in Seq(Seq(Nat)) /\ Len(paths[t]) \in Nat
    BY SavedAssumption
  <2>2. Len(paths[t]) + 1 \in 1 .. Len(Asked[t])
    BY <2>1 DEF Choose
  <2>3. QED
    BY <2>1, <2>2
<1>2. p \in Seq(Nat) /\ p \notin DOMAIN folder
  BY <1>1, NameIsFree
<1> HIDE DEF n, p
<1>3. /\ paths' = [paths EXCEPT ![t] = Append(paths[t], p)]
      /\ phase' = [phase EXCEPT ![t] = "create"]
      /\ folder' = folder /\ rivals' = rivals /\ result' = result
      /\ Len(paths[t]) < Len(Asked[t])
  BY DEF Choose, n, p
<1>4. /\ Append(paths[t], p) \in Seq(Seq(Nat)) /\ Append(paths[t], p) # <<>>
      /\ Len(Append(paths[t], p)) = Len(paths[t]) + 1 /\ Last(Append(paths[t], p)) = p
  <2>1. paths[t] \in Seq(Seq(Nat))
    OBVIOUS
  <2> DEFINE s == paths[t]
  <2>2. s \in Seq(Seq(Nat)) /\ p \in Seq(Nat)
    BY <1>2, <2>1
  <2> HIDE DEF s, SInv, STyped
  <2>3. /\ Append(s, p) \in Seq(Seq(Nat)) /\ Append(s, p) # <<>>
        /\ Len(Append(s, p)) = Len(s) + 1 /\ Last(Append(s, p)) = p
    BY <2>2, ChosenLast
  <2>4. QED
    BY <2>3 DEF s
<1>5. Len(paths[t]) + 1 <= Len(Asked[t])
  <2>1. Asked[t] \in Seq(Seq(Nat)) /\ paths[t] \in Seq(Seq(Nat))
    BY SavedAssumption
  <2>2. Len(Asked[t]) \in Nat /\ Len(paths[t]) \in Nat
    BY <2>1
  <2>3. QED
    BY <1>3, <2>2
<1>6. STyped'
  BY <1>3, <1>4, <1>5
<1>7. ASSUME NEW x \in Arrivals
      PROVE  AtFile(x)'
  <2>1. CASE x = t
    <3>1. paths'[x] # <<>> /\ Last(paths'[x]) = p /\ phase'[x] = "create"
      BY <1>3, <1>4, <2>1
    <3>2. QED
      BY <1>2, <1>3, <3>1 DEF AtFile
  <2>2. CASE x # t
    <3>1. paths'[x] = paths[x] /\ phase'[x] = phase[x]
      BY <1>3, <2>2
    <3>2. QED
      BY <1>3, <3>1 DEF AtFile
  <2>3. QED
    BY <2>1, <2>2
<1>8. QED
  BY <1>6, <1>7

(* A file that appears has all those for rivals that had chosen its name.  *)
LEMMA CreateKeeps ==
  ASSUME SInv, NEW t \in Arrivals, Create(t)
  PROVE  STyped' /\ \A x \in Arrivals : AtFile(x)'
<1> DEFINE p == Last(paths[t])
<1> USE DEF SInv
<1>1. CASE /\ folder' = [q \in DOMAIN folder \union {p} |-> IF q = p THEN {} ELSE folder[q]]
           /\ rivals' = [q \in DOMAIN folder'  |-> IF q \in DOMAIN folder THEN rivals[q] ELSE Choosers(p)]
           /\ phase' = [phase EXCEPT ![t] = "write"]
  <2>1. /\ paths' = paths /\ result' = result /\ phase[t] = "create"
        /\ phase' = [phase EXCEPT ![t] = "write"]
    BY <1>1 DEF Create
  <2>2. /\ DOMAIN folder' = DOMAIN folder \union {p} /\ DOMAIN rivals' = DOMAIN folder'
        /\ \A q \in DOMAIN folder' : folder'[q] = IF q = p THEN {} ELSE folder[q]
        /\ \A q \in DOMAIN folder' : rivals'[q] = IF q \in DOMAIN folder THEN rivals[q] ELSE Choosers(p)
    BY <1>1
  <2>3. IsFiniteSet(DOMAIN folder')
    <3>1. IsFiniteSet(DOMAIN folder)
      BY DEF STyped
    <3>2. IsFiniteSet(DOMAIN folder \union {p})
      BY <3>1, FS_AddElement, Zenon
    <3>3. QED
      BY <2>2, <3>2
  <2>4. STyped'
    BY <1>1, <2>1, <2>2, <2>3 DEF STyped
  <2>5. ASSUME NEW x \in Arrivals
        PROVE  AtFile(x)'
    <3>1. /\ phase'[x] = IF x = t THEN "write" ELSE phase[x]
          /\ paths'[x] = paths[x]
      BY <2>1 DEF STyped
    <3>2. phase[x] = "create" /\ Last(paths[x]) = p => x \in Choosers(p)
      BY DEF Choosers
    <3>3. CASE x = t
      BY <2>1, <2>2, <3>1, <3>2, <3>3 DEF AtFile
    <3>4. CASE x # t
      <4>1. phase[x] = "write" => Last(paths[x]) \in DOMAIN folder
        BY DEF AtFile
      <4>2. phase[x] \in {"create", "write"} /\ Last(paths[x]) \in DOMAIN folder =>
              x \in rivals[Last(paths[x])]
        BY DEF AtFile
      <4>3. phase[x] \in {"create", "write"} => paths[x] # <<>>
        BY DEF AtFile
      <4>4. phase'[x] = phase[x] /\ Last(paths'[x]) = Last(paths[x])
        BY <3>1, <3>4
      <4>5. phase'[x] = "write" => Last(paths'[x]) \in DOMAIN folder'
        BY <2>2, <4>1, <4>4
      <4>6. phase'[x] \in {"create", "write"} /\ Last(paths'[x]) \in DOMAIN folder' =>
              x \in rivals'[Last(paths'[x])]
        BY <2>2, <3>2, <4>1, <4>2, <4>4
      <4>7. QED
        BY <3>1, <4>3, <4>4, <4>5, <4>6 DEF AtFile
    <3>5. QED
      BY <3>3, <3>4
  <2>6. QED
    BY <2>4, <2>5
<1>2. CASE phase' = [phase EXCEPT ![t] = "end"] /\ UNCHANGED <<folder, rivals>>
  <2>1. paths' = paths /\ result' = result
    BY DEF Create
  <2>2. QED
    BY <1>2, <2>1 DEF AtFile, STyped
<1>3. QED
  BY <1>1, <1>2 DEF Create

LEMMA WriteKeeps ==
  ASSUME SInv, NEW t \in Arrivals, Write(t)
  PROVE  STyped' /\ \A x \in Arrivals : AtFile(x)'
<1> DEFINE p == Last(paths[t])
           new == folder[p] \union {<<t, Len(paths[t])>>}
<1> USE DEF SInv
<1>1. /\ paths' = paths /\ rivals' = rivals /\ folder' = [folder EXCEPT ![p] = new]
      /\ phase[t] = "write"
      /\ phase' \in {[phase EXCEPT ![t] = "choose"], [phase EXCEPT ![t] = "log"]}
      /\ result' \in {result, [result EXCEPT ![t] = "completed"], [result EXCEPT ![t] = "error"]}
  BY DEF Write
<1>2. p \in DOMAIN folder /\ paths[t] # <<>>
  BY <1>1 DEF AtFile
<1>3. <<t, Len(paths[t])>> \in FileIds
  <2>1. Asked[t] \in Seq(Seq(Nat)) /\ paths[t] \in Seq(Seq(Nat)) /\ Len(paths[t]) <= Len(Asked[t])
    BY SavedAssumption DEF STyped
  <2>2. Len(paths[t]) \in DOMAIN Asked[t]
    BY <1>2, <2>1
  <2>3. QED
    BY <2>2 DEF FileIds
<1>4. /\ DOMAIN folder' = DOMAIN folder
      /\ \A q \in DOMAIN folder : folder'[q] = IF q = p THEN new ELSE folder[q]
  BY <1>1, <1>2
<1>5. new \subseteq FileIds
  BY <1>2, <1>3 DEF STyped
<1>6. STyped'
  <2>1. \A q \in DOMAIN folder' : folder'[q] \subseteq FileIds
    BY <1>4, <1>5 DEF STyped
  <2>2. folder' = [q \in DOMAIN folder' |-> folder'[q]]
    BY <1>1
  <2> HIDE DEF new, p
  <2>3. QED
    BY <1>1, <1>4, <2>1, <2>2 DEF STyped
<1>7. ASSUME NEW x \in Arrivals
      PROVE  AtFile(x)'
  <2>1. paths'[x] = paths[x] /\ (phase'[x] \in {"create", "write"} => phase'[x] = phase[x])
    BY <1>1 DEF STyped
  <2>2. QED
    BY <1>1, <1>4, <2>1 DEF AtFile
<1>8. QED
  BY <1>6, <1>7

-----------------------------------------------------------------------------
(* The log. *)

LEMMA RemovedAt ==
  ASSUME NEW S, NEW s \in Seq(S), NEW i \in DOMAIN s
  PROVE  /\ RemoveAt(s, i) \in Seq(S) /\ Len(RemoveAt(s, i)) = Len(s) - 1
         /\ \A j \in 1 .. Len(s) - 1 : RemoveAt(s, i)[j] = IF j < i THEN s[j] ELSE s[j + 1]
<1>1. Len(s) \in Nat /\ i \in 1 .. Len(s)
  OBVIOUS
<1>2. /\ SubSeq(s, 1, i - 1) \in Seq(S) /\ Len(SubSeq(s, 1, i - 1)) = i - 1
      /\ \A j \in 1 .. i - 1 : SubSeq(s, 1, i - 1)[j] = s[j]
  BY <1>1
<1>3. /\ SubSeq(s, i + 1, Len(s)) \in Seq(S) /\ Len(SubSeq(s, i + 1, Len(s))) = Len(s) - i
      /\ \A j \in 1 .. Len(s) - i : SubSeq(s, i + 1, Len(s))[j] = s[i + j]
  BY <1>1
<1> DEFINE a == SubSeq(s, 1, i - 1)
           b == SubSeq(s, i + 1, Len(s))
<1>4. a \in Seq(S) /\ b \in Seq(S) /\ Len(a) = i - 1 /\ Len(b) = Len(s) - i
  BY <1>2, <1>3
<1>5. /\ \A j \in 1 .. i - 1 : a[j] = s[j]
      /\ \A j \in 1 .. Len(s) - i : b[j] = s[i + j]
  BY <1>2, <1>3
<1>6. RemoveAt(s, i) = a \o b
  BY DEF RemoveAt
<1> HIDE DEF a, b
<1>7. /\ a \o b \in Seq(S) /\ Len(a \o b) = Len(s) - 1
      /\ \A j \in 1 .. Len(s) - 1 : (a \o b)[j] = IF j <= Len(a) THEN a[j] ELSE b[j - Len(a)]
  BY <1>1, <1>4
<1>8. ASSUME NEW j \in 1 .. Len(s) - 1
      PROVE  (a \o b)[j] = IF j < i THEN s[j] ELSE s[j + 1]
  <2>1. (a \o b)[j] = IF j <= i - 1 THEN a[j] ELSE b[j - (i - 1)]
    BY <1>4, <1>7
  <2>2. CASE j < i
    BY <1>1, <1>5, <2>1, <2>2
  <2>3. CASE j >= i
    <3>1. j - (i - 1) \in 1 .. Len(s) - i /\ i + (j - (i - 1)) = j + 1
      BY <1>1, <2>3
    <3>2. b[j - (i - 1)] = s[i + (j - (i - 1))]
      BY <1>5, <3>1
    <3>3. QED
      BY <1>1, <2>1, <2>3, <3>1, <3>2
  <2>4. j < i \/ j >= i
    BY <1>1
  <2>5. QED
    BY <2>2, <2>3, <2>4, Zenon
<1>9. QED
  BY <1>6, <1>7, <1>8

LEMMA WithoutTakesOne ==
  ASSUME NEW S, NEW s \in Seq(S), Once(s), NEW e
  PROVE  /\ Without(s, e) \in Seq(S) /\ Len(Without(s, e)) <= Len(s) /\ Once(Without(s, e))
         /\ Range(Without(s, e)) = Range(s) \ {e}
<1>1. Len(s) \in Nat /\ DOMAIN s = 1 .. Len(s)
  OBVIOUS
<1>2. CASE e \notin Range(s)
  BY <1>1, <1>2 DEF Without
<1>3. CASE e \in Range(s)
  <2>1. \E i \in DOMAIN s : s[i] = e
    BY <1>3 DEF Range
  <2>2. PICK i \in DOMAIN s : s[i] = e /\ Without(s, e) = RemoveAt(s, i)
    BY <1>3, <2>1 DEF Without
  <2> DEFINE w == RemoveAt(s, i)
  <2>3. /\ w \in Seq(S) /\ Len(w) = Len(s) - 1
        /\ \A j \in 1 .. Len(s) - 1 : w[j] = IF j < i THEN s[j] ELSE s[j + 1]
    BY RemovedAt
  <2> HIDE DEF w
  <2>4. DOMAIN w = 1 .. Len(s) - 1
    BY <2>3
  <2>5. Once(w)
    BY <1>1, <2>2, <2>3, <2>4 DEF Once
  <2>6. \A j \in DOMAIN w : \E k \in DOMAIN s : w[j] = s[k] /\ k # i
    <3>1. ASSUME NEW j \in DOMAIN w
          PROVE  \E k \in DOMAIN s : w[j] = s[k] /\ k # i
      <4>1. CASE j < i
        BY <1>1, <2>2, <2>3, <2>4, <4>1
      <4>2. CASE j >= i
        <5>1. j + 1 \in DOMAIN s /\ w[j] = s[j + 1] /\ j + 1 # i
          BY <1>1, <2>2, <2>3, <2>4, <4>2
        <5>2. QED
          BY <5>1
      <4>3. QED
        BY <1>1, <2>2, <2>4, <4>1, <4>2
    <3>2. QED
      BY <3>1
  <2>7. \A k \in DOMAIN s : k # i => \E j \in DOMAIN w : w[j] = s[k]
    <3>1. ASSUME NEW k \in DOMAIN s, k # i
          PROVE  \E j \in DOMAIN w : w[j] = s[k]
      <4>1. CASE k < i
        BY <1>1, <2>2, <2>3, <2>4, <4>1
      <4>2. CASE k > i
        <5>1. k - 1 \in DOMAIN w /\ w[k - 1] = s[k]
          BY <1>1, <2>2, <2>3, <2>4, <4>2
        <5>2. QED
          BY <5>1
      <4>3. QED
        BY <1>1, <2>2, <3>1, <4>1, <4>2
    <3>2. QED
      BY <3>1
  <2>8. \A k \in DOMAIN s : s[k] = e <=> k = i
    BY <2>2 DEF Once
  <2>9. Range(w) = Range(s) \ {e}
    BY <2>6, <2>7, <2>8 DEF Range
  <2>10. QED
    BY <1>1, <2>2, <2>3, <2>5, <2>9 DEF w
<1>4. QED
  BY <1>2, <1>3

LEMMA FrontKeeps ==
  ASSUME NEW S, NEW s \in Seq(S), NEW x \in S, Once(s), x \notin Range(s), NEW n \in Nat \ {0},
         Len(s) <= n
  PROVE  LET all == <<x>> \o s
             new == SubSeq(all, 1, IF Len(all) > n THEN n ELSE Len(all))
         IN  /\ new \in Seq(S) /\ Len(new) <= n /\ Once(new)
             /\ Range(new) \subseteq Range(s) \union {x} /\ x \in Range(new)
             /\ \A e \in Range(s) \ Range(new) : Len(s) = n /\ e = Last(s)
<1> DEFINE all == <<x>> \o s
           m == IF Len(all) > n THEN n ELSE Len(all)
           new == SubSeq(all, 1, m)
<1>1. Len(s) \in Nat /\ DOMAIN s = 1 .. Len(s)
  OBVIOUS
<1>2. /\ all \in Seq(S) /\ Len(all) = Len(s) + 1
      /\ \A i \in 1 .. Len(s) + 1 : all[i] = IF i = 1 THEN x ELSE s[i - 1]
  BY <1>1
<1> HIDE DEF all
<1>3. m \in Nat /\ m >= 1 /\ m <= n /\ m <= Len(all)
  BY <1>1, <1>2
<1>4. m = Len(all) \/ (m = n /\ n = Len(s))
  <2>1. CASE Len(all) > n
    <3>1. m = n
      BY <2>1
    <3>2. Len(s) + 1 > n /\ Len(s) <= n /\ n \in Nat
      BY <1>2, <2>1
    <3> HIDE DEF m, new
    <3>3. n = Len(s)
      <4>1. Len(s) \in Nat
        BY <1>1
      <4>2. QED
        BY <3>2, <4>1
    <3>4. QED
      BY <3>1, <3>3
  <2>2. CASE ~(Len(all) > n)
    BY <2>2
  <2>3. QED
    BY <2>1, <2>2
<1> HIDE DEF m
<1>5. new \in Seq(S) /\ Len(new) = m /\ DOMAIN new = 1 .. m /\ \A i \in 1 .. m : new[i] = all[i]
  BY <1>2, <1>3
<1> HIDE DEF new
<1>6. \A i \in 1 .. m : new[i] = IF i = 1 THEN x ELSE s[i - 1]
  BY <1>1, <1>2, <1>3, <1>5
<1>7. \A i \in 2 .. m : i - 1 \in DOMAIN s
  BY <1>1, <1>2, <1>3
<1>8. \A i \in DOMAIN s : s[i] # x
  BY DEF Range
<1>9. Once(new)
  <2>1. ASSUME NEW i \in 1 .. m, NEW j \in 1 .. m, new[i] = new[j]
        PROVE  i = j
    <3>1. i = 1 <=> new[i] = x
      BY <1>3, <1>6, <1>7, <1>8
    <3>2. j = 1 <=> new[j] = x
      BY <1>3, <1>6, <1>7, <1>8
    <3>3. CASE i # 1 /\ j # 1
      <4>1. i - 1 \in DOMAIN s /\ j - 1 \in DOMAIN s /\ s[i - 1] = s[j - 1]
        BY <1>3, <1>6, <1>7, <2>1, <3>3
      <4>2. i - 1 = j - 1
        BY <4>1 DEF Once
      <4>3. QED
        BY <1>3, <4>2
    <3>4. QED
      BY <2>1, <3>1, <3>2, <3>3
  <2>2. QED
    BY <1>5, <2>1 DEF Once
<1>10. Range(new) \subseteq Range(s) \union {x}
  BY <1>3, <1>5, <1>6, <1>7 DEF Range
<1>11. x \in Range(new)
  BY <1>3, <1>5, <1>6 DEF Range
<1>12. ASSUME NEW e \in Range(s) \ Range(new)
       PROVE  Len(s) = n /\ e = Last(s)
  <2>1. PICK i \in DOMAIN s : s[i] = e
    BY DEF Range
  <2>2. i + 1 \notin 1 .. m
    <3>1. i + 1 \in 1 .. m => new[i + 1] = s[i]
      BY <1>1, <1>6
    <3>2. QED
      BY <1>5, <2>1, <3>1 DEF Range
  <2>3. i + 1 > m /\ i <= Len(s)
    BY <1>1, <1>3, <2>2
  <2>4. m = n /\ n = Len(s) /\ i = Len(s)
    <3>1. i \in Nat
      BY <1>1
    <3>2. m # Len(all)
      BY <1>1, <1>2, <1>3, <2>3, <3>1
    <3>3. m = n /\ n = Len(s)
      BY <1>4, <3>2
    <3>4. QED
      BY <1>1, <1>3, <2>3, <3>1, <3>3
  <2>5. QED
    BY <2>1, <2>4 DEF Last
<1>13. QED
  BY <1>3, <1>5, <1>9, <1>10, <1>11, <1>12 DEF new, m, all

LEMMA NewListIs ==
  ASSUME SInv, NEW u \in Updaters, update[u] = "open"
  PROVE  /\ NewList(u) \in Seq(Arrivals) /\ Len(NewList(u)) <= MaxHistory /\ Once(NewList(u))
         /\ Range(NewList(u)) \subseteq Range(snap[u]) \union ({u} \ {User})
         /\ u # User => u \in Range(NewList(u))
         /\ \A t \in Range(snap[u]) \ Range(NewList(u)) :
              \/ u = User /\ edit \in {t, "all"}
              \/ u # User /\ Len(snap[u]) = MaxHistory /\ t = Last(snap[u])
<1> DEFINE s == snap[u]
<1>1. s \in Seq(Arrivals) /\ Len(s) <= MaxHistory /\ Once(s) /\ \A t \in Range(s) : phase[t] = "end"
  BY DEF SInv, LTyped, Listed, ListOK
<1>2. MaxHistory \in Nat \ {0}
  BY SavedAssumption
<1> HIDE DEF s
<1>3. CASE u = User
  <2>1. CASE edit = "all"
    <3>1. NewList(u) = <<>>
      BY <1>3, <2>1 DEF NewList
    <3>2. <<>> \in Seq(Arrivals) /\ Len(<<>>) = 0 /\ Once(<<>>) /\ Range(<<>>) = {}
      BY DEF Once, Range
    <3>3. QED
      BY <1>2, <1>3, <2>1, <3>1, <3>2
  <2>2. CASE edit # "all"
    <3>1. NewList(u) = Without(s, edit)
      BY <1>3, <2>2 DEF NewList, s
    <3>2. /\ Without(s, edit) \in Seq(Arrivals) /\ Len(Without(s, edit)) <= Len(s)
          /\ Once(Without(s, edit)) /\ Range(Without(s, edit)) = Range(s) \ {edit}
      BY <1>1, WithoutTakesOne, Zenon
    <3>3. Len(Without(s, edit)) \in Nat /\ Len(s) \in Nat
      BY <1>1, <3>2
    <3>4. Len(Without(s, edit)) <= MaxHistory
      BY <1>1, <1>2, <3>2, <3>3
    <3>5. QED
      BY <1>3, <3>1, <3>2, <3>4 DEF s
  <2>3. QED
    BY <2>1, <2>2
<1>4. CASE u # User
  <2> DEFINE all == <<u>> \o s
             new == SubSeq(all, 1, IF Len(all) > MaxHistory THEN MaxHistory ELSE Len(all))
  <2>1. NewList(u) = new
    BY <1>4 DEF NewList, s
  <2>2. u \in Arrivals /\ u \notin Range(s)
    <3>1. u \in Arrivals
      BY <1>4 DEF Updaters
    <3>2. phase[u] = "log"
      BY <3>1 DEF SInv, Listed
    <3>3. QED
      BY <1>1, <3>1, <3>2
  <2>3. /\ new \in Seq(Arrivals) /\ Len(new) <= MaxHistory /\ Once(new)
        /\ Range(new) \subseteq Range(s) \union {u} /\ u \in Range(new)
        /\ \A e \in Range(s) \ Range(new) : Len(s) = MaxHistory /\ e = Last(s)
    BY <1>1, <1>2, <2>2, FrontKeeps
  <2> HIDE DEF new
  <2>4. QED
    BY <1>4, <2>1, <2>3 DEF s
<1>5. QED
  BY <1>3, <1>4

LEMMA ReadableIs ==
  ASSUME SInv
  PROVE  Readable \in Seq(Arrivals) /\ Len(Readable) <= MaxHistory /\ ListOK(Readable)
<1>1. <<>> \in Seq(Arrivals) /\ Len(<<>>) = 0 /\ ListOK(<<>>)
  BY DEF ListOK, Once, Range
<1>2. log \in Seq(Arrivals) /\ Len(log) <= MaxHistory /\ ListOK(log)
  BY DEF SInv, LTyped, Listed
<1>3. MaxHistory \in Nat
  BY SavedAssumption
<1>4. QED
  BY <1>1, <1>2, <1>3 DEF Readable

(* Once a transfer has ended it stays so, and lists stay what they are.    *)
LEMMA ListStays ==
  ASSUME NEW s, ListOK(s), \A t \in Arrivals : phase[t] = "end" => phase'[t] = "end",
         s \in Seq(Arrivals)
  PROVE  Once(s) /\ \A t \in Range(s) : phase'[t] = "end"
<1>1. Range(s) \subseteq Arrivals
  BY DEF Range
<1>2. QED
  BY <1>1 DEF ListOK

LEMMA FileStepKeepsLog ==
  ASSUME SInv, NEW t \in Arrivals, Choose(t) \/ Create(t) \/ Write(t)
  PROVE  LTyped' /\ Listed'
<1>1. UNCHANGED logVars
  BY DEF Choose, Create, Write
<1>2. /\ phase[t] \in {"choose", "create", "write"}
      /\ \E x : phase' = [phase EXCEPT ![t] = x]
  <2>1. CASE Choose(t)
    BY <2>1 DEF Choose
  <2>2. CASE Create(t)
    BY <2>2 DEF Create
  <2>3. CASE Write(t)
    BY <2>3 DEF Write
  <2>4. QED
    BY <2>1, <2>2, <2>3
<1>3. \A x \in Arrivals : phase[x] \in {"end", "log"} => phase'[x] = phase[x]
  BY <1>2 DEF SInv, STyped
<1>4. LTyped'
  BY <1>1 DEF logVars, SInv, LTyped
<1>5. Listed'
  <2>1. \A x \in Arrivals : phase[x] = "end" => phase'[x] = "end"
    BY <1>3
  <2>2. Once(log) /\ \A x \in Range(log) : phase'[x] = "end"
    BY <2>1, ListStays DEF SInv, LTyped, Listed
  <2>3. \A u \in Updaters : Once(snap[u]) /\ \A x \in Range(snap[u]) : phase'[x] = "end"
    <3>1. ASSUME NEW u \in Updaters
          PROVE  Once(snap[u]) /\ \A x \in Range(snap[u]) : phase'[x] = "end"
      <4>1. snap[u] \in Seq(Arrivals) /\ ListOK(snap[u])
        BY DEF SInv, LTyped, Listed
      <4>2. QED
        BY <2>1, <4>1, ListStays
    <3>2. QED
      BY <3>1
  <2>4. \A x \in Arrivals : update[x] # "no" => phase'[x] = "log"
    BY <1>3 DEF SInv, Listed
  <2>5. log' = log /\ snap' = snap /\ update' = update
    BY <1>1 DEF logVars
  <2>6. QED
    BY <2>2, <2>3, <2>4, <2>5 DEF Listed, ListOK
<1>6. QED
  BY <1>4, <1>5

LEMMA StartKeeps ==
  ASSUME SInv, NEW u \in Updaters, StartUpdate(u), UNCHANGED <<fileVars, log, opened, overtaken>>,
         edit' \in Arrivals \union {"all"}, edits' \in 0..MaxEdits,
         u \in Arrivals => phase[u] = "log"
  PROVE  SInv'
<1>1. /\ update[u] = "no" /\ update' = [update EXCEPT ![u] = "read"]
      /\ snap' = [snap EXCEPT ![u] = Readable] /\ failed' = failed \ {u}
  BY DEF StartUpdate
<1>2. Readable \in Seq(Arrivals) /\ Len(Readable) <= MaxHistory /\ ListOK(Readable)
  BY ReadableIs
<1>3. /\ phase' = phase /\ paths' = paths /\ folder' = folder /\ rivals' = rivals /\ result' = result
      /\ log' = log /\ opened' = opened /\ overtaken' = overtaken
  BY DEF fileVars
<1>4. STyped' /\ \A t \in Arrivals : AtFile(t)'
  BY <1>3 DEF SInv, STyped, AtFile
<1>5. \A x \in Updaters : /\ snap'[x] = IF x = u THEN Readable ELSE snap[x]
                          /\ update'[x] = IF x = u THEN "read" ELSE update[x]
  BY <1>1 DEF SInv, LTyped
<1>6. LTyped'
  BY <1>1, <1>2, <1>3, <1>5 DEF SInv, LTyped
<1>7. Listed'
  <2>1. \A x \in Updaters : ListOK(snap'[x])
    BY <1>2, <1>5 DEF SInv, Listed
  <2>2. \A x \in Arrivals : update'[x] # "no" => phase[x] = "log"
    BY <1>5 DEF SInv, Listed, Updaters
  <2>3. QED
    BY <1>3, <2>1, <2>2 DEF SInv, Listed, ListOK
<1>8. QED
  BY <1>4, <1>6, <1>7 DEF SInv

LEMMA TruncateKeeps ==
  ASSUME SInv, NEW u \in Updaters, Truncate(u)
  PROVE  SInv'
<1>1. /\ update[u] = "read" /\ update' = [update EXCEPT ![u] = "open"]
      /\ opened' = opened \union {u}
      /\ UNCHANGED <<phase, paths, folder, rivals, result, log, overtaken, failed, snap, edit, edits>>
  BY DEF Truncate, fileVars
<1>2. STyped' /\ \A t \in Arrivals : AtFile(t)'
  BY <1>1 DEF SInv, STyped, AtFile
<1>3. LTyped'
  BY <1>1 DEF SInv, LTyped
<1>4. \A x \in Updaters : update'[x] = IF x = u THEN "open" ELSE update[x]
  BY <1>1 DEF SInv, LTyped
<1>5. \A t \in Arrivals : update'[t] # "no" => phase[t] = "log"
  BY <1>1, <1>4 DEF SInv, Listed, Updaters
<1>6. Listed'
  BY <1>1, <1>5 DEF SInv, Listed, ListOK
<1>7. QED
  BY <1>2, <1>3, <1>6 DEF SInv

(* An update that ends leaves in the log what it knew or what is there.    *)
LEMMA UpdateEndsKeeps ==
  ASSUME SInv, NEW u \in Updaters, update[u] # "no", UpdateEnds(u),
         log' \in Seq(Arrivals), Len(log') <= MaxHistory, Once(log'),
         Range(log') \subseteq Range(log) \union Range(snap[u]) \union ({u} \ {User}),
         overtaken' \subseteq opened', opened' \subseteq Updaters, failed' \subseteq Updaters
  PROVE  SInv'
<1>1. /\ update' = [update EXCEPT ![u] = "no"]
      /\ phase' = IF u = User THEN phase ELSE [phase EXCEPT ![u] = "end"]
      /\ UNCHANGED <<paths, folder, rivals, result, snap, edit, edits>>
  BY DEF UpdateEnds
<1>3. \A t \in Arrivals : phase'[t] = IF t = u THEN "end" ELSE phase[t]
  BY <1>1, SavedAssumption DEF SInv, STyped
<1>4. \A t \in Arrivals : t = u => phase[t] = "log"
  BY DEF SInv, Listed
<1>5. STyped' /\ \A t \in Arrivals : AtFile(t)'
  <2>1. STyped'
    BY <1>1 DEF SInv, STyped
  <2>2. \A t \in Arrivals : phase'[t] \in {"create", "write"} => phase'[t] = phase[t]
    BY <1>3
  <2>3. QED
    BY <1>1, <2>1, <2>2 DEF SInv, AtFile
<1>6. LTyped'
  BY <1>1 DEF SInv, LTyped
<1>7. Listed'
  <2>1. \A t \in Arrivals : phase[t] = "end" => phase'[t] = "end"
    BY <1>3
  <2>2. ASSUME NEW s \in Seq(Arrivals), ListOK(s)
        PROVE  Once(s) /\ \A t \in Range(s) : phase'[t] = "end"
    BY <2>1, <2>2, ListStays
  <2>3. \A x \in Updaters : Once(snap[x]) /\ \A t \in Range(snap[x]) : phase'[t] = "end"
    BY <2>2 DEF SInv, LTyped, Listed
  <2>4. \A t \in Range(log) : phase'[t] = "end"
    BY <2>2 DEF SInv, LTyped, Listed
  <2>5. \A t \in Range(log') : phase'[t] = "end"
    <3>1. u # User => phase'[u] = "end"
      BY <1>3 DEF Updaters
    <3>2. QED
      BY <2>3, <2>4, <3>1
  <2>6. \A t \in Arrivals : update'[t] # "no" => t # u /\ update[t] # "no"
    BY <1>1 DEF SInv, LTyped, Updaters
  <2>7. \A t \in Arrivals : update'[t] # "no" => phase'[t] = "log"
    BY <1>3, <2>6 DEF SInv, Listed
  <2>8. QED
    BY <1>1, <2>3, <2>5, <2>7 DEF Listed, ListOK
<1>8. QED
  BY <1>5, <1>6, <1>7 DEF SInv

LEMMA WriteLogKeeps ==
  ASSUME SInv, NEW u \in Updaters, WriteLog(u)
  PROVE  SInv'
<1>1. /\ update[u] = "open" /\ UpdateEnds(u) /\ log' \in {log, <<>>, NewList(u)}
      /\ opened' = opened \ {u} /\ overtaken' = (overtaken \ {u}) \union opened'
      /\ failed' \in {failed, failed \union {u}}
  BY DEF WriteLog
<1>2. /\ NewList(u) \in Seq(Arrivals) /\ Len(NewList(u)) <= MaxHistory /\ Once(NewList(u))
      /\ Range(NewList(u)) \subseteq Range(snap[u]) \union ({u} \ {User})
  BY <1>1, NewListIs
<1>3. <<>> \in Seq(Arrivals) /\ Len(<<>>) <= MaxHistory /\ Once(<<>>) /\ Range(<<>>) = {}
  BY SavedAssumption DEF Once, Range
<1>4. log \in Seq(Arrivals) /\ Len(log) <= MaxHistory /\ Once(log)
  BY DEF SInv, LTyped, Listed, ListOK
<1>5. /\ log' \in Seq(Arrivals) /\ Len(log') <= MaxHistory /\ Once(log')
      /\ Range(log') \subseteq Range(log) \union Range(snap[u]) \union ({u} \ {User})
  <2>1. CASE log' = log
    BY <1>4, <2>1
  <2>2. CASE log' = <<>>
    BY <1>3, <2>2
  <2>3. CASE log' = NewList(u)
    BY <1>2, <2>3
  <2>4. QED
    BY <1>1, <2>1, <2>2, <2>3
<1>6. /\ overtaken' \subseteq opened' /\ opened' \subseteq Updaters /\ failed' \subseteq Updaters
  BY <1>1 DEF SInv, LTyped
<1>7. QED
  BY <1>1, <1>5, <1>6, UpdateEndsKeeps

LEMMA OpenFailsKeeps ==
  ASSUME SInv, NEW u \in Updaters, OpenFails(u)
  PROVE  SInv'
<1>1. /\ update[u] # "no" /\ UpdateEnds(u) /\ failed' = failed \union {u}
      /\ UNCHANGED <<log, opened, overtaken>>
  BY DEF OpenFails
<1>2. /\ log' \in Seq(Arrivals) /\ Len(log') <= MaxHistory /\ Once(log')
      /\ Range(log') \subseteq Range(log) \union Range(snap[u]) \union ({u} \ {User})
      /\ overtaken' \subseteq opened' /\ opened' \subseteq Updaters /\ failed' \subseteq Updaters
  BY <1>1 DEF SInv, LTyped, Listed, ListOK
<1>3. QED
  BY <1>1, <1>2, UpdateEndsKeeps

LEMMA SavedInitKeeps ==
  SavedInit => SInv
<1> SUFFICES ASSUME SavedInit PROVE SInv
  OBVIOUS
<1> USE DEF SavedInit
<1>1. <<>> \in Seq(Arrivals) /\ <<>> \in Seq(Seq(Nat)) /\ Len(<<>>) = 0 /\ Range(<<>>) = {}
  BY DEF Range
<1>2. \A t \in Arrivals : paths[t] = <<>> /\ Len(paths[t]) <= Len(Asked[t])
  <2>1. \A t \in Arrivals : Asked[t] \in Seq(Seq(Nat))
    BY SavedAssumption
  <2>2. QED
    BY <1>1, <2>1
<1>3. STyped
  BY <1>1, <1>2, SavedAssumption DEF STyped
<1>4. LTyped
  BY <1>1, SavedAssumption DEF LTyped
<1>5. \A t \in Arrivals : AtFile(t)
  BY DEF AtFile
<1>6. Listed
  BY <1>1 DEF Listed, ListOK, Once, Updaters
<1>7. QED
  BY <1>3, <1>4, <1>5, <1>6 DEF SInv

LEMMA SavedStepKeeps ==
  SInv /\ [SavedNext]_sVars => SInv'
<1> SUFFICES ASSUME SInv, [SavedNext]_sVars PROVE SInv'
  OBVIOUS
<1>1. ASSUME NEW t \in Arrivals, Choose(t) \/ Create(t) \/ Write(t)
      PROVE  SInv'
  <2>1. STyped' /\ \A x \in Arrivals : AtFile(x)'
    BY <1>1, ChooseKeeps, CreateKeeps, WriteKeeps
  <2>2. LTyped' /\ Listed'
    BY <1>1, FileStepKeepsLog
  <2>3. QED
    BY <2>1, <2>2 DEF SInv
<1>2. ASSUME NEW t \in Arrivals, LogEntry(t)
      PROVE  SInv'
  <2>1. /\ t \in Updaters /\ StartUpdate(t) /\ phase[t] = "log"
        /\ UNCHANGED <<fileVars, log, opened, overtaken>> /\ edit' = edit /\ edits' = edits
    BY <1>2 DEF LogEntry, Updaters
  <2>2. edit' \in Arrivals \union {"all"} /\ edits' \in 0 .. MaxEdits
    BY <2>1 DEF SInv, LTyped
  <2>3. QED
    BY <2>1, <2>2, StartKeeps
<1>3. ASSUME NEW e \in Arrivals \union {"all"}, Edit(e)
      PROVE  SInv'
  <2>1. /\ User \in Updaters /\ User \notin Arrivals /\ StartUpdate(User)
        /\ UNCHANGED <<fileVars, log, opened, overtaken>>
        /\ edit' = e /\ edits' = edits + 1 /\ edits < MaxEdits
    BY <1>3, SavedAssumption DEF Edit, Updaters
  <2>2. edits' \in 0 .. MaxEdits
    BY <2>1, SavedAssumption DEF SInv, LTyped
  <2>3. QED
    BY <2>1, <2>2, StartKeeps
<1>4. ASSUME NEW u \in Updaters, Truncate(u) \/ OpenFails(u) \/ WriteLog(u)
      PROVE  SInv'
  BY <1>4, TruncateKeeps, OpenFailsKeeps, WriteLogKeeps
<1>5. CASE UNCHANGED sVars
  <2>1. STyped' /\ \A t \in Arrivals : AtFile(t)'
    BY <1>5 DEF sVars, SInv, STyped, AtFile
  <2>2. LTyped'
    BY <1>5 DEF sVars, SInv, LTyped
  <2>3. Listed'
    BY <1>5 DEF sVars, SInv, Listed, ListOK
  <2>4. QED
    BY <2>1, <2>2, <2>3 DEF SInv
<1>6. QED
  BY <1>1, <1>2, <1>3, <1>4, <1>5 DEF SavedNext

LEMMA SavedInvariant ==
  SavedSpec => []SInv
  BY SavedInitKeeps, SavedStepKeeps, PTL DEF SavedSpec

(* Every variable of the saved files and their log has its type, and a     *)
(* transfer's entry is in the log once.                                    *)
THEOREM SavedTypeCorrect ==
  SavedSpec => []SavedOK
<1>1. SInv => SavedOK
  BY DEF SInv, STyped, LTyped, SavedOK, Listed, ListOK
<1>2. QED
  BY <1>1, SavedInvariant, PTL

(* resolveUniqueFilePath, os.Create: whatever names files come under, a    *)
(* file is emptied or written only by a transfer that had chosen its name  *)
(* before the file was there.                                              *)
THEOREM FilesStayKept ==
  SavedSpec => FilesKept
<1>1. ASSUME SInv, SavedNext, NEW p \in DOMAIN folder, folder'[p] # folder[p]
      PROVE  \E t \in rivals[p] : phase[t] \in {"create", "write"} /\ Last(paths[t]) = p
  <2>1. PICK t \in Arrivals : Create(t) \/ Write(t)
    <3>1. ASSUME NEW t \in Arrivals, Choose(t) \/ LogEntry(t)
          PROVE  folder' = folder
      BY <3>1 DEF Choose, LogEntry, fileVars
    <3>2. ASSUME NEW e, Edit(e)
          PROVE  folder' = folder
      BY <3>2 DEF Edit, fileVars
    <3>3. ASSUME NEW u \in Updaters, Truncate(u) \/ OpenFails(u) \/ WriteLog(u)
          PROVE  folder' = folder
      BY <3>3 DEF Truncate, OpenFails, WriteLog, UpdateEnds, fileVars
    <3>4. QED
      BY <1>1, <3>1, <3>2, <3>3 DEF SavedNext
  <2>2. phase[t] \in {"create", "write"}
    BY <2>1 DEF Create, Write
  <2>3. Last(paths[t]) = p
    <3>1. CASE Create(t)
      BY <1>1, <3>1 DEF Create
    <3>2. CASE Write(t)
      BY <1>1, <3>2 DEF Write
    <3>3. QED
      BY <2>1, <3>1, <3>2
  <2>4. t \in rivals[p]
    BY <1>1, <2>2, <2>3 DEF SInv, AtFile
  <2>5. QED
    BY <2>2, <2>3, <2>4
<1>2. SInv /\ [SavedNext]_sVars =>
        [\A p \in DOMAIN folder : folder'[p] # folder[p] =>
           \E t \in rivals[p] : phase[t] \in {"create", "write"} /\ Last(paths[t]) = p]_sVars
  BY <1>1 DEF sVars
<1>3. QED
  BY <1>2, SavedInvariant, PTL DEF SavedSpec, FilesKept

(* logHistory, DeleteHistoryEntry: however updates of the log overlap, and *)
(* whichever fail, the entry a transfer logs is in the log afterwards, and *)
(* an entry is lost only by being deleted, by the limit, by an update that *)
(* had read the log without it, by one that failed or by one that wrote    *)
(* over another's.                                                         *)
THEOREM EntriesStayKept ==
  SavedSpec => EntriesKept
<1> DEFINE Taken(t, u) ==
             /\ update[u] = "open" /\ update'[u] = "no"
             /\ \/ u \in failed' \union overtaken
                \/ u = User /\ edit \in {t, "all"}
                \/ t \notin Range(snap[u])
                \/ u # User /\ Len(snap[u]) = MaxHistory /\ t = Last(snap[u])
           Logged(t) == update[t] # "no" /\ update'[t] = "no" =>
                          t \in Range(log') \union overtaken \union failed'
           Good == /\ \A t \in Arrivals : Logged(t)
                   /\ \A t \in Range(log) \ Range(log') : \E u \in Updaters : Taken(t, u)
<1>1. ASSUME SInv, SavedNext, ~ \E u \in Updaters : OpenFails(u) \/ WriteLog(u)
      PROVE  log' = log /\ \A x \in Updaters : update'[x] = "no" => update[x] = "no"
  <2>1. ASSUME NEW t \in Arrivals, Choose(t) \/ Create(t) \/ Write(t)
        PROVE  log' = log /\ update' = update
    BY <2>1 DEF Choose, Create, Write, logVars
  <2>2. ASSUME NEW u \in Updaters, StartUpdate(u)
        PROVE  \A x \in Updaters : update'[x] = "no" => update[x] = "no"
    BY <1>1, <2>2 DEF StartUpdate, SInv, LTyped
  <2>3. ASSUME NEW t \in Arrivals, LogEntry(t)
        PROVE  t \in Updaters /\ log' = log /\ StartUpdate(t)
    BY <2>3 DEF LogEntry, Updaters
  <2>4. ASSUME NEW e, Edit(e)
        PROVE  User \in Updaters /\ log' = log /\ StartUpdate(User)
    BY <2>4 DEF Edit, Updaters
  <2>5. ASSUME NEW u \in Updaters, Truncate(u)
        PROVE  log' = log /\ \A x \in Updaters : update'[x] = "no" => update[x] = "no"
    BY <1>1, <2>5 DEF Truncate, SInv, LTyped
  <2>6. QED
    BY <1>1, <2>1, <2>2, <2>3, <2>4, <2>5 DEF SavedNext
<1>2. ASSUME SInv, NEW u \in Updaters, OpenFails(u) \/ WriteLog(u)
      PROVE  /\ update[u] # "no" /\ update'[u] = "no"
             /\ \A x \in Updaters : update[x] # "no" /\ update'[x] = "no" => x = u
  BY <1>2 DEF OpenFails, WriteLog, UpdateEnds, SInv, LTyped
<1>3. ASSUME SInv, NEW u \in Updaters, OpenFails(u)
      PROVE  Good
  <2>1. log' = log /\ u \in failed'
    BY <1>3 DEF OpenFails
  <2>2. QED
    BY <1>2, <1>3, <2>1 DEF Updaters
<1>4. ASSUME SInv, NEW u \in Updaters, WriteLog(u)
      PROVE  Good
  <2>1. CASE u \in failed' \union overtaken
    <3>1. update[u] = "open" /\ update'[u] = "no"
      BY <1>2, <1>4 DEF WriteLog
    <3>2. QED
      BY <1>2, <1>4, <2>1, <3>1 DEF Updaters
  <2>2. CASE u \notin failed' \union overtaken
    <3>1. update[u] = "open" /\ log' = NewList(u)
      BY <1>4, <2>2 DEF WriteLog
    <3>2. /\ u # User => u \in Range(NewList(u))
          /\ \A t \in Range(snap[u]) \ Range(NewList(u)) :
                \/ u = User /\ edit \in {t, "all"}
                \/ u # User /\ Len(snap[u]) = MaxHistory /\ t = Last(snap[u])
      BY <1>4, <3>1, NewListIs
    <3>3. \A t \in Arrivals : update[t] # "no" /\ update'[t] = "no" => t = u /\ u # User
      BY <1>2, <1>4, SavedAssumption DEF Updaters
    <3>4. QED
      BY <1>2, <1>4, <3>1, <3>2, <3>3
  <2>3. QED
    BY <2>1, <2>2
<1>5. ASSUME SInv, SavedNext PROVE Good
  <2>1. CASE \E u \in Updaters : OpenFails(u) \/ WriteLog(u)
    BY <1>3, <1>4, <1>5, <2>1
  <2>2. CASE ~ \E u \in Updaters : OpenFails(u) \/ WriteLog(u)
    BY <1>1, <1>5, <2>2 DEF Updaters
  <2>3. QED
    BY <2>1, <2>2
<1>6. SInv /\ [SavedNext]_sVars =>
        [/\ \A t \in Arrivals : update[t] # "no" /\ update'[t] = "no" =>
              t \in Range(log') \union overtaken \union failed'
         /\ \A t \in Range(log) \ Range(log') :
           \E u \in Updaters :
             /\ update[u] = "open" /\ update'[u] = "no"
             /\ \/ u \in failed' \union overtaken
                \/ u = User /\ edit \in {t, "all"}
                \/ t \notin Range(snap[u])
                \/ u # User /\ Len(snap[u]) = MaxHistory /\ t = Last(snap[u])]_sVars
  BY <1>5
<1>7. QED
  BY <1>6, SavedInvariant, PTL DEF SavedSpec, EntriesKept
=============================================================================
