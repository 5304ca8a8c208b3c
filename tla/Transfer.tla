------------------------------ MODULE Transfer ------------------------------
(***************************************************************************)
(* File transfers: a sender offers the sizes of its files, waits for the   *)
(* receiver's verdict and streams the files one after another over the     *)
(* same connection; the receiver cuts the stream at the offered sizes.     *)
(*                                                                         *)
(*   computers   desktop/internal/transfer and the callbacks of app.go     *)
(*   phones      mobile/lib/services/transfer_service.dart                 *)
(*                                                                         *)
(* One byte of file f on the wire is the number f. A file on the sender's  *)
(* disk is its size, or None once it is gone. How a connection was dialed, *)
(* its encryption, the progress bars and the names of the saved files are  *)
(* left out.                                                               *)
(***************************************************************************)
EXTENDS Integers, Sequences

CONSTANTS
  Transfers,        \* the transfers that are attempted
  Computers, Phones,
  Exchanges,        \* what each transfer may be: [Transfers -> SUBSET Exchange]
  MaxFiles, MaxSize,
  MaxTouches,       \* bound on changes to the sender's files during transfers, and on
                    \* files that cannot be opened or read to their end though unchanged
  MaxFaults,        \* bound on broken connections and senders that die
  None

Dev == Computers \union Phones
Sizes == 0 .. MaxSize
Files == 1 .. MaxFiles

\* room: the receiver can write what it is sent.
Exchange == [from : Dev, to : Dev, paired : BOOLEAN, n : Files, room : BOOLEAN]

ASSUME TransferAssumption ==
  /\ MaxFiles \in Nat \ {0} /\ MaxSize \in Nat /\ MaxTouches \in Nat /\ MaxFaults \in Nat
  /\ Computers \cap Phones = {}
  /\ None \notin Sizes /\ None \notin Transfers /\ None \notin {"accept", "reject"}
  /\ Exchanges \in [Transfers -> SUBSET Exchange]

SenderSteps == {"idle", "asking", "opening", "streaming", "completed", "error", "dead"}
ReceiverSteps == {"none", "prompt", "saving", "rejected", "completed", "error", "lost"}

VARIABLES
  ex,       \* who sends to whom, and how many files; chosen once
  disk,     \* sizes of the sender's files
  touched,  \* what happened to them since they were offered, and in reading them
  offer,    \* the sizes in the offer
  sender,   \* the sender's step, the file it is at and the bytes it read of it
  conn,     \* the connection, as the sender left it or the network did
  verdict,  \* the receiver's answer on the wire
  wire,     \* bytes sent and not read yet
  receiver, \* the receiver's step and the file it is at
  saved,    \* what the receiver wrote
  prompt,   \* the offer the user of a device is asked about
  touches, faults

sending == <<disk, touched, touches>>
vars == <<ex, disk, touched, offer, sender, conn, verdict, wire, receiver, saved, prompt,
          touches, faults>>

Ended == {"rejected", "completed", "error", "lost"}
Spoils == {"gone", "resized", "unopened", "unread"}

SendingOK ==
  /\ ex \in [Transfers -> Exchange]
  /\ disk \in [Transfers -> [Files -> Sizes \union {None}]]
  /\ touched \in [Transfers -> SUBSET Spoils]
  /\ sender \in [Transfers -> [step : SenderSteps, file : 1 .. MaxFiles + 1, at : Sizes]]
  /\ \A t \in Transfers :
       sender[t].step = "streaming" =>
         sender[t].file <= ex[t].n /\ disk[t][sender[t].file] # None
  /\ touches \in 0 .. MaxTouches /\ faults \in 0 .. MaxFaults

WireOK ==
  /\ offer \in [Transfers -> [Files -> Sizes]]
  /\ conn \in [Transfers -> {"none", "open", "closed", "cut"}]
  /\ verdict \in [Transfers -> {None, "accept", "reject"}]
  /\ wire \in [Transfers -> Seq(Files)]

SavingOK ==
  /\ receiver \in [Transfers -> [step : ReceiverSteps, file : Files]]
  /\ saved \in [Transfers -> [Files -> Seq(Files)]]
  /\ prompt \in [Dev -> Transfers \union {None}]
  /\ \A t \in Transfers : /\ receiver[t].file <= ex[t].n
                         /\ \A f \in Files : Len(saved[t][f]) <= offer[t][f]
  /\ \A d \in Dev :
       prompt[d] # None => receiver[prompt[d]].step = "prompt" /\ ex[prompt[d]].to = d

(* Every variable has its type: a file that is read exists and is one of   *)
(* those offered, no file gets more bytes than were offered, and the offer *)
(* on a screen was sent to that device and waits for its answer.           *)
TypeOK == SendingOK /\ WireOK /\ SavingOK

Init ==
  /\ ex \in {f \in [Transfers -> Exchange] : \A t \in Transfers : f[t] \in Exchanges[t]}
  /\ disk \in [Transfers -> [Files -> Sizes]]
  /\ touched = [t \in Transfers |-> {}]
  /\ offer = [t \in Transfers |-> [f \in Files |-> 0]]
  /\ sender = [t \in Transfers |-> [step |-> "idle", file |-> 1, at |-> 0]]
  /\ conn = [t \in Transfers |-> "none"]
  /\ verdict = [t \in Transfers |-> None]
  /\ wire = [t \in Transfers |-> <<>>]
  /\ receiver = [t \in Transfers |-> [step |-> "none", file |-> 1]]
  /\ saved = [t \in Transfers |-> [f \in Files |-> <<>>]]
  /\ prompt = [d \in Dev |-> None]
  /\ touches = 0 /\ faults = 0

(***************************************************************************)
(* The sender ends. A computer closes the connection on every way out of   *)
(* SendFilesTo; the phone's sendFiles leaves it open when it throws.       *)
(***************************************************************************)
Closes(t) == conn' = [conn EXCEPT ![t] = IF @ = "open" THEN "closed" ELSE @]

Throws(t) ==
  /\ sender' = [sender EXCEPT ![t].step = "error"]
  /\ IF ex[t].from \in Computers THEN Closes(t) ELSE conn' = conn

(***************************************************************************)
(* Offer and verdict                                                       *)
(***************************************************************************)
\* Look at the files, reach the receiver and send the offer, or fail to.
Ask(t) ==
  /\ sender[t].step = "idle"
  /\ \/ /\ offer' = [offer EXCEPT ![t] = disk[t]]
        /\ sender' = [sender EXCEPT ![t].step = "asking"]
        /\ conn' = [conn EXCEPT ![t] = "open"]
     \/ /\ sender' = [sender EXCEPT ![t].step = "error"]
        /\ UNCHANGED <<offer, conn>>
  /\ UNCHANGED <<ex, sending, verdict, wire, receiver, saved, prompt, faults>>

\* The accept byte is written, unless the connection is found to be broken.
Accepts(t) ==
  \/ /\ verdict' = [verdict EXCEPT ![t] = "accept"]
     /\ receiver' = [receiver EXCEPT ![t].step = "saving"]
  \/ /\ conn[t] # "open"
     /\ receiver' = [receiver EXCEPT ![t].step = "lost"]
     /\ verdict' = verdict

\* Nobody is asked about a paired device; otherwise the offer goes on the screen.
ReadOffer(t) ==
  /\ receiver[t].step = "none" /\ conn[t] # "none"
  /\ \/ ex[t].paired /\ Accepts(t) /\ prompt' = prompt
     \/ /\ ~ex[t].paired
        /\ receiver' = [receiver EXCEPT ![t].step = "prompt"]
        /\ prompt' = [prompt EXCEPT ![ex[t].to] = t]
        /\ verdict' = verdict
     \/ /\ conn[t] = "cut"
        /\ receiver' = [receiver EXCEPT ![t].step = "lost"]
        /\ UNCHANGED <<verdict, prompt>>
  /\ UNCHANGED <<ex, sending, offer, sender, conn, wire, saved, faults>>

\* The user answers the offer on the screen.
Answer(d) ==
  LET t == prompt[d] IN
  /\ t # None
  /\ \/ Accepts(t)
     \/ /\ verdict' = [verdict EXCEPT ![t] = "reject"]
        /\ receiver' = [receiver EXCEPT ![t].step = "rejected"]
  /\ prompt' = [prompt EXCEPT ![d] = None]
  /\ UNCHANGED <<ex, sending, offer, sender, conn, wire, saved, faults>>

\* Another offer takes the screen: this one can no longer be answered.
OtherOffer(d) ==
  /\ prompt[d] # None
  /\ prompt' = [prompt EXCEPT ![d] = None]
  /\ UNCHANGED <<ex, sending, offer, sender, conn, verdict, wire, receiver, saved, faults>>

ReadVerdict(t) ==
  /\ sender[t].step = "asking"
  /\ \/ /\ verdict[t] = "accept"
        /\ sender' = [sender EXCEPT ![t].step = "opening"]
        /\ conn' = conn
     \/ /\ verdict[t] = "reject"
        /\ sender' = [sender EXCEPT ![t].step = "error"]
        /\ Closes(t)
  /\ UNCHANGED <<ex, sending, offer, verdict, wire, receiver, saved, prompt, faults>>

\* The connection ends before the verdict. A phone does not listen for a mere
\* close, and gives up after a minute whatever happened.
NoVerdict(t) ==
  /\ sender[t].step = "asking"
  /\ \/ conn[t] = "cut"
     \/ ex[t].from \in Computers /\ receiver[t].step = "lost"
  /\ Throws(t)
  /\ UNCHANGED <<ex, sending, offer, verdict, wire, receiver, saved, prompt, faults>>

GiveUp(t) ==
  /\ sender[t].step = "asking" /\ ex[t].from \in Phones
  /\ Throws(t)
  /\ UNCHANGED <<ex, sending, offer, verdict, wire, receiver, saved, prompt, faults>>

(***************************************************************************)
(* Streaming                                                               *)
(***************************************************************************)
\* A file that is there cannot be opened, or not be read to its end.
CannotRead(t, how) ==
  /\ touches < MaxTouches /\ touches' = touches + 1
  /\ touched' = [touched EXCEPT ![t] = @ \union {how}]

\* The sender gives up over its own files. The phone's plain Dart socket may end
\* the stream over the error.
Stops(t) ==
  \/ Throws(t)
  \/ /\ ex[t].from \in Phones
     /\ sender' = [sender EXCEPT ![t].step = "error"] /\ Closes(t)

\* Mutant: every device skips a file that it cannot open.
OpenFile_Skips(t) ==
  LET f == sender[t].file IN
  /\ sender[t].step = "opening" /\ f <= ex[t].n
  /\ \/ /\ disk[t][f] # None
        /\ sender' = [sender EXCEPT ![t].step = "streaming", ![t].at = 0]
        /\ UNCHANGED <<touched, touches>>
     \/ /\ (disk[t][f] = None /\ UNCHANGED <<touched, touches>>) \/ CannotRead(t, "unopened")
        /\ sender' = [sender EXCEPT ![t].file = f + 1]
  /\ UNCHANGED <<ex, disk, conn, offer, verdict, wire, receiver, saved, prompt, faults>>

\* The next file is opened. A computer skips one that it cannot open, for whatever
\* reason; a phone throws.
OpenFile(t) ==
  LET f == sender[t].file IN
  /\ sender[t].step = "opening" /\ f <= ex[t].n
  /\ \/ /\ disk[t][f] # None
        /\ sender' = [sender EXCEPT ![t].step = "streaming", ![t].at = 0]
        /\ UNCHANGED <<conn, touched, touches>>
     \/ /\ (disk[t][f] = None /\ UNCHANGED <<touched, touches>>) \/ CannotRead(t, "unopened")
        /\ \/ /\ ex[t].from \in Computers
              /\ sender' = [sender EXCEPT ![t].file = f + 1] /\ conn' = conn
           \/ ex[t].from \in Phones /\ Stops(t)
  /\ UNCHANGED <<ex, disk, offer, verdict, wire, receiver, saved, prompt, faults>>

\* A file is read to its end as it is now, not to the size in the offer.
SendByte(t) ==
  LET f == sender[t].file IN
  /\ sender[t].step = "streaming" /\ sender[t].at < disk[t][f]
  /\ sender' = [sender EXCEPT ![t].at = @ + 1]
  /\ wire' = IF conn[t] = "open" THEN [wire EXCEPT ![t] = Append(@, f)] ELSE wire
  /\ UNCHANGED <<ex, sending, offer, conn, verdict, receiver, saved, prompt, faults>>

FileEnds(t) ==
  LET f == sender[t].file IN
  /\ sender[t].step = "streaming" /\ sender[t].at >= disk[t][f]
  /\ sender' = [sender EXCEPT ![t].step = "opening", ![t].file = f + 1]
  /\ UNCHANGED <<ex, sending, offer, conn, verdict, wire, receiver, saved, prompt, faults>>

\* The connection takes no more, or the file cannot be read on: a computer then
\* closes the connection, in the middle of the file.
SendFails(t) ==
  /\ sender[t].step = "streaming"
  /\ \/ /\ conn[t] = "cut" \/ receiver[t].step \in Ended
        /\ Throws(t)
        /\ UNCHANGED <<touched, touches>>
     \/ CannotRead(t, "unread") /\ Stops(t)
  /\ UNCHANGED <<ex, disk, offer, verdict, wire, receiver, saved, prompt, faults>>

\* Mutants: the last file is not sent; the connection is left open.
AllSent_OffByOne(t) ==
  /\ sender[t].step = "opening" /\ sender[t].file >= ex[t].n
  /\ sender' = [sender EXCEPT ![t].step = "completed"]
  /\ Closes(t)
  /\ UNCHANGED <<ex, sending, offer, verdict, wire, receiver, saved, prompt, faults>>

AllSent_LeavesOpen(t) ==
  /\ sender[t].step = "opening" /\ sender[t].file > ex[t].n
  /\ sender' = [sender EXCEPT ![t].step = "completed"]
  /\ UNCHANGED <<ex, sending, offer, conn, verdict, wire, receiver, saved, prompt, faults>>

AllSent(t) ==
  /\ sender[t].step = "opening" /\ sender[t].file > ex[t].n
  /\ sender' = [sender EXCEPT ![t].step = "completed"]
  /\ Closes(t)
  /\ UNCHANGED <<ex, sending, offer, verdict, wire, receiver, saved, prompt, faults>>

(***************************************************************************)
(* Saving                                                                  *)
(***************************************************************************)
Short(t) == Len(saved[t][receiver[t].file]) < offer[t][receiver[t].file]

\* The file at hand is done with: on to the next, or the transfer is recorded
\* as completed and the connection closed.
NextFile(t) ==
  LET f == receiver[t].file IN
  \/ f < ex[t].n /\ receiver' = [receiver EXCEPT ![t].file = f + 1]
  \/ f = ex[t].n /\ receiver' = [receiver EXCEPT ![t].step = "completed"]

SaveByte(t) ==
  /\ receiver[t].step = "saving" /\ Short(t) /\ wire[t] # <<>>
  /\ saved' = [saved EXCEPT ![t][receiver[t].file] = Append(@, Head(wire[t]))]
  /\ wire' = [wire EXCEPT ![t] = Tail(@)]
  /\ UNCHANGED <<ex, sending, offer, sender, conn, verdict, receiver, prompt, faults>>

FileSaved(t) ==
  /\ receiver[t].step = "saving" /\ ~Short(t)
  /\ NextFile(t)
  /\ UNCHANGED <<ex, sending, offer, sender, conn, verdict, wire, saved, prompt, faults>>

\* The stream ends in the middle of a file. io.CopyBuffer takes that for the
\* end of the file; the phone throws.
ComputerStreamEnds(t) ==
  /\ receiver[t].step = "saving" /\ ex[t].to \in Computers
  /\ Short(t) /\ wire[t] = <<>> /\ conn[t] = "closed"
  /\ NextFile(t)
  /\ UNCHANGED <<ex, sending, offer, sender, conn, verdict, wire, saved, prompt, faults>>

\* Mutants: the phone goes on as the computer does; it notices the close before
\* it has read what came before.
PhoneStreamEnds_GoesOn(t) ==
  /\ receiver[t].step = "saving" /\ ex[t].to \in Phones
  /\ Short(t) /\ wire[t] = <<>> /\ conn[t] = "closed"
  /\ NextFile(t)
  /\ UNCHANGED <<ex, sending, offer, sender, conn, verdict, wire, saved, prompt, faults>>

PhoneStreamEnds_Early(t) ==
  /\ receiver[t].step = "saving" /\ ex[t].to \in Phones
  /\ Short(t) /\ conn[t] = "closed"
  /\ receiver' = [receiver EXCEPT ![t].step = "error"]
  /\ UNCHANGED <<ex, sending, offer, sender, conn, verdict, wire, saved, prompt, faults>>

PhoneStreamEnds(t) ==
  /\ receiver[t].step = "saving" /\ ex[t].to \in Phones
  /\ Short(t) /\ wire[t] = <<>> /\ conn[t] = "closed"
  /\ receiver' = [receiver EXCEPT ![t].step = "error"]
  /\ UNCHANGED <<ex, sending, offer, sender, conn, verdict, wire, saved, prompt, faults>>

ReadFails(t) ==
  /\ receiver[t].step = "saving" /\ Short(t) /\ conn[t] = "cut"
  /\ receiver' = [receiver EXCEPT ![t].step = "error"]
  /\ UNCHANGED <<ex, sending, offer, sender, conn, verdict, wire, saved, prompt, faults>>

\* The file cannot be created, which a computer does not record, or it cannot
\* be written; the phone learns of either when it flushes the file.
CannotSave(t) ==
  /\ receiver[t].step = "saving" /\ ~ex[t].room
  /\ \/ /\ ex[t].to \in Computers /\ saved[t][receiver[t].file] = <<>>
        /\ receiver' = [receiver EXCEPT ![t].step = "lost"]
     \/ /\ ex[t].to \in Computers /\ saved[t][receiver[t].file] # <<>>
        /\ receiver' = [receiver EXCEPT ![t].step = "error"]
     \/ /\ ex[t].to \in Phones /\ ~Short(t)
        /\ receiver' = [receiver EXCEPT ![t].step = "error"]
  /\ UNCHANGED <<ex, sending, offer, sender, conn, verdict, wire, saved, prompt, faults>>

(***************************************************************************)
(* The world around them                                                   *)
(***************************************************************************)
Active(t) == sender[t].step \in {"asking", "opening", "streaming"}

\* Somebody writes to a file that was offered, or removes it before it is opened.
Touch(t, f, s) ==
  /\ Active(t) /\ f <= ex[t].n /\ touches < MaxTouches
  /\ disk[t][f] # None /\ s # disk[t][f]
  /\ s = None => sender[t].step # "streaming" \/ sender[t].file # f
  /\ disk' = [disk EXCEPT ![t][f] = s]
  /\ touched' = [touched EXCEPT ![t] = @ \union {IF s = None THEN "gone" ELSE "resized"}]
  /\ touches' = touches + 1
  /\ UNCHANGED <<ex, offer, sender, conn, verdict, wire, receiver, saved, prompt, faults>>

\* The sending program ends: its system closes the connection, at the end of a
\* frame or within one.
SenderDies(t) ==
  /\ Active(t) /\ faults < MaxFaults
  /\ faults' = faults + 1
  /\ sender' = [sender EXCEPT ![t].step = "dead"]
  /\ \E c \in {"closed", "cut"} : conn' = [conn EXCEPT ![t] = IF @ = "open" THEN c ELSE @]
  /\ UNCHANGED <<ex, sending, offer, verdict, wire, receiver, saved, prompt>>

Cut(t) ==
  /\ conn[t] = "open" /\ faults < MaxFaults
  /\ faults' = faults + 1
  /\ conn' = [conn EXCEPT ![t] = "cut"]
  /\ UNCHANGED <<ex, sending, offer, sender, verdict, wire, receiver, saved, prompt>>

Steps(t) ==
  \/ ReadOffer(t) \/ ReadVerdict(t) \/ NoVerdict(t)
  \/ OpenFile(t) \/ SendByte(t) \/ FileEnds(t) \/ SendFails(t) \/ AllSent(t)
  \/ SaveByte(t) \/ FileSaved(t) \/ ComputerStreamEnds(t) \/ PhoneStreamEnds(t) \/ ReadFails(t)

Next ==
  \/ \E t \in Transfers : \/ Ask(t) \/ Steps(t) \/ GiveUp(t) \/ CannotSave(t)
                          \/ SenderDies(t) \/ Cut(t)
                          \/ \E f \in Files, s \in Sizes \union {None} : Touch(t, f, s)
  \/ \E d \in Dev : Answer(d) \/ OtherOffer(d)

SenderStep(t) == OpenFile(t) \/ SendByte(t) \/ FileEnds(t) \/ AllSent(t)
ReceiverStep(t) ==
  SaveByte(t) \/ FileSaved(t) \/ ComputerStreamEnds(t) \/ PhoneStreamEnds(t) \/ ReadFails(t)

\* Programs go on with what they can do. The user need not answer.
Fairness ==
  \A t \in Transfers :
    /\ WF_vars(ReadOffer(t)) /\ WF_vars(ReadVerdict(t)) /\ WF_vars(NoVerdict(t))
    /\ WF_vars(SenderStep(t)) /\ WF_vars(ReceiverStep(t))

Spec == Init /\ [][Next]_vars
FairSpec == Spec /\ Fairness

(***************************************************************************)
(* Properties                                                              *)
(***************************************************************************)
Whole(t) == \A f \in 1 .. ex[t].n : Len(saved[t][f]) = offer[t][f]

(* A phone records a transfer as completed only if every file has all the  *)
(* bytes that were offered, whatever happens to the sender, its files and  *)
(* the connection.                                                         *)
PhoneKeepsWhole ==
  \A t \in Transfers :
    receiver[t].step = "completed" /\ ex[t].to \in Phones => Whole(t)

(* So does a computer, when the sending program did not end in between,    *)
(* nobody touched the files and they could be read to their ends: no break *)
(* of the connection looks to it like the end of a file. A computer that   *)
(* cannot read on closes the connection, which does.                       *)
ComputerKeepsWhole ==
  \A t \in Transfers :
    /\ receiver[t].step = "completed" /\ ex[t].to \in Computers
    /\ sender[t].step # "dead" /\ touched[t] = {}
    => Whole(t)

(* The bytes of one file never end up in another: not when the sizes of    *)
(* the files stay as they were offered, wherever the stream breaks off and *)
(* wherever the sender can read no further. From a phone that holds even   *)
(* when one of them is gone or cannot be opened, from a computer not: it   *)
(* skips the file without a word to the receiver.                          *)
RightBytes ==
  \A t \in Transfers :
    touched[t] \subseteq
      (IF ex[t].from \in Phones THEN Spoils \ {"resized"} ELSE {"unread"}) =>
      \A f \in Files : \A i \in 1 .. Len(saved[t][f]) : saved[t][f][i] = f

(* What the sender records as completed arrives and is recorded as         *)
(* completed by a receiver with room for it, unless the connection broke,  *)
(* the files changed on the way or a computer skipped one of them.         *)
Delivered ==
  \A t \in Transfers :
    <>[](/\ sender[t].step = "completed" /\ conn[t] = "closed"
         /\ touched[t] = {} /\ ex[t].room
         => receiver[t].step = "completed")

(* It has arrived by then or is still being saved, by a receiver that does *)
(* not wait for more than is on the wire.                                  *)
CompletedArrives ==
  \A t \in Transfers :
    sender[t].step = "completed" /\ conn[t] = "closed" /\ touched[t] = {} /\ ex[t].room =>
      \/ receiver[t].step = "completed" /\ Whole(t)
      \/ receiver[t].step = "saving" /\ (Short(t) => wire[t] # <<>>)

(* Whatever becomes of a computer that sends, its files and the            *)
(* connection, a receiver that accepted does not wait for bytes for ever.  *)
SavingEnds ==
  \A t \in Transfers :
    []<>(ex[t].from \in Computers => receiver[t].step # "saving")

(* A transfer that is recorded as completed has all its bytes. "OnComplete *)
(* is called when a transfer finishes successfully" (transfer/server.go);  *)
(* a computer also calls it when the stream ends in the middle of a file.  *)
CompletedIsWhole ==
  \A t \in Transfers : receiver[t].step = "completed" => Whole(t)

=============================================================================
