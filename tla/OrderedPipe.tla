---------------------------- MODULE OrderedPipe ----------------------------
(***************************************************************************)
(* What an encrypted pipe promises in one direction, whatever happens to   *)
(* the connection under it: the messages' frames come out in the order     *)
(* they went in, none twice and none left out before one that comes out,   *)
(* and no message's frames between those of another.                       *)
(***************************************************************************)
EXTENDS Naturals, Sequences

CONSTANTS
  Messages,  \* the payloads of Write calls
  Frames     \* [Messages -> number of frames it is cut into]

VARIABLES
  sent,      \* frames <<message, number>> that went in, in order
  got        \* frames that came out

oVars == <<sent, got>>

Init == sent = <<>> /\ got = <<>>

(* A message goes on with its next frame, or begins after a whole one. *)
Follows(m, i) ==
  IF i = 1
    THEN sent = <<>> \/ \E l \in Messages : sent[Len(sent)] = <<l, Frames[l]>>
    ELSE sent # <<>> /\ sent[Len(sent)] = <<m, i - 1>>

Send(m, i) ==
  /\ Follows(m, i)
  /\ sent' = Append(sent, <<m, i>>)
  /\ UNCHANGED got

Receive ==
  /\ Len(got) < Len(sent)
  /\ got' = Append(got, sent[Len(got) + 1])
  /\ UNCHANGED sent

Next == Receive \/ \E m \in Messages : \E i \in 1..Frames[m] : Send(m, i)

Spec == Init /\ [][Next]_oVars
=============================================================================
