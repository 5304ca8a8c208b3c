---------------------------- MODULE MCTransfer ----------------------------
(* Transfer on a small instance: two files, from either kind of device to  *)
(* either kind, paired or not, with room for them or not (who was paired   *)
(* makes no difference once the files come, so one kind does without room). *)
EXTENDS Transfer

CONSTANTS laptop, desk, phone, tablet

Batch ==
  {[from |-> d, to |-> e, paired |-> pr[1], n |-> 2, room |-> pr[2]] :
     d \in {laptop, phone}, e \in {desk, tablet},
     pr \in {<<TRUE, TRUE>>, <<TRUE, FALSE>>, <<FALSE, TRUE>>}}

Batches == [t \in Transfers |-> Batch]
=============================================================================
