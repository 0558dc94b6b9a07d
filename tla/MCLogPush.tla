------------------------------ MODULE MCLogPush ------------------------------
(* TLC instances of LogPush.                                               *)
EXTENDS LogPush

MCBlockSizes == {0}
MCLengths == {3, 12}
MCReplyLengths == {0, 3, 12}
MCLongReply == {12}
=============================================================================
