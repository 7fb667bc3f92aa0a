--------------------------- MODULE MCQueueRunner ---------------------------
(* QueueRunner with two machines on two lines; machines are alike.         *)
EXTENDS QueueRunner, TLC

Alike == Permutations(Machines)
=============================================================================
