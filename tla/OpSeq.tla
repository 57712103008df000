------------------------------- MODULE OpSeq -------------------------------
(* Sequences of operation numbers.  Operations are numbered in the order in *)
(* which they are issued, so a queue is in FIFO order iff it is increasing. *)
EXTENDS Integers, Sequences

Increasing(s) == \A i, j \in DOMAIN s : i < j => s[i] < s[j]
=============================================================================
