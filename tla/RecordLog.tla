------------------------------ MODULE RecordLog ------------------------------
(* What the readers of the kernel log (core/console.c, core/kplog.c) may rely *)
(* on: records are numbered one by one as they are appended, and an append    *)
(* may drop the oldest ones, never the one just appended.                     *)
EXTENDS Naturals

VARIABLES first_seq,    \* of the oldest record
          next_seq      \* of the record to come

vars == <<first_seq, next_seq>>

Init == first_seq = 0 /\ next_seq = 0

Append ==
    /\ next_seq' = next_seq + 1
    /\ first_seq' \in first_seq .. next_seq

Spec == Init /\ [][Append]_vars
===============================================================================
