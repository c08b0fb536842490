----------------------------- MODULE MCAccounting -----------------------------
(* One thread on a fast and a slow CPU; RUNTIME_MAX_TIME and MIN_SEND_INTERVAL *)
(* are the same time, as in the code.                                         *)
EXTENDS Accounting

TwoFreqs == [c \in {"fast", "slow"} |-> [n |-> IF c = "fast" THEN 2 ELSE 1, d |-> 2]]
===============================================================================
