------------------------------ MODULE MCNaive ------------------------------
(***************************************************************************)
(* Model-checking instance of NaiveLedger: two addresses, stake changes    *)
(* that add, withdraw and are rejected, and revenue that is accepted and   *)
(* rejected.                                                               *)
(***************************************************************************)
EXTENDS NaiveLedger

\* Share changes: a rejected zero change, a withdrawal and two deposits.
MCChanges == {-1, 0, 1, 2}

\* Revenue amounts: two rejected (negative and zero) and two accepted.
MCAmounts == {-1, 0, 1, 2}
=============================================================================
