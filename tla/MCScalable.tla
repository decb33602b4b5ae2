----------------------------- MODULE MCScalable -----------------------------
(***************************************************************************)
(* Model-checking instance of ScalableLedger: two addresses, stake changes *)
(* that add, withdraw and are rejected, and revenue that is accepted and   *)
(* rejected.                                                               *)
(***************************************************************************)
EXTENDS ScalableLedger

\* Stake changes: a rejected zero change, a withdrawal and two deposits.
MCChanges == {-1, 0, 1, 2}

\* Revenue amounts: two rejected (negative and zero) and two accepted.
MCAmounts == {-1, 0, 1, 2}

(***************************************************************************)
(* The refinement mapping to the ideal ledger: a holder's stake, and the   *)
(* revenue it is owed as the amount a settlement would leave in            *)
(* ownAccumulatedTotal now (its settled revenue plus FreshOwn).            *)
(***************************************************************************)
SettledRevenue(a) ==
  IF a \in DOMAIN userStateMap
  THEN FAdd(userStateMap[a].ownAccumulatedTotal, FreshOwn(userStateMap[a]))
  ELSE 0

Ideal == INSTANCE RevenueLedger
           WITH stake <- [a \in Addr |-> StakeOf(a)],
                owed  <- [a \in Addr |-> SettledRevenue(a)]

\* Settlement equivalence (spec 8): the scalable ledger implements the
\* ideal proportional ledger, so whenever a holder is settled it holds
\* exactly its share of every injection made while it had stake.
IdealSpec == Ideal!Spec
=============================================================================
