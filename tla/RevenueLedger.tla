---------------------------- MODULE RevenueLedger ----------------------------
(***************************************************************************)
(* What a revenue ledger promises (spec 4 and 8), with no accumulator: the *)
(* stake of every address, and the revenue each address is owed, which     *)
(* every accepted injection raises by the holder's exact proportional      *)
(* share stake/total * amount.  Rejected calls change nothing; revenue     *)
(* injected while no stake exists is refused (spec 7).  Revenue is counted *)
(* in units of 1/Unit, Unit a multiple of every total the models reach.    *)
(***************************************************************************)
EXTENDS HolderStore

CONSTANTS Changes, Amounts, Unit

VARIABLES
  stake,  \* address -> its stake
  owed    \* address -> the revenue it is owed, settled or not


Total == SumOf(stake)

Init ==
  /\ stake = [a \in Addr |-> 0]
  /\ owed = [a \in Addr |-> 0]

\* A successful stake change of one holder.
ChangeStake(a, c) ==
  /\ c # 0
  /\ stake[a] + c >= 0
  /\ stake' = [stake EXCEPT ![a] = @ + c]
  /\ UNCHANGED owed

\* An accepted injection, split among the holders in proportion to stake.
AddRevenue(amount) ==
  /\ amount > 0
  /\ Total > 0
  /\ owed' = [a \in Addr |-> owed[a] + (stake[a] * amount * Unit) \div Total]
  /\ UNCHANGED stake

Next ==
  \/ \E a \in Addr, c \in Changes : ChangeStake(a, c)
  \/ \E x \in Amounts : AddRevenue(x)

Spec == Init /\ [][Next]_<<stake, owed>>
=============================================================================
