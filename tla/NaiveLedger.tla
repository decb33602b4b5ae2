---------------------------- MODULE NaiveLedger ----------------------------
(***************************************************************************)
(* The naive revenue ledger of                                             *)
(* revenue_distribution/NonOptimized/DistributionContract.c: addRevenue    *)
(* walks every holder and adds (share / totalShare) * amount to its        *)
(* revenue.  Shares and amounts are small integers, exact in a double;     *)
(* revenue is a double counted in units of 1/Unit (Unit divisible by every *)
(* total share the model reaches), so it is exact unless it becomes +inf   *)
(* or NaN.                                                                 *)
(***************************************************************************)
EXTENDS HolderStore, Doubles

CONSTANTS
  Changes,              \* the `change' arguments callers pass to changeShare
  Amounts,              \* the `amount' arguments callers pass to addRevenue
  Unit,                 \* revenue is counted in units of 1/Unit
  MaxStake,             \* bound: callers keep the total share and every
                        \* holder's share <= MaxStake
  MaxRevenue,           \* bound: callers inject at most MaxRevenue in all
  CallerAvoidsEmptyPool \* callers never call addRevenue while totalShare = 0

ASSUME NaiveConstantsAssumption ==
  /\ Changes \subseteq Int /\ Amounts \subseteq Int
  /\ MaxStake \in Nat /\ MaxRevenue \in Nat
  /\ Unit \in Nat \ {0} /\ \A t \in 1 .. MaxStake : Unit % t = 0
  /\ CallerAvoidsEmptyPool \in BOOLEAN

VARIABLES
  totalShare,    \* contract->totalShare
  userStateMap,  \* contract->userStateMap: address -> UserState
  revenueIn,     \* ghost: sum of the amounts addRevenue accepted
  ret            \* return code of the last call

vars == <<totalShare, userStateMap, revenueIn, ret>>

UserState == [share : Nat, revenue : Double]

\* constructContract (calloc zeroes totalShare)
Init ==
  /\ totalShare = 0
  /\ userStateMap = EmptyMap
  /\ revenueIn = 0
  /\ ret = "none"

NewUserState == [share |-> 0, revenue |-> 0]

\* Mutant: changeShare without the newTotalShare < 0 check of line 69.
ChangeShareNoTotalCheck(dest, change) ==
  LET newTotalShare == totalShare + change
      tmp           == HashmapGet(userStateMap, dest, NewUserState)
      newUserShare  == tmp.share + change
  IN  /\ newTotalShare <= MaxStake /\ newUserShare <= MaxStake
      /\ \/ /\ change = 0
            /\ ret' = "EXIT_FAILURE"
            /\ UNCHANGED <<totalShare, userStateMap, revenueIn>>
         \/ /\ change # 0 /\ newUserShare < 0
            /\ totalShare' = newTotalShare
            /\ ret' = "EXIT_FAILURE"
            /\ UNCHANGED <<userStateMap, revenueIn>>
         \/ /\ change # 0 /\ newUserShare >= 0
            /\ totalShare' = newTotalShare
            /\ ret' = "EXIT_SUCCESS"
            /\ UNCHANGED revenueIn
            /\ userStateMap' = HashmapSet(userStateMap, dest,
                                          [tmp EXCEPT !.share = newUserShare])

(***************************************************************************)
(* changeShare(contract, dest, change).  The new total is written before   *)
(* the holder is looked up and before the holder-underflow check, so that  *)
(* check fails with totalShare already changed.                            *)
(***************************************************************************)
ChangeShare(dest, change) ==
  LET newTotalShare == totalShare + change
      tmp           == HashmapGet(userStateMap, dest, NewUserState)
      newUserShare  == tmp.share + change
  IN  /\ newTotalShare <= MaxStake /\ newUserShare <= MaxStake
      /\ \/ /\ change = 0 \/ newTotalShare < 0
            /\ ret' = "EXIT_FAILURE"
            /\ UNCHANGED <<totalShare, userStateMap, revenueIn>>
         \/ /\ change # 0 /\ newTotalShare >= 0
            /\ newUserShare < 0
            /\ totalShare' = newTotalShare
            /\ ret' = "EXIT_FAILURE"
            /\ UNCHANGED <<userStateMap, revenueIn>>
         \/ /\ change # 0 /\ newTotalShare >= 0
            /\ newUserShare >= 0
            /\ totalShare' = newTotalShare
            /\ ret' = "EXIT_SUCCESS"
            /\ UNCHANGED revenueIn
            /\ userStateMap' = HashmapSet(userStateMap, dest,
                                          [tmp EXCEPT !.share = newUserShare])

\* What distributeRevenue adds to a holder of share s: (s / totalShare) *
\* amount, in units of 1/Unit.
ShareOf(s, amount) == FMul(FDiv(s * Unit, totalShare), amount)

\* Mutant: addRevenue without the amount <= 0 check.
AddRevenueUnchecked(amount) ==
  /\ revenueIn + amount <= MaxRevenue
  /\ CallerAvoidsEmptyPool => totalShare # 0
  /\ userStateMap' =
       [a \in DOMAIN userStateMap |->
          [userStateMap[a] EXCEPT !.revenue =
             FAdd(@, ShareOf(userStateMap[a].share, amount))]]
  /\ revenueIn' = revenueIn + amount
  /\ ret' = "EXIT_SUCCESS"
  /\ UNCHANGED totalShare

\* Mutant: distributeRevenue assigning the share instead of adding it.
AddRevenueOverwrite(amount) ==
  /\ revenueIn + amount <= MaxRevenue
  /\ CallerAvoidsEmptyPool => totalShare # 0
  /\ \/ /\ amount <= 0
        /\ ret' = "EXIT_FAILURE"
        /\ UNCHANGED <<totalShare, userStateMap, revenueIn>>
     \/ /\ amount > 0
        /\ userStateMap' =
             [a \in DOMAIN userStateMap |->
                [userStateMap[a] EXCEPT !.revenue =
                   ShareOf(userStateMap[a].share, amount)]]
        /\ revenueIn' = revenueIn + amount
        /\ ret' = "EXIT_SUCCESS"
        /\ UNCHANGED totalShare

\* addRevenue(contract, amount), with the distributeRevenue loop over
\* every entry of the map.
AddRevenue(amount) ==
  /\ revenueIn + amount <= MaxRevenue
  /\ CallerAvoidsEmptyPool => totalShare # 0
  /\ \/ /\ amount <= 0
        /\ ret' = "EXIT_FAILURE"
        /\ UNCHANGED <<totalShare, userStateMap, revenueIn>>
     \/ /\ amount > 0
        /\ userStateMap' =
             [a \in DOMAIN userStateMap |->
                [userStateMap[a] EXCEPT !.revenue =
                   FAdd(@, ShareOf(userStateMap[a].share, amount))]]
        /\ revenueIn' = revenueIn + amount
        /\ ret' = "EXIT_SUCCESS"
        /\ UNCHANGED totalShare

Next ==
  \/ \E a \in Addr, c \in Changes : ChangeShare(a, c)
  \/ \E x \in Amounts : AddRevenue(x)

Spec == Init /\ [][Next]_vars

-----------------------------------------------------------------------------
(***************************************************************************)
(* Properties.                                                             *)
(***************************************************************************)

ShareOfAddr(a) == IF a \in DOMAIN userStateMap THEN userStateMap[a].share ELSE 0

\* Every address's share, absent ones holding none.
Shares == [a \in Addr |-> ShareOfAddr(a)]

TypeOK ==
  /\ totalShare \in Int
  /\ DOMAIN userStateMap \subseteq Addr
  /\ userStateMap \in [DOMAIN userStateMap -> UserState]
  /\ revenueIn \in Nat
  /\ ret \in {"none", "EXIT_SUCCESS", "EXIT_FAILURE"}

\* Conservation (spec 8): totalShare equals the sum of the holders' shares
\* after every sequence of calls, rejected ones included (spec 7: a
\* rejected call changes nothing).
ShareConservation == totalShare = SumOf(Shares)

\* The total share changeShare keeps never exceeds the holders' shares and
\* never goes below zero: rejected calls may only lower it, so every
\* injection pays out at least the amount injected.
TotalShareBounded ==
  0 <= totalShare /\ totalShare <= SumOf(Shares)

\* A holder's revenue never decreases and never becomes NaN: every step
\* leaves each existing holder's revenue at or above its old value.
RevenueMonotone ==
  [][\A a \in DOMAIN userStateMap :
       FLeq(userStateMap[a].revenue, userStateMap'[a].revenue)]_vars
=============================================================================
