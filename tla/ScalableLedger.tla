--------------------------- MODULE ScalableLedger ---------------------------
(***************************************************************************)
(* The scalable revenue ledger of                                          *)
(* revenue_distribution/Optimized/DistributionContract.c: addRevenue only  *)
(* moves a global accumulator `index'; a holder's share of it is settled   *)
(* into ownAccumulatedTotal the next time changeShare touches the holder.  *)
(*                                                                         *)
(* Data abstraction.  Stakes and amounts are small integers, exact in a    *)
(* double.  Revenue (ownAccumulatedTotal, the settled `freshOwn') is kept  *)
(* in units of 1/Unit, where Unit is divisible by every total stake the    *)
(* model reaches, so the divisions of the settlement formula are exact.    *)
(* index and incrementPerRevenue are doubles and may become +inf or NaN.   *)
(***************************************************************************)
EXTENDS HolderStore, Doubles

CONSTANTS
  Changes,              \* the `change' arguments callers pass to changeShare
  Amounts,              \* the `amount' arguments callers pass to addRevenue
  INDEX_INIT,           \* initial index (1000000 in the source)
  INCR_PER_REV_INIT,    \* initial incrementPerRevenue (10000 in the source)
  Unit,                 \* revenue is counted in units of 1/Unit
  MaxStake,             \* bound: callers keep the total stake and every
                        \* holder's stake <= MaxStake
  MaxRevenue,           \* bound: callers inject at most MaxRevenue in all
  CallerAvoidsEmptyPool, \* callers never call addRevenue while totalStake = 0
  HashmapMayFail         \* fault model: hashmap_set may fail to allocate

ASSUME ConstantsAssumption ==
  /\ Changes \subseteq Int /\ Amounts \subseteq Int
  /\ INDEX_INIT \in Nat /\ INCR_PER_REV_INIT \in Nat \ {0}
  /\ MaxStake \in Nat /\ MaxRevenue \in Nat
  /\ Unit \in Nat \ {0} /\ \A t \in 1 .. MaxStake : Unit % t = 0
  /\ CallerAvoidsEmptyPool \in BOOLEAN /\ HashmapMayFail \in BOOLEAN

VARIABLES
  totalStake,           \* contract->totalStake
  incrementPerRevenue,  \* contract->incrementPerRevenue
  index,                \* contract->index
  userStateMap,         \* contract->userStateMap: address -> UserState
  revenueIn,            \* ghost: sum of the amounts addRevenue accepted
  ret                   \* return code of the last call

vars == <<totalStake, incrementPerRevenue, index, userStateMap, revenueIn, ret>>

UserState == [ownStake : Nat, lastTotalStake : Int,
              lastIncrementPerRevenue : Double, ownAccumulatedTotal : Double,
              lastIndex : Double]

\* constructContract
Init ==
  /\ totalStake = 0
  /\ incrementPerRevenue = INCR_PER_REV_INIT
  /\ index = INDEX_INIT
  /\ userStateMap = EmptyMap
  /\ revenueIn = 0
  /\ ret = "none"

\* The record changeShare starts from for an address with no mapping: no
\* stake, nothing accumulated, a snapshot of the current global state.
NewUserState ==
  [ownStake |-> 0, lastTotalStake |-> totalStake,
   lastIncrementPerRevenue |-> incrementPerRevenue,
   ownAccumulatedTotal |-> 0, lastIndex |-> index]

\* Mutant: Phase 1 without the ownStake = 0 short-circuit of line 87.
FreshOwnUnguarded(u) ==
  FDiv(FMul(FMul(FSub(index, u.lastIndex), u.ownStake), Unit),
       FMul(u.lastIncrementPerRevenue, u.lastTotalStake))

(***************************************************************************)
(* Phase 1 of changeShare: the revenue earned by u since its snapshot,     *)
(* (index - lastIndex) * ownStake / (lastIncrementPerRevenue *             *)
(* lastTotalStake), in units of 1/Unit; 0 when the holder has no stake.    *)
(***************************************************************************)
FreshOwn(u) ==
  IF u.ownStake = 0 THEN 0
  ELSE FDiv(FMul(FMul(FSub(index, u.lastIndex), u.ownStake), Unit),
            FMul(u.lastIncrementPerRevenue, u.lastTotalStake))

\* Mutant: Phase 2 that never resets incrementPerRevenue once changed.
NewIncrementNoReset(oldTotalStake, newTotalStake) ==
  IF newTotalStake # 0 THEN incrementPerRevenue
  ELSE IF oldTotalStake # 0
       THEN FMul(incrementPerRevenue, FDiv(oldTotalStake, newTotalStake))
       ELSE incrementPerRevenue

(***************************************************************************)
(* Phase 2 of changeShare: the new incrementPerRevenue, reset to its       *)
(* initial value when the new total is non-zero, otherwise multiplied by   *)
(* old/new total when the old total is non-zero.                           *)
(***************************************************************************)
NewIncrement(oldTotalStake, newTotalStake) ==
  IF newTotalStake # 0 THEN INCR_PER_REV_INIT
  ELSE IF oldTotalStake # 0
       THEN FMul(incrementPerRevenue, FDiv(oldTotalStake, newTotalStake))
       ELSE incrementPerRevenue

\* Mutant: totalStake written before the holder-underflow check, as the
\* non-optimized changeShare does.
ChangeShareTotalFirst(dest, change) ==
  LET newTotalStake == totalStake + change
      tmp           == HashmapGet(userStateMap, dest, NewUserState)
      incr          == NewIncrement(totalStake, newTotalStake)
  IN  /\ newTotalStake <= MaxStake /\ tmp.ownStake + change <= MaxStake
      /\ \/ /\ change = 0 \/ newTotalStake < 0
            /\ ret' = "EXIT_FAILURE"
            /\ UNCHANGED <<totalStake, incrementPerRevenue, index,
                           userStateMap, revenueIn>>
         \/ /\ change # 0 /\ newTotalStake >= 0
            /\ tmp.ownStake + change < 0
            /\ totalStake' = newTotalStake
            /\ ret' = "EXIT_FAILURE"
            /\ UNCHANGED <<incrementPerRevenue, index, userStateMap, revenueIn>>
         \/ /\ change # 0 /\ newTotalStake >= 0
            /\ tmp.ownStake + change >= 0
            /\ incrementPerRevenue' = incr
            /\ totalStake' = newTotalStake
            /\ ret' = "EXIT_SUCCESS"
            /\ UNCHANGED <<index, revenueIn>>
            /\ \/ userStateMap' = HashmapSet(userStateMap, dest,
                     [ownStake |-> tmp.ownStake + change,
                      ownAccumulatedTotal |-> FAdd(tmp.ownAccumulatedTotal,
                                                   FreshOwn(tmp)),
                      lastIndex |-> index,
                      lastIncrementPerRevenue |-> incr,
                      lastTotalStake |-> newTotalStake])
               \/ /\ HashmapMayFail  \* hashmap_set out of memory, result ignored
                  /\ UNCHANGED userStateMap

\* changeShare(contract, dest, change)
ChangeShare(dest, change) ==
  LET newTotalStake == totalStake + change
      oldTotalStake == totalStake
      tmp           == HashmapGet(userStateMap, dest, NewUserState)
      incr          == NewIncrement(oldTotalStake, newTotalStake)
  IN  /\ newTotalStake <= MaxStake /\ tmp.ownStake + change <= MaxStake
      /\ \/ /\ \/ change = 0
               \/ newTotalStake < 0
               \/ tmp.ownStake + change < 0
            /\ ret' = "EXIT_FAILURE"
            /\ UNCHANGED <<totalStake, incrementPerRevenue, index,
                           userStateMap, revenueIn>>
         \/ /\ change # 0
            /\ newTotalStake >= 0
            /\ tmp.ownStake + change >= 0
            /\ incrementPerRevenue' = incr
            /\ totalStake' = newTotalStake
            /\ ret' = "EXIT_SUCCESS"
            /\ UNCHANGED <<index, revenueIn>>
            /\ \/ userStateMap' = HashmapSet(userStateMap, dest,
                     [ownStake |-> tmp.ownStake + change,
                      ownAccumulatedTotal |-> FAdd(tmp.ownAccumulatedTotal,
                                                   FreshOwn(tmp)),
                      lastIndex |-> index,
                      lastIncrementPerRevenue |-> incr,
                      lastTotalStake |-> newTotalStake])
               \/ /\ HashmapMayFail  \* hashmap_set out of memory, result ignored
                  /\ UNCHANGED userStateMap

\* Mutant: addRevenue without the amount <= 0 check.
AddRevenueUnchecked(amount) ==
  /\ revenueIn + amount <= MaxRevenue
  /\ CallerAvoidsEmptyPool => totalStake # 0
  /\ index' = FAdd(index, FMul(incrementPerRevenue, amount))
  /\ revenueIn' = revenueIn + amount
  /\ ret' = "EXIT_SUCCESS"
  /\ UNCHANGED <<totalStake, incrementPerRevenue, userStateMap>>

\* addRevenue(contract, amount), with distributeRevenue inlined
AddRevenue(amount) ==
  /\ revenueIn + amount <= MaxRevenue
  /\ CallerAvoidsEmptyPool => totalStake # 0
  /\ \/ /\ amount <= 0
        /\ ret' = "EXIT_FAILURE"
        /\ UNCHANGED <<totalStake, incrementPerRevenue, index,
                       userStateMap, revenueIn>>
     \/ /\ amount > 0
        /\ index' = FAdd(index, FMul(incrementPerRevenue, amount))
        /\ revenueIn' = revenueIn + amount
        /\ ret' = "EXIT_SUCCESS"
        /\ UNCHANGED <<totalStake, incrementPerRevenue, userStateMap>>

Next ==
  \/ \E a \in Addr, c \in Changes : ChangeShare(a, c)
  \/ \E x \in Amounts : AddRevenue(x)

Spec == Init /\ [][Next]_vars

-----------------------------------------------------------------------------
(***************************************************************************)
(* Properties.                                                             *)
(***************************************************************************)

StakeOf(a) == IF a \in DOMAIN userStateMap THEN userStateMap[a].ownStake ELSE 0

\* Every address's stake, absent ones holding none.
Stakes == [a \in Addr |-> StakeOf(a)]

TypeOK ==
  /\ totalStake \in Int
  /\ incrementPerRevenue \in Double
  /\ index \in Double
  /\ DOMAIN userStateMap \subseteq Addr
  /\ userStateMap \in [DOMAIN userStateMap -> UserState]
  /\ revenueIn \in Nat
  /\ ret \in {"none", "EXIT_SUCCESS", "EXIT_FAILURE"}

\* Conservation (spec 8): the total stake changeShare maintains equals the
\* sum of the holders' stakes after every sequence of calls, including
\* rejected ones: changeShare checks every failure before its first write.
StakeConservation == totalStake = SumOf(Stakes)

\* Every holder with a stake has a settlement snapshot whose denominator
\* lastIncrementPerRevenue * lastTotalStake is finite and non-zero: its
\* snapshot total covers its own stake and the increment it saw is the
\* initial one, so the Phase 1 division of changeShare is well defined
\* however the pool was drained and refilled in between.
SettlementWellDefined ==
  \A a \in DOMAIN userStateMap :
    userStateMap[a].ownStake > 0 =>
      /\ userStateMap[a].lastTotalStake >= userStateMap[a].ownStake
      /\ userStateMap[a].lastIncrementPerRevenue = INCR_PER_REV_INIT

\* No holder's settled revenue is negative, infinite or NaN, nor more than
\* all the revenue ever injected (spec 3: accruedRevenue is non-negative;
\* a holder's share of each injection is at most the injection).
AccruedBounded ==
  \A a \in DOMAIN userStateMap :
    /\ FLeq(0, userStateMap[a].ownAccumulatedTotal)
    /\ FLeq(userStateMap[a].ownAccumulatedTotal, revenueIn * Unit)
=============================================================================
