---------------------- MODULE ScalableSettlementProofs ----------------------
(***************************************************************************)
(* Proofs about the settlement of ScalableLedger, for every value of the   *)
(* constants, while hashmap_set does not fail: every staked holder's       *)
(* Phase 1 denominator is finite and non-zero, and (while callers never    *)
(* inject revenue into an empty pool) no holder's settled revenue is       *)
(* negative, infinite, NaN or more than all the revenue injected.          *)
(***************************************************************************)
EXTENDS ScalableLedgerProofs, TLAPS

USE ConstantsAssumption, NAddrAssumption

\* The record changeShare starts from carries the holder's stake.
LEMMA TmpStake ==
  ASSUME TypeOK, NEW dest \in Addr
  PROVE  HashmapGet(userStateMap, dest, NewUserState).ownStake = Stakes[dest]
BY DEF TypeOK, HashmapGet, NewUserState, Stakes, StakeOf

\* While the total is the sum of the stakes, no holder's stake exceeds it.
LEMMA StakeBelowTotal ==
  ASSUME IInv, NEW dest \in Addr
  PROVE  Stakes[dest] <= totalStake
BY StakesType, SumBound DEF IInv, StakeConservation

-----------------------------------------------------------------------------
(***************************************************************************)
(* Well-defined settlement.  A successful changeShare snapshots the new    *)
(* total and the new increment into the holder it changes; the new total  *)
(* covers the holder's new stake because the old total was the sum of all *)
(* stakes, and a non-zero new total resets the increment to its initial    *)
(* value (Phase 2).                                                        *)
(***************************************************************************)
SIInv == IInv /\ SettlementWellDefined

\* One step of changeShare or addRevenue keeps every staked holder's
\* snapshot covering its stake with the initial increment.
LEMMA SettlementStep ==
  ASSUME ~HashmapMayFail, SIInv, [Next]_vars, IInv'
  PROVE  SettlementWellDefined'
<1>1. ASSUME NEW dest \in Addr, NEW change \in Changes,
             ChangeShare(dest, change)
      PROVE  SettlementWellDefined'
  <2> DEFINE tmp == HashmapGet(userStateMap, dest, NewUserState)
             incr == NewIncrement(totalStake, totalStake + change)
             rec == [ownStake |-> tmp.ownStake + change,
                     ownAccumulatedTotal |-> FAdd(tmp.ownAccumulatedTotal,
                                                  FreshOwn(tmp)),
                     lastIndex |-> index,
                     lastIncrementPerRevenue |-> incr,
                     lastTotalStake |-> totalStake + change]
  <2>1. CASE /\ tmp.ownStake + change >= 0
             /\ totalStake' = totalStake + change
             /\ userStateMap' = HashmapSet(userStateMap, dest, rec)
    <3>1. tmp.ownStake <= totalStake /\ tmp.ownStake \in Nat
          /\ totalStake \in Int /\ change \in Int
      BY TmpStake, TmpType, StakeBelowTotal DEF SIInv, IInv, TypeOK, UserState
    <3>2. rec.ownStake > 0 =>
            /\ rec.lastTotalStake >= rec.ownStake
            /\ rec.lastIncrementPerRevenue = INCR_PER_REV_INIT
      BY <3>1 DEF NewIncrement
    <3>3. \A a \in DOMAIN userStateMap' :
            userStateMap'[a] = IF a = dest THEN rec ELSE userStateMap[a]
      BY <2>1 DEF HashmapSet
    <3>4. DOMAIN userStateMap' = DOMAIN userStateMap \cup {dest}
      BY <2>1 DEF HashmapSet
    <3> QED
      BY <3>2, <3>3, <3>4 DEF SIInv, SettlementWellDefined
  <2>2. CASE UNCHANGED userStateMap
    BY <2>2 DEF SIInv, SettlementWellDefined
  <2> QED
    BY <1>1, <2>1, <2>2 DEF ChangeShare, tmp, incr, rec
<1>2. ASSUME NEW amount \in Amounts, AddRevenue(amount)
      PROVE  SettlementWellDefined'
  BY <1>2 DEF AddRevenue, SIInv, SettlementWellDefined
<1>3. CASE UNCHANGED vars
  BY <1>3 DEF vars, SIInv, SettlementWellDefined
<1> QED
  BY <1>1, <1>2, <1>3 DEF Next

\* Every staked holder's settlement denominator lastIncrementPerRevenue *
\* lastTotalStake is the initial increment times a total covering its own
\* stake, so changeShare's Phase 1 division never divides by zero or by an
\* infinity, however the pool was drained and refilled.  It rests on
\* conservation, so it holds while hashmap_set never fails.
THEOREM SettlementSafe ==
  ASSUME ~HashmapMayFail
  PROVE  Spec => []SettlementWellDefined
<1>1. Init => SIInv
  <2> SUFFICES ASSUME Init PROVE SIInv
    OBVIOUS
  <2>1. TypeOK
    BY DEF Init, TypeOK, EmptyMap, Double
  <2>2. StakeConservation
    BY SumZero DEF Init, StakeConservation, Stakes, StakeOf, EmptyMap
  <2> QED
    BY <2>1, <2>2 DEF Init, SIInv, IInv, SettlementWellDefined, EmptyMap
<1>2. SIInv /\ [Next]_vars /\ IInv' => SIInv'
  BY SettlementStep DEF SIInv
<1>3. Spec => []IInv
  BY TypeCorrect, Conservation, PTL DEF IInv
<1>4. Spec => []SIInv
  BY <1>1, <1>2, <1>3, PTL DEF Spec
<1> QED
  BY <1>4, PTL DEF SIInv
-----------------------------------------------------------------------------
(***************************************************************************)
(* Bounded settled revenue.  While callers avoid an empty pool, addRevenue *)
(* runs only with totalStake # 0, when incrementPerRevenue has its initial *)
(* value, so index = INDEX_INIT + INCR_PER_REV_INIT * revenueIn.  A        *)
(* holder's snapshot lastIndex is the index at some earlier revenue r, and *)
(* its settled revenue is at most r * Unit; Phase 1 then adds             *)
(* (revenueIn - r) * ownStake * Unit / lastTotalStake, at most             *)
(* (revenueIn - r) * Unit since lastTotalStake >= ownStake.                *)
(***************************************************************************)

\* Integer division of c * a * s by c * L is between 0 and a when
\* 0 < s <= L: a holder's share of a revenue never exceeds the revenue.
LEMMA ShareDivBound ==
  ASSUME NEW a \in Nat, NEW s \in Nat, NEW L \in Nat, NEW c \in Nat,
         0 < s, s <= L, 0 < c
  PROVE  /\ (c * a * s) \div (c * L) \in Nat
         /\ (c * a * s) \div (c * L) <= a
<1> DEFINE x == c * a * s
           y == c * L
           q == x \div y
<1>1. x \in Nat /\ y \in Nat /\ y > 0
  OBVIOUS
<1>2. q \in Nat /\ q * y <= x
  BY <1>1
<1>3. x <= a * y
  <2>1. a * s <= a * L
    OBVIOUS
  <2> QED
    BY <2>1
<1>4. q * y <= a * y
  BY <1>2, <1>3
<1> QED
  BY <1>1, <1>2, <1>4

\* The increment is the initial one whenever the pool is not empty.
IncrReset == totalStake # 0 => incrementPerRevenue = INCR_PER_REV_INIT

\* index has grown by the initial increment per unit of revenue injected.
IndexTracks == index = INDEX_INIT + INCR_PER_REV_INIT * revenueIn

\* A holder's snapshot is the index at some revenue r injected so far, and
\* its settled revenue is a natural number of at most r units.
CoveredIn(u, rev) ==
  \E r \in 0 .. rev :
    /\ u.lastIndex = INDEX_INIT + INCR_PER_REV_INIT * r
    /\ u.ownAccumulatedTotal \in Nat
    /\ u.ownAccumulatedTotal <= r * Unit

Covered(u) == CoveredIn(u, revenueIn)

\* Every holder's snapshot is covered.
AllCovered == \A a \in DOMAIN userStateMap : Covered(userStateMap[a])

AInv == SIInv /\ IncrReset /\ IndexTracks /\ AllCovered

\* What Phase 1 settles for a covered holder keeps the settled revenue a
\* natural number within all the revenue injected.
LEMMA FreshOwnBound ==
  ASSUME IndexTracks, revenueIn \in Nat, NEW u \in UserState, Covered(u),
         u.ownStake > 0 => /\ u.lastTotalStake >= u.ownStake
                           /\ u.lastIncrementPerRevenue = INCR_PER_REV_INIT
  PROVE  /\ FreshOwn(u) \in Nat
         /\ FAdd(u.ownAccumulatedTotal, FreshOwn(u))
              = u.ownAccumulatedTotal + FreshOwn(u)
         /\ u.ownAccumulatedTotal + FreshOwn(u) <= revenueIn * Unit
<1>1. PICK r \in 0 .. revenueIn :
        /\ u.lastIndex = INDEX_INIT + INCR_PER_REV_INIT * r
        /\ u.ownAccumulatedTotal \in Nat
        /\ u.ownAccumulatedTotal <= r * Unit
  BY DEF Covered, CoveredIn
<1> DEFINE acc == u.ownAccumulatedTotal
<1>2. r * Unit <= revenueIn * Unit /\ acc \in Int
  BY <1>1
<1>3. CASE u.ownStake = 0
  <2>1. FreshOwn(u) = 0
    BY <1>3 DEF FreshOwn
  <2>2. 0 \in Int
    OBVIOUS
  <2>3. FAdd(acc, 0) = acc + 0
    BY <1>2, <2>2, IntOps
  <2> QED
    BY <1>1, <1>2, <2>1, <2>3
<1>4. CASE u.ownStake # 0
  <2> DEFINE k == revenueIn - r
             s == u.ownStake
             L == u.lastTotalStake
             c == INCR_PER_REV_INIT
             d == u.lastIndex
  <2>1. /\ k \in Nat /\ s \in Nat /\ 0 < s /\ L \in Nat /\ s <= L
        /\ c \in Nat /\ 0 < c /\ u.lastIncrementPerRevenue = c
    BY <1>4 DEF UserState
  <2>2. index \in Int /\ d \in Int /\ index - d = c * k
    BY <1>1 DEF IndexTracks
  <2>3. FSub(index, d) = c * k
    BY <2>2, IntOps
  <2>4. c * k \in Int /\ s \in Int /\ c * k * s \in Int /\ Unit \in Int
    BY <2>1
  <2>5. FMul(c * k, s) = c * k * s
    BY <2>4, IntOps
  <2>6. FMul(c * k * s, Unit) = c * k * s * Unit
    BY <2>4, IntOps
  <2>7. c \in Int /\ L \in Int /\ c * L > 0
    BY <2>1
  <2>8. FMul(u.lastIncrementPerRevenue, L) = c * L
    BY <2>1, <2>7, IntOps
  <2>9. c * k * s * Unit \in Int /\ c * L \in Int
    BY <2>1
  <2>10. FDiv(c * k * s * Unit, c * L) = (c * k * s * Unit) \div (c * L)
    BY <2>7, <2>9, IntOps
  <2>11. FreshOwn(u) = (c * (k * Unit) * s) \div (c * L)
    <3>1. c * k * s * Unit = c * (k * Unit) * s
      BY <2>1
    <3> QED
      BY <1>4, <2>3, <2>5, <2>6, <2>8, <2>10, <3>1 DEF FreshOwn
  <2>12. FreshOwn(u) \in Nat /\ FreshOwn(u) <= k * Unit
    <3>1. k * Unit \in Nat
      BY <2>1
    <3>2. \A a \in Nat : /\ (c * a * s) \div (c * L) \in Nat
                        /\ (c * a * s) \div (c * L) <= a
      BY <2>1, ShareDivBound
    <3> QED
      BY <2>11, <3>1, <3>2
  <2>13. FAdd(acc, FreshOwn(u)) = acc + FreshOwn(u)
    <3>1. acc \in Int /\ FreshOwn(u) \in Int
      BY <1>2, <2>12
    <3> QED
      BY <3>1, IntOps
  <2>14. acc + FreshOwn(u) <= revenueIn * Unit
    BY <1>1, <2>12
  <2> QED
    BY <2>12, <2>13, <2>14
<1> QED
  BY <1>3, <1>4
\* A fresh holder's record: the current snapshot, nothing settled.
LEMMA NewUserCovered ==
  ASSUME IndexTracks, revenueIn \in Nat
  PROVE  Covered(NewUserState)
<1>1. revenueIn \in 0 .. revenueIn /\ 0 <= revenueIn * Unit
  OBVIOUS
<1> QED
  BY <1>1 DEF Covered, CoveredIn, NewUserState, IndexTracks

\* One step of changeShare or addRevenue keeps the increment reset, index
\* tracking the revenue injected, and every snapshot covering its holder's
\* settled revenue.
LEMMA AccruedStep ==
  ASSUME CallerAvoidsEmptyPool, ~HashmapMayFail, AInv, [Next]_vars
  PROVE  IncrReset' /\ IndexTracks' /\ AllCovered'
<1>0. TypeOK /\ revenueIn \in Nat /\ IndexTracks /\ SettlementWellDefined
      /\ IncrReset /\ AllCovered
  BY DEF AInv, SIInv, IInv, TypeOK
<1>1. AllCovered' <=> \A a \in DOMAIN userStateMap' : CoveredIn(userStateMap'[a], revenueIn')
  BY DEF AllCovered, Covered, CoveredIn
<1>2. ASSUME NEW dest \in Addr, NEW change \in Changes,
             ChangeShare(dest, change)
      PROVE  IncrReset' /\ IndexTracks' /\ AllCovered'
  <2> DEFINE tmp == HashmapGet(userStateMap, dest, NewUserState)
             incr == NewIncrement(totalStake, totalStake + change)
             rec == [ownStake |-> tmp.ownStake + change,
                     ownAccumulatedTotal |-> FAdd(tmp.ownAccumulatedTotal,
                                                  FreshOwn(tmp)),
                     lastIndex |-> index,
                     lastIncrementPerRevenue |-> incr,
                     lastTotalStake |-> totalStake + change]
  <2>1. CASE /\ tmp.ownStake + change >= 0
             /\ totalStake' = totalStake + change
             /\ incrementPerRevenue' = incr
             /\ userStateMap' = HashmapSet(userStateMap, dest, rec)
             /\ UNCHANGED <<index, revenueIn>>
    <3>1. /\ tmp \in UserState /\ Covered(tmp)
          /\ (tmp.ownStake > 0 => /\ tmp.lastTotalStake >= tmp.ownStake
                                  /\ tmp.lastIncrementPerRevenue = INCR_PER_REV_INIT)
      <4>1. tmp \in UserState
        BY <1>0, TmpType
      <4>2. CASE dest \in DOMAIN userStateMap
        BY <1>0, <4>1, <4>2 DEF AllCovered, SettlementWellDefined, HashmapGet
      <4>3. CASE dest \notin DOMAIN userStateMap
        BY <1>0, <4>1, <4>3, NewUserCovered DEF HashmapGet, NewUserState
      <4> QED
        BY <4>2, <4>3
    <3>2. /\ FreshOwn(tmp) \in Nat
          /\ FAdd(tmp.ownAccumulatedTotal, FreshOwn(tmp))
               = tmp.ownAccumulatedTotal + FreshOwn(tmp)
          /\ tmp.ownAccumulatedTotal + FreshOwn(tmp) <= revenueIn * Unit
      <4>1. IndexTracks /\ revenueIn \in Nat
        BY <1>0
      <4> QED
        BY <3>1, <4>1, FreshOwnBound
    <3>3. CoveredIn(rec, revenueIn)
      <4>1. rec.lastIndex = INDEX_INIT + INCR_PER_REV_INIT * revenueIn
        BY <1>0 DEF IndexTracks
      <4>2. revenueIn \in 0 .. revenueIn /\ tmp.ownAccumulatedTotal \in Nat
        BY <1>0, <3>1 DEF Covered, CoveredIn
      <4>3. rec.ownAccumulatedTotal \in Nat
            /\ rec.ownAccumulatedTotal <= revenueIn * Unit
        BY <3>2, <4>2
      <4> QED
        BY <4>1, <4>2, <4>3 DEF CoveredIn
    <3>4. \A a \in DOMAIN userStateMap' : CoveredIn(userStateMap'[a], revenueIn')
      BY <1>0, <2>1, <3>3 DEF HashmapSet, AllCovered, Covered
    <3>5. IncrReset'
      BY <2>1 DEF IncrReset, NewIncrement
    <3> QED
      BY <1>0, <1>1, <2>1, <3>4, <3>5 DEF IndexTracks
  <2>2. CASE UNCHANGED <<totalStake, incrementPerRevenue, index,
                         userStateMap, revenueIn>>
    BY <1>0, <2>2 DEF IncrReset, IndexTracks, AllCovered, Covered, CoveredIn
  <2> QED
    BY <1>2, <2>1, <2>2, ~HashmapMayFail DEF ChangeShare, tmp, incr, rec
<1>3. ASSUME NEW amount \in Amounts, AddRevenue(amount)
      PROVE  IncrReset' /\ IndexTracks' /\ AllCovered'
  <2>1. CASE amount > 0
    <3>1. totalStake # 0 /\ incrementPerRevenue = INCR_PER_REV_INIT
      BY <1>0, <1>3, <2>1 DEF AddRevenue, IncrReset
    <3>2. index' = index + INCR_PER_REV_INIT * amount
      <4>1. INCR_PER_REV_INIT \in Int /\ amount \in Int
            /\ INCR_PER_REV_INIT * amount \in Int /\ index \in Int
        BY <1>0 DEF IndexTracks
      <4>2. FMul(INCR_PER_REV_INIT, amount) = INCR_PER_REV_INIT * amount
        BY <4>1, IntOps
      <4>3. FAdd(index, INCR_PER_REV_INIT * amount) = index + INCR_PER_REV_INIT * amount
        BY <4>1, IntOps
      <4> QED
        BY <1>3, <2>1, <3>1, <4>2, <4>3 DEF AddRevenue
    <3>3. revenueIn' = revenueIn + amount /\ amount \in Nat
          /\ UNCHANGED <<totalStake, incrementPerRevenue, userStateMap>>
      BY <1>3, <2>1 DEF AddRevenue
    <3>4. IndexTracks'
      BY <1>0, <3>2, <3>3 DEF IndexTracks
    <3>5. \A a \in DOMAIN userStateMap' : CoveredIn(userStateMap'[a], revenueIn')
      <4> SUFFICES ASSUME NEW a \in DOMAIN userStateMap
                   PROVE  CoveredIn(userStateMap[a], revenueIn + amount)
        BY <3>3
      <4>1. PICK r \in 0 .. revenueIn :
              /\ userStateMap[a].lastIndex = INDEX_INIT + INCR_PER_REV_INIT * r
              /\ userStateMap[a].ownAccumulatedTotal \in Nat
              /\ userStateMap[a].ownAccumulatedTotal <= r * Unit
        BY <1>0 DEF AllCovered, Covered, CoveredIn
      <4>2. r \in 0 .. revenueIn + amount
        BY <1>0, <3>3
      <4> QED
        BY <4>1, <4>2 DEF CoveredIn
    <3>6. IncrReset'
      BY <1>0, <3>3 DEF IncrReset
    <3>7. AllCovered'
      BY <1>1, <3>5
    <3> QED
      BY <3>4, <3>6, <3>7
  <2>2. CASE amount <= 0
    <3>1. UNCHANGED <<totalStake, incrementPerRevenue, index, userStateMap,
                      revenueIn>>
      BY <1>3, <2>2 DEF AddRevenue
    <3>2. AllCovered'
      BY <1>0, <1>1, <3>1 DEF AllCovered, Covered
    <3> QED
      BY <1>0, <3>1, <3>2 DEF IncrReset, IndexTracks
  <2> QED
    BY <1>0, <2>1, <2>2
<1>4. CASE UNCHANGED vars
  BY <1>0, <1>4 DEF vars, IncrReset, IndexTracks, AllCovered, Covered, CoveredIn
<1> QED
  BY <1>2, <1>3, <1>4 DEF Next

\* Every holder's settled revenue is a finite, non-negative number of units
\* no larger than all the revenue injected (AccruedBounded: the
\* accumulatedRevenue that changeShare's Phase 1 settles and getRevenue
\* reports), provided callers never inject revenue into an empty pool and
\* hashmap_set does not fail.
THEOREM AccruedSafe ==
  ASSUME CallerAvoidsEmptyPool, ~HashmapMayFail
  PROVE  Spec => []AccruedBounded
<1>1. Init => AInv
  <2> SUFFICES ASSUME Init PROVE AInv
    OBVIOUS
  <2>1. SIInv
    <3>1. TypeOK
      BY DEF Init, TypeOK, EmptyMap, Double
    <3>2. StakeConservation
      BY SumZero DEF Init, StakeConservation, Stakes, StakeOf, EmptyMap
    <3> QED
      BY <3>1, <3>2 DEF Init, SIInv, IInv, SettlementWellDefined, EmptyMap
  <2>2. IncrReset /\ IndexTracks /\ AllCovered
    BY DEF Init, IncrReset, IndexTracks, AllCovered, EmptyMap
  <2> QED
    BY <2>1, <2>2 DEF AInv
<1>2. AInv /\ [Next]_vars /\ SIInv' => AInv'
  BY AccruedStep DEF AInv
<1>3. Spec => []SIInv
  <2>1. Spec => []IInv
    BY TypeCorrect, Conservation, PTL DEF IInv
  <2> QED
    BY <2>1, SettlementSafe, PTL DEF SIInv
<1>4. AInv => AccruedBounded
  <2> SUFFICES ASSUME AInv, NEW a \in DOMAIN userStateMap
               PROVE  /\ FLeq(0, userStateMap[a].ownAccumulatedTotal)
                      /\ FLeq(userStateMap[a].ownAccumulatedTotal,
                              revenueIn * Unit)
    BY DEF AccruedBounded
  <2> DEFINE acc == userStateMap[a].ownAccumulatedTotal
  <2>1. revenueIn \in Nat
    BY DEF AInv, SIInv, IInv, TypeOK
  <2>2. PICK r \in 0 .. revenueIn : acc \in Nat /\ acc <= r * Unit
    BY DEF AInv, AllCovered, Covered, CoveredIn
  <2>3. acc \in Int /\ 0 \in Int /\ revenueIn * Unit \in Int
        /\ 0 <= acc /\ acc <= revenueIn * Unit
    BY <2>1, <2>2
  <2>4. FLeq(0, acc) <=> 0 <= acc
    BY <2>3, IntOps
  <2>5. FLeq(acc, revenueIn * Unit) <=> acc <= revenueIn * Unit
    BY <2>3, IntOps
  <2> QED
    BY <2>3, <2>4, <2>5
<1> QED
  BY <1>1, <1>2, <1>3, <1>4, PTL DEF Spec
=============================================================================
