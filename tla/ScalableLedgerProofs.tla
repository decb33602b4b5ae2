------------------------ MODULE ScalableLedgerProofs ------------------------
(***************************************************************************)
(* Proofs about ScalableLedger for every value of the constants: the type  *)
(* invariant, and the conservation of stake (the total stake changeShare   *)
(* keeps equals the sum of the holders' stakes).                           *)
(***************************************************************************)
EXTENDS ScalableLedger, HolderStoreProofs, DoublesProofs, TLAPS

USE ConstantsAssumption, NAddrAssumption

-----------------------------------------------------------------------------
(***************************************************************************)
(* Type correctness.                                                       *)
(***************************************************************************)

\* The record changeShare starts from is a UserState whenever the globals
\* are well typed.
LEMMA TmpType ==
  ASSUME TypeOK, NEW dest \in Addr
  PROVE  HashmapGet(userStateMap, dest, NewUserState) \in UserState
BY DEF TypeOK, HashmapGet, NewUserState, UserState, Double

\* TypeOK holds in every reachable state.
THEOREM TypeCorrect == Spec => []TypeOK
<1>1. Init => TypeOK
  BY DEF Init, TypeOK, EmptyMap, Double
<1>2. TypeOK /\ [Next]_vars => TypeOK'
  <2> SUFFICES ASSUME TypeOK, [Next]_vars PROVE TypeOK'
    OBVIOUS
  <2>1. ASSUME NEW dest \in Addr, NEW change \in Changes,
               ChangeShare(dest, change)
        PROVE  TypeOK'
    <3> DEFINE tmp == HashmapGet(userStateMap, dest, NewUserState)
               incr == NewIncrement(totalStake, totalStake + change)
               rec == [ownStake |-> tmp.ownStake + change,
                       ownAccumulatedTotal |-> FAdd(tmp.ownAccumulatedTotal,
                                                    FreshOwn(tmp)),
                       lastIndex |-> index,
                       lastIncrementPerRevenue |-> incr,
                       lastTotalStake |-> totalStake + change]
    <3>1. tmp \in UserState
      BY TmpType
    <3>2. FreshOwn(tmp) \in Double
      <4>1. /\ index \in Double /\ tmp.lastIndex \in Double
            /\ tmp.ownStake \in Double /\ Unit \in Double
            /\ tmp.lastIncrementPerRevenue \in Double
            /\ tmp.lastTotalStake \in Double
        BY <3>1, IntIsDouble DEF TypeOK, UserState
      <4>2. FSub(index, tmp.lastIndex) \in Double
        BY <4>1, DoubleClosure
      <4>3. FMul(FSub(index, tmp.lastIndex), tmp.ownStake) \in Double
        BY <4>1, <4>2, DoubleClosure
      <4>4. FMul(FMul(FSub(index, tmp.lastIndex), tmp.ownStake), Unit) \in Double
        BY <4>1, <4>3, DoubleClosure
      <4>5. FMul(tmp.lastIncrementPerRevenue, tmp.lastTotalStake) \in Double
        BY <4>1, DoubleClosure
      <4>6. FDiv(FMul(FMul(FSub(index, tmp.lastIndex), tmp.ownStake), Unit),
                 FMul(tmp.lastIncrementPerRevenue, tmp.lastTotalStake)) \in Double
        BY <4>4, <4>5, DoubleClosure
      <4> QED
        BY <4>6, IntIsDouble DEF FreshOwn
    <3>3. incr \in Double
      <4>1. totalStake \in Double /\ totalStake + change \in Double
            /\ incrementPerRevenue \in Double
        BY IntIsDouble DEF TypeOK
      <4>2. FDiv(totalStake, totalStake + change) \in Double
        BY <4>1, DoubleClosure
      <4>3. FMul(incrementPerRevenue, FDiv(totalStake, totalStake + change)) \in Double
        BY <4>1, <4>2, DoubleClosure
      <4> QED
        BY <4>1, <4>3, IntIsDouble DEF NewIncrement
    <3>4. FAdd(tmp.ownAccumulatedTotal, FreshOwn(tmp)) \in Double
      BY <3>1, <3>2, DoubleClosure DEF UserState
    <3>5. ASSUME tmp.ownStake + change >= 0 PROVE rec \in UserState
      BY <3>1, <3>3, <3>4, <3>5 DEF UserState, TypeOK
    <3>6. CASE /\ tmp.ownStake + change >= 0
               /\ userStateMap' = HashmapSet(userStateMap, dest, rec)
               /\ totalStake' = totalStake + change
               /\ incrementPerRevenue' = incr
               /\ ret' = "EXIT_SUCCESS"
               /\ UNCHANGED <<index, revenueIn>>
      <4>1. /\ DOMAIN HashmapSet(userStateMap, dest, rec) = DOMAIN userStateMap \cup {dest}
            /\ HashmapSet(userStateMap, dest, rec)
                 \in [DOMAIN userStateMap \cup {dest} -> UserState]
        <5>1. userStateMap \in [DOMAIN userStateMap -> UserState]
          BY DEF TypeOK
        <5> QED
          BY <3>5, <3>6, <5>1, HashmapSetType
      <4>2. /\ userStateMap' \in [DOMAIN userStateMap' -> UserState]
            /\ DOMAIN userStateMap' \subseteq Addr
        BY <3>6, <4>1 DEF TypeOK
      <4> QED
        BY <3>3, <3>6, <4>2 DEF TypeOK
    <3>7. CASE /\ ret' = "EXIT_FAILURE"
               /\ UNCHANGED <<totalStake, incrementPerRevenue, index,
                              userStateMap, revenueIn>>
      BY <3>7 DEF TypeOK
    \* hashmap_set failed: the totals are written, the store is not.
    <3>8. CASE /\ totalStake' = totalStake + change
               /\ incrementPerRevenue' = incr
               /\ ret' = "EXIT_SUCCESS"
               /\ UNCHANGED <<index, revenueIn, userStateMap>>
      BY <3>3, <3>8 DEF TypeOK
    <3> QED
      BY <2>1, <3>6, <3>7, <3>8 DEF ChangeShare, tmp, incr, rec
  <2>2. ASSUME NEW amount \in Amounts, AddRevenue(amount)
        PROVE  TypeOK'
    <3>1. CASE amount > 0
      <4>1. FMul(incrementPerRevenue, amount) \in Double
        BY DoubleClosure DEF TypeOK, Double
      <4>2. FAdd(index, FMul(incrementPerRevenue, amount)) \in Double
        BY <4>1, DoubleClosure DEF TypeOK
      <4> QED
        BY <2>2, <3>1, <4>2 DEF AddRevenue, TypeOK
    <3>2. CASE amount <= 0
      BY <2>2, <3>2 DEF AddRevenue, TypeOK
    <3> QED
      BY <3>1, <3>2
  <2>3. CASE UNCHANGED vars
    BY <2>3 DEF vars, TypeOK
  <2> QED
    BY <2>1, <2>2, <2>3 DEF Next
<1> QED
  BY <1>1, <1>2, PTL DEF Spec

-----------------------------------------------------------------------------
(***************************************************************************)
(* Conservation of stake.                                                  *)
(***************************************************************************)

\* Under TypeOK, Stakes is a holding function over a finite set.
LEMMA StakesType ==
  ASSUME TypeOK
  PROVE  /\ Stakes \in [Addr -> Nat]
         /\ IsFiniteSet(DOMAIN Stakes)
<1>1. Stakes \in [Addr -> Nat]
  BY DEF TypeOK, Stakes, StakeOf, UserState
<1>2. IsFiniteSet(Addr)
  BY FS_Interval DEF Addr
<1> QED
  BY <1>1, <1>2

\* The inductive invariant: conservation needs only the type invariant.
IInv == TypeOK /\ StakeConservation

\* Conservation (spec 8): in every reachable state totalStake is the sum of
\* the holders' stakes, whatever changeShare calls were made or rejected:
\* changeShare checks every failure before it writes totalStake.  It holds
\* only while hashmap_set never fails to allocate (run scalable_oom).
THEOREM Conservation ==
  ASSUME ~HashmapMayFail
  PROVE  Spec => []StakeConservation
<1>1. Init => IInv
  <2> SUFFICES ASSUME Init PROVE IInv
    OBVIOUS
  <2>1. TypeOK
    BY DEF Init, TypeOK, EmptyMap, Double
  <2>2. \A a \in DOMAIN Stakes : Stakes[a] = 0
    BY DEF Init, Stakes, StakeOf, EmptyMap
  <2> QED
    BY <2>1, <2>2, SumZero DEF IInv, StakeConservation, Init
<1>2. IInv /\ [Next]_vars /\ TypeOK' => IInv'
  <2> SUFFICES ASSUME IInv, [Next]_vars, TypeOK' PROVE StakeConservation'
    BY DEF IInv
  <2>0. Stakes \in [Addr -> Nat] /\ IsFiniteSet(DOMAIN Stakes)
    BY StakesType DEF IInv
  <2>1. ASSUME NEW dest \in Addr, NEW change \in Changes,
               ChangeShare(dest, change)
        PROVE  StakeConservation'
    <3> DEFINE tmp == HashmapGet(userStateMap, dest, NewUserState)
               incr == NewIncrement(totalStake, totalStake + change)
               rec == [ownStake |-> tmp.ownStake + change,
                       ownAccumulatedTotal |-> FAdd(tmp.ownAccumulatedTotal,
                                                    FreshOwn(tmp)),
                       lastIndex |-> index,
                       lastIncrementPerRevenue |-> incr,
                       lastTotalStake |-> totalStake + change]
    <3>1. CASE /\ tmp.ownStake + change >= 0
               /\ totalStake' = totalStake + change
               /\ userStateMap' = HashmapSet(userStateMap, dest, rec)
      <4>1. tmp.ownStake = Stakes[dest] /\ tmp.ownStake + change \in Nat
        BY <3>1, TmpType DEF IInv, tmp, HashmapGet, NewUserState,
                                Stakes, StakeOf, UserState
      <4>2. Stakes' = [Stakes EXCEPT ![dest] = tmp.ownStake + change]
        BY <3>1 DEF Stakes, StakeOf, HashmapSet, rec
      <4>3. SumOf(Stakes') = SumOf(Stakes) - Stakes[dest] + (tmp.ownStake + change)
        BY <2>0, <4>1, <4>2, SumExcept
      <4>4. SumOf(Stakes) \in Int /\ change \in Int
        BY DEF IInv, StakeConservation, TypeOK
      <4>5. SumOf(Stakes') = totalStake'
        BY <2>0, <3>1, <4>1, <4>3, <4>4 DEF IInv, StakeConservation
      <4> QED
        BY <4>5 DEF StakeConservation, SumOf, Units, UnitsOf
    <3>2. CASE UNCHANGED <<totalStake, userStateMap>>
      BY <3>2 DEF IInv, StakeConservation, Stakes, StakeOf
    <3> QED
      BY <2>1, <3>1, <3>2, ~HashmapMayFail DEF ChangeShare, tmp, incr, rec
  <2>2. ASSUME NEW amount \in Amounts, AddRevenue(amount)
        PROVE  StakeConservation'
    BY <2>2 DEF AddRevenue, IInv, StakeConservation, Stakes, StakeOf
  <2>3. CASE UNCHANGED vars
    BY <2>3 DEF vars, IInv, StakeConservation, Stakes, StakeOf
  <2> QED
    BY <2>1, <2>2, <2>3 DEF Next
<1>3. IInv => StakeConservation
  BY DEF IInv
<1> QED
  BY <1>1, <1>2, <1>3, TypeCorrect, PTL DEF Spec
=============================================================================
