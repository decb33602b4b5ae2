------------------------- MODULE NaiveLedgerProofs -------------------------
(***************************************************************************)
(* Proofs about NaiveLedger for every value of the constants: the type     *)
(* invariant, the bounds on totalShare that survive the early write of     *)
(* line 71, and that no holder's revenue ever decreases while callers do   *)
(* not inject revenue into an empty pool.                                  *)
(***************************************************************************)
EXTENDS NaiveLedger, HolderStoreProofs, DoublesProofs, TLAPS

USE NaiveConstantsAssumption, NAddrAssumption

\* The record changeShare starts from is a UserState whenever the map is.
LEMMA NaiveTmpType ==
  ASSUME TypeOK, NEW dest \in Addr
  PROVE  HashmapGet(userStateMap, dest, NewUserState) \in UserState
BY DEF TypeOK, HashmapGet, NewUserState, UserState, Double

\* Under TypeOK, Shares is a holding function over a finite set.
LEMMA SharesType ==
  ASSUME TypeOK
  PROVE  /\ Shares \in [Addr -> Nat]
         /\ IsFiniteSet(DOMAIN Shares)
<1>1. Shares \in [Addr -> Nat]
  BY DEF TypeOK, Shares, ShareOfAddr, UserState
<1>2. IsFiniteSet(Addr)
  BY FS_Interval DEF Addr
<1> QED
  BY <1>1, <1>2

\* What distributeRevenue adds to a holder is a double.
LEMMA ShareOfType ==
  ASSUME TypeOK, NEW s \in Nat, NEW amount \in Amounts
  PROVE  ShareOf(s, amount) \in Double
<1>1. s * Unit \in Double /\ totalShare \in Double /\ amount \in Double
  BY IntIsDouble DEF TypeOK
<1>2. FDiv(s * Unit, totalShare) \in Double
  BY <1>1, DoubleClosure
<1> QED
  BY <1>1, <1>2, DoubleClosure DEF ShareOf

\* TypeOK holds in every reachable state.
THEOREM NaiveTypeCorrect == Spec => []TypeOK
<1>1. Init => TypeOK
  BY DEF Init, TypeOK, EmptyMap
<1>2. TypeOK /\ [Next]_vars => TypeOK'
  <2> SUFFICES ASSUME TypeOK, [Next]_vars PROVE TypeOK'
    OBVIOUS
  <2>1. ASSUME NEW dest \in Addr, NEW change \in Changes,
               ChangeShare(dest, change)
        PROVE  TypeOK'
    <3> DEFINE tmp == HashmapGet(userStateMap, dest, NewUserState)
               rec == [tmp EXCEPT !.share = tmp.share + change]
    <3>1. tmp \in UserState
      BY NaiveTmpType
    <3>2. CASE tmp.share + change >= 0
               /\ totalShare' = totalShare + change
               /\ userStateMap' = HashmapSet(userStateMap, dest, rec)
               /\ UNCHANGED revenueIn /\ ret' = "EXIT_SUCCESS"
      <4>1. rec \in UserState
        BY <3>1, <3>2 DEF UserState
      <4>2. /\ DOMAIN HashmapSet(userStateMap, dest, rec) = DOMAIN userStateMap \cup {dest}
            /\ HashmapSet(userStateMap, dest, rec)
                 \in [DOMAIN userStateMap \cup {dest} -> UserState]
        <5>1. userStateMap \in [DOMAIN userStateMap -> UserState]
          BY DEF TypeOK
        <5> QED
          BY <4>1, <5>1, HashmapSetType
      <4>3. /\ userStateMap' \in [DOMAIN userStateMap' -> UserState]
            /\ DOMAIN userStateMap' \subseteq Addr
        BY <3>2, <4>2 DEF TypeOK
      <4> QED
        BY <3>2, <4>3 DEF TypeOK
    <3>3. CASE /\ totalShare' = totalShare + change
               /\ UNCHANGED <<userStateMap, revenueIn>> /\ ret' = "EXIT_FAILURE"
      BY <3>3 DEF TypeOK
    <3>4. CASE UNCHANGED <<totalShare, userStateMap, revenueIn>> /\ ret' = "EXIT_FAILURE"
      BY <3>4 DEF TypeOK
    <3> QED
      BY <2>1, <3>2, <3>3, <3>4 DEF ChangeShare, tmp, rec
  <2>2. ASSUME NEW amount \in Amounts, AddRevenue(amount)
        PROVE  TypeOK'
    <3>1. CASE amount > 0
      <4>1. \A a \in DOMAIN userStateMap :
              FAdd(userStateMap[a].revenue, ShareOf(userStateMap[a].share, amount)) \in Double
        BY ShareOfType, DoubleClosure DEF TypeOK, UserState
      <4> QED
        BY <2>2, <3>1, <4>1 DEF AddRevenue, TypeOK, UserState
    <3>2. CASE amount <= 0
      BY <2>2, <3>2 DEF AddRevenue, TypeOK
    <3> QED
      BY <3>1, <3>2
  <2>3. CASE UNCHANGED vars
    BY <2>3 DEF vars, TypeOK
  <2> QED
    BY <2>1, <2>2, <2>3 DEF Next
<1> QED
  BY <1>1, <1>2, PTL DEF Spec
-----------------------------------------------------------------------------
(***************************************************************************)
(* The bounds on totalShare.  changeShare writes the new total at line 71, *)
(* before the holder-underflow check, so ShareConservation fails (run      *)
(* naive_conservation); what survives is that the total stays between      *)
(* zero and the sum of the holders' shares.  The type invariant is the     *)
(* only strengthening the bounds need.                                     *)
(***************************************************************************)

\* A holder's share as the map records it, and as Shares reports it.
LEMMA TmpShare ==
  ASSUME TypeOK, NEW dest \in Addr
  PROVE  HashmapGet(userStateMap, dest, NewUserState).share = Shares[dest]
BY DEF TypeOK, HashmapGet, NewUserState, Shares, ShareOfAddr

NaiveIInv == TypeOK /\ TotalShareBounded

\* The initial state satisfies the inductive invariant.
LEMMA NaiveInit == Init => NaiveIInv
<1> SUFFICES ASSUME Init PROVE NaiveIInv
  OBVIOUS
<1>1. TypeOK
  BY DEF Init, TypeOK, EmptyMap
<1>2. SumOf(Shares) = 0
  BY SumZero DEF Init, Shares, ShareOfAddr, EmptyMap
<1> QED
  BY <1>1, <1>2 DEF NaiveIInv, TotalShareBounded, Init

\* In every reachable state 0 <= totalShare <= the sum of the holders'
\* shares, whatever changeShare calls were rejected after the early write
\* of the new total (line 71): that write can only lower the total.
THEOREM ShareBounds == Spec => []TotalShareBounded
<1>1. Init => NaiveIInv
  BY NaiveInit
<1>2. NaiveIInv /\ [Next]_vars /\ TypeOK' => NaiveIInv'
  <2> SUFFICES ASSUME NaiveIInv, [Next]_vars, TypeOK' PROVE TotalShareBounded'
    BY DEF NaiveIInv
  <2>0. /\ Shares \in [Addr -> Nat] /\ IsFiniteSet(DOMAIN Shares)
        /\ SumOf(Shares) \in Nat /\ totalShare \in Int
    BY SharesType, SumNat DEF NaiveIInv, TypeOK
  <2>1. ASSUME NEW dest \in Addr, NEW change \in Changes,
               ChangeShare(dest, change)
        PROVE  TotalShareBounded'
    <3> DEFINE tmp == HashmapGet(userStateMap, dest, NewUserState)
               rec == [tmp EXCEPT !.share = tmp.share + change]
    <3>0. tmp.share = Shares[dest] /\ tmp.share \in Nat /\ change \in Int
      BY <2>0, TmpShare DEF NaiveIInv
    \* changeShare succeeded: the total and the holder's share both move
    \* by change.
    <3>1. CASE /\ totalShare + change >= 0 /\ tmp.share + change >= 0
               /\ totalShare' = totalShare + change
               /\ userStateMap' = HashmapSet(userStateMap, dest, rec)
      <4> DEFINE n == tmp.share + change
      <4>1. Shares' = [Shares EXCEPT ![dest] = n]
        <5>1. tmp \in UserState
          BY NaiveTmpType DEF NaiveIInv
        <5>2. rec.share = n
          BY <5>1 DEF rec, UserState
        <5>3. \A a \in Addr : ShareOfAddr(a)' = IF a = dest THEN n ELSE ShareOfAddr(a)
          BY <3>1, <5>2 DEF ShareOfAddr, HashmapSet
        <5> QED
          BY <5>3 DEF Shares
      <4>2. n \in Nat
        BY <3>0, <3>1
      <4>3. SumOf([Shares EXCEPT ![dest] = n]) = SumOf(Shares) - Shares[dest] + n
        <5>1. /\ IsFiniteSet(DOMAIN Shares)
              /\ \A a \in DOMAIN Shares : Shares[a] \in Nat
              /\ dest \in DOMAIN Shares
          BY <2>0
        <5> QED
          BY <4>2, <5>1, SumExcept
      <4> QED
        BY <2>0, <3>0, <3>1, <4>1, <4>3 DEF NaiveIInv, TotalShareBounded
    \* The holder-underflow check failed after the total was written: the
    \* holder's share is too small for change, so change < 0.
    <3>2. CASE /\ totalShare + change >= 0 /\ tmp.share + change < 0
               /\ totalShare' = totalShare + change
               /\ UNCHANGED userStateMap
      <4>1. Shares' = Shares
        BY <3>2 DEF Shares, ShareOfAddr
      <4> QED
        BY <2>0, <3>0, <3>2, <4>1 DEF NaiveIInv, TotalShareBounded
    <3>3. CASE UNCHANGED <<totalShare, userStateMap>>
      BY <3>3 DEF NaiveIInv, TotalShareBounded, Shares, ShareOfAddr
    <3> QED
      BY <2>1, <3>1, <3>2, <3>3 DEF ChangeShare, tmp, rec
  <2>2. ASSUME NEW amount \in Amounts, AddRevenue(amount)
        PROVE  TotalShareBounded'
    <3>1. Shares' = Shares
      BY <2>2 DEF AddRevenue, Shares, ShareOfAddr, NaiveIInv, TypeOK, UserState
    <3> QED
      BY <2>2, <3>1 DEF AddRevenue, NaiveIInv, TotalShareBounded
  <2>3. CASE UNCHANGED vars
    BY <2>3 DEF vars, NaiveIInv, TotalShareBounded, Shares, ShareOfAddr
  <2> QED
    BY <2>1, <2>2, <2>3 DEF Next
<1>3. NaiveIInv => TotalShareBounded
  BY DEF NaiveIInv
<1> QED
  BY <1>1, <1>2, <1>3, NaiveTypeCorrect, PTL DEF Spec
-----------------------------------------------------------------------------
(***************************************************************************)
(* Revenue never decreases.  distributeRevenue adds                        *)
(* (share * Unit / totalShare) * amount to every holder; while callers     *)
(* avoid an empty pool (spec 7 rejects such a call) the divisor is         *)
(* positive by ShareBounds, so what is added is a natural number and every *)
(* revenue stays an exact natural number (never +inf or NaN).              *)
(***************************************************************************)

\* Every holder's revenue is an exact, non-negative integer.
RevenueNat == \A a \in DOMAIN userStateMap : userStateMap[a].revenue \in Nat

RevInv == NaiveIInv /\ RevenueNat

\* With a positive total share and a positive amount, what
\* distributeRevenue adds to a holder is a natural number.
LEMMA ShareOfNat ==
  ASSUME TypeOK, totalShare > 0, NEW s \in Nat, NEW amount \in Amounts,
         amount > 0
  PROVE  ShareOf(s, amount) \in Nat
<1> DEFINE q == (s * Unit) \div totalShare
<1>1. s * Unit \in Int /\ totalShare \in Int /\ amount \in Int
  BY DEF TypeOK
<1>2. q \in Nat /\ q \in Int /\ q * amount \in Nat
  BY <1>1
<1>3. FDiv(s * Unit, totalShare) = q
  BY <1>1, IntOps
<1>4. FMul(q, amount) = q * amount
  <2>1. q \in Int /\ amount \in Int
    BY <1>1, <1>2
  <2> QED
    BY <2>1, IntOps
<1> QED
  BY <1>2, <1>3, <1>4 DEF ShareOf

\* Each step adds a natural number to every existing holder's revenue and
\* keeps every revenue a natural number.
LEMMA RevenueStep ==
  ASSUME CallerAvoidsEmptyPool, RevInv, [Next]_vars
  PROVE  /\ \A a \in DOMAIN userStateMap :
              \E k \in Nat : userStateMap'[a].revenue = userStateMap[a].revenue + k
         /\ RevenueNat'
<1>1. ASSUME NEW dest \in Addr, NEW change \in Changes,
             ChangeShare(dest, change)
      PROVE  /\ \A a \in DOMAIN userStateMap :
                  userStateMap'[a].revenue = userStateMap[a].revenue + 0
             /\ RevenueNat'
  <2> DEFINE tmp == HashmapGet(userStateMap, dest, NewUserState)
             rec == [tmp EXCEPT !.share = tmp.share + change]
  <2>1. tmp \in UserState /\ tmp.revenue \in Nat
    BY NaiveTmpType DEF RevInv, NaiveIInv, RevenueNat, HashmapGet, NewUserState
  <2>2. CASE userStateMap' = HashmapSet(userStateMap, dest, rec)
    <3>1. \A a \in DOMAIN userStateMap : userStateMap'[a].revenue = userStateMap[a].revenue
      BY <2>1, <2>2 DEF HashmapSet, rec, tmp, HashmapGet
    <3>2. RevenueNat'
      BY <2>1, <2>2 DEF HashmapSet, rec, RevenueNat, RevInv, UserState
    <3> QED
      BY <3>1, <3>2 DEF RevInv, NaiveIInv, TypeOK, UserState, RevenueNat
  <2>3. CASE UNCHANGED userStateMap
    BY <2>3 DEF RevInv, RevenueNat
  <2> QED
    BY <1>1, <2>2, <2>3 DEF ChangeShare, tmp, rec
<1>2. ASSUME NEW amount \in Amounts, AddRevenue(amount)
      PROVE  /\ \A a \in DOMAIN userStateMap :
                  \E k \in Nat : userStateMap'[a].revenue = userStateMap[a].revenue + k
             /\ RevenueNat'
  <2>1. CASE amount > 0
    <3>1. totalShare > 0
      BY <1>2, <2>1 DEF AddRevenue, RevInv, NaiveIInv, TotalShareBounded, TypeOK
    <3>2. ASSUME NEW a \in DOMAIN userStateMap
          PROVE  /\ ShareOf(userStateMap[a].share, amount) \in Nat
                 /\ userStateMap'[a].revenue
                      = userStateMap[a].revenue + ShareOf(userStateMap[a].share, amount)
      <4>1. userStateMap[a].share \in Nat /\ userStateMap[a].revenue \in Nat
        BY DEF RevInv, NaiveIInv, TypeOK, UserState, RevenueNat
      <4>2. ShareOf(userStateMap[a].share, amount) \in Nat
        BY <2>1, <3>1, <4>1, ShareOfNat DEF RevInv, NaiveIInv
      <4>3. userStateMap'[a].revenue
              = FAdd(userStateMap[a].revenue, ShareOf(userStateMap[a].share, amount))
        BY <1>2, <2>1 DEF AddRevenue, RevInv, NaiveIInv, TypeOK, UserState
      <4>4. userStateMap[a].revenue \in Int
            /\ ShareOf(userStateMap[a].share, amount) \in Int
        BY <4>1, <4>2
      <4> QED
        BY <4>2, <4>3, <4>4, IntOps
    <3>3. DOMAIN userStateMap' = DOMAIN userStateMap
      BY <1>2, <2>1 DEF AddRevenue
    <3> QED
      BY <3>2, <3>3 DEF RevenueNat, RevInv
  <2>2. CASE amount <= 0
    BY <1>2, <2>2 DEF AddRevenue, RevInv, RevenueNat
  <2> QED
    BY <2>1, <2>2 DEF RevInv, NaiveIInv, TypeOK
<1>3. CASE UNCHANGED vars
  BY <1>3 DEF vars, RevInv, RevenueNat
<1> QED
  BY <1>1, <1>2, <1>3 DEF Next

\* No step of changeShare or addRevenue ever lowers a holder's revenue, nor
\* makes it NaN, provided callers never inject revenue into an empty pool
\* (without that, distributeRevenue divides by totalShare = 0 and the
\* revenue becomes NaN: the README's scalable_empty_pool discussion).
THEOREM RevenueNeverDecreases ==
  ASSUME CallerAvoidsEmptyPool
  PROVE  Spec => RevenueMonotone
<1>1. Init => RevInv
  BY NaiveInit DEF Init, RevInv, RevenueNat, EmptyMap
<1>2. RevInv /\ [Next]_vars /\ NaiveIInv' => RevInv'
  BY RevenueStep DEF RevInv
<1>3. Spec => []RevInv
  <2>1. Spec => []NaiveIInv
    BY NaiveTypeCorrect, ShareBounds, PTL DEF NaiveIInv
  <2> QED
    BY <1>1, <1>2, <2>1, PTL DEF Spec
<1>4. RevInv /\ [Next]_vars =>
        [\A a \in DOMAIN userStateMap :
            FLeq(userStateMap[a].revenue, userStateMap'[a].revenue)]_vars
  <2> SUFFICES ASSUME RevInv, [Next]_vars, NEW a \in DOMAIN userStateMap
               PROVE  FLeq(userStateMap[a].revenue, userStateMap'[a].revenue)
    OBVIOUS
  <2>1. PICK k \in Nat : userStateMap'[a].revenue = userStateMap[a].revenue + k
    BY RevenueStep
  <2>2. userStateMap[a].revenue \in Nat
    BY DEF RevInv, RevenueNat
  <2> DEFINE u == userStateMap[a].revenue
             v == userStateMap'[a].revenue
  <2>3. u \in Int /\ v \in Int /\ u <= v
    BY <2>1, <2>2
  <2>4. FLeq(u, v) <=> u <= v
    BY <2>3, IntOps
  <2> QED
    BY <2>3, <2>4
<1> QED
  BY <1>3, <1>4, PTL DEF Spec, RevenueMonotone
=============================================================================
