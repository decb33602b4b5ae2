---------------------------- MODULE DoublesProofs ----------------------------
(***************************************************************************)
(* Lemmas about the IEEE-754 operations of Doubles that the ledgers' proofs *)
(* cite: each operation maps doubles to doubles, and on exact integers     *)
(* (no special value involved) each is the integer operation.              *)
(***************************************************************************)
EXTENDS Doubles, TLAPS

(***************************************************************************)
(* The double operations of Doubles map doubles to doubles.                *)
(***************************************************************************)
LEMMA IntIsDouble == Int \subseteq Double
BY DEF Double

LEMMA DoubleClosure ==
  ASSUME NEW x \in Double, NEW y \in Double
  PROVE  /\ FAdd(x, y) \in Double
         /\ FSub(x, y) \in Double
         /\ FMul(x, y) \in Double
         /\ FDiv(x, y) \in Double
<1>1. \A s \in Int : InfOfSign(s) \in Double
  BY DEF InfOfSign, Double, Specials
<1>2. \A z \in Double : Sign(z) \in Int
  BY DEF Sign
<1>3. FNeg(y) \in Double
  BY <1>1, <1>2 DEF FNeg, Double, Specials, IsInf
<1>4. \A u, v \in Double : FAdd(u, v) \in Double
  BY DEF FAdd, Double, Specials, IsInf
<1>5. FMul(x, y) \in Double
  BY <1>1, <1>2 DEF FMul, Double, Specials, IsInf
<1>6. FDiv(x, y) \in Double
  <2>1. CASE x = NaN \/ y = NaN
    BY <2>1 DEF FDiv, Double, Specials
  <2>2. CASE x # NaN /\ y # NaN /\ (IsInf(x) \/ IsInf(y))
    <3>1. Sign(x) * (IF y < 0 THEN -1 ELSE 1) \in Int
      BY <1>2
    <3> QED
      BY <2>2, <3>1, <1>1 DEF FDiv, Double, Specials
  <2>3. CASE x \in Int /\ y \in Int
    <3>1. ~IsInf(x) /\ ~IsInf(y) /\ x # NaN /\ y # NaN
      BY <2>3, SpecialsAssumption DEF IsInf
    <3>2. CASE y = 0
      <4>1. x # 0 => InfOfSign(Sign(x)) \in Double
        BY <2>3, <1>1, <1>2, IntIsDouble
      <4> QED
        BY <3>1, <3>2, <4>1 DEF FDiv, Double, Specials
    <3>3. CASE y > 0
      <4>1. x \div y \in Int
        BY <2>3, <3>3
      <4> QED
        BY <3>1, <3>3, <4>1, IntIsDouble DEF FDiv
    <3>4. CASE y < 0
      <4>1. (-x) \div (-y) \in Int
        BY <2>3, <3>4
      <4>2. ~(y = 0) /\ ~(y > 0)
        BY <2>3, <3>4
      <4>3. FDiv(x, y) = (-x) \div (-y)
        BY <3>1, <4>2, Zenon DEF FDiv
      <4> QED
        BY <4>1, <4>3, IntIsDouble
    <3> QED
      BY <2>3, <3>2, <3>3, <3>4
  <2> QED
    BY <2>1, <2>2, <2>3 DEF Double, Specials, IsInf
<1> QED
  BY <1>3, <1>4, <1>5, <1>6 DEF FSub

(***************************************************************************)
(* On integers, FAdd, FSub and FMul are +, - and *, FDiv by a positive   *)
(* integer is \div, and FLeq is <=: the ledgers' arithmetic on stakes,    *)
(* shares and scaled revenue is exact while no special value appears.     *)
(***************************************************************************)
LEMMA IntOps ==
  ASSUME NEW x \in Int, NEW y \in Int
  PROVE  /\ FAdd(x, y) = x + y
         /\ FSub(x, y) = x - y
         /\ FMul(x, y) = x * y
         /\ y > 0 => FDiv(x, y) = x \div y
         /\ FLeq(x, y) <=> x <= y
<1>1. x # NaN /\ y # NaN /\ ~IsInf(x) /\ ~IsInf(y)
      /\ x # PosInf /\ x # NegInf /\ y # PosInf /\ y # NegInf
  BY SpecialsAssumption DEF IsInf
<1>2. FAdd(x, y) = x + y
  BY <1>1 DEF FAdd
<1>3. FMul(x, y) = x * y
  BY <1>1 DEF FMul
<1>6. FSub(x, y) = x - y
  <2>1. FNeg(y) = -y /\ -y \in Int
    BY <1>1 DEF FNeg
  <2>2. -y # NaN /\ ~IsInf(-y)
    BY <2>1, SpecialsAssumption DEF IsInf
  <2> QED
    BY <1>1, <2>1, <2>2 DEF FSub, FAdd
<1>4. y > 0 => FDiv(x, y) = x \div y
  BY <1>1 DEF FDiv
<1>5. FLeq(x, y) <=> x <= y
  BY <1>1 DEF FLeq, FLt
<1> QED
  BY <1>2, <1>3, <1>4, <1>5, <1>6
=============================================================================
