------------------------------ MODULE Doubles ------------------------------
(***************************************************************************)
(* IEEE-754 binary64 arithmetic, as C evaluates `+', `-', `*', `/' and     *)
(* `<' on doubles, restricted to the values the ledgers reach: integers    *)
(* (every stake, amount, index and scaled revenue of the models is an      *)
(* integer far below 2^53, so it is exact in a double) and the three       *)
(* special values +inf, -inf and NaN.  The special values are model        *)
(* values.  Division of two finite values is exact in the models (the      *)
(* money unit is chosen so that it is, see the ledgers), hence \div.       *)
(* Signed zero is not modelled: x + (-x) and 0 * y with y >= 0 give +0 in  *)
(* round-to-nearest, which is the only zero the ledgers produce.           *)
(***************************************************************************)
EXTENDS Integers

CONSTANTS PosInf, NegInf, NaN

ASSUME SpecialsAssumption ==
  /\ PosInf \notin Int /\ NegInf \notin Int /\ NaN \notin Int
  /\ PosInf # NegInf /\ PosInf # NaN /\ NegInf # NaN

Specials == {PosInf, NegInf, NaN}

\* The doubles of the models: exact integers and the special values.
Double == Int \cup Specials

IsFinite(x) == x \notin Specials

IsInf(x) == x \in {PosInf, NegInf}

\* The sign of a non-NaN double, as -1, 0 or 1.
Sign(x) == IF x = PosInf THEN 1
           ELSE IF x = NegInf THEN -1
           ELSE IF x > 0 THEN 1 ELSE IF x < 0 THEN -1 ELSE 0

\* The infinity of sign s (s # 0).
InfOfSign(s) == IF s > 0 THEN PosInf ELSE NegInf

FNeg(x) == IF IsInf(x) THEN InfOfSign(-Sign(x))
           ELSE IF x = NaN THEN NaN ELSE -x

(***************************************************************************)
(* The arms of each operator below are tried in order: the first condition *)
(* that holds decides the result, as in the IEEE-754 case tables.          *)
(***************************************************************************)

\* x + y: NaN if either is NaN or for inf + (-inf); an infinity absorbs.
FAdd(x, y) ==
  IF x = NaN \/ y = NaN THEN NaN
  ELSE IF IsInf(x) /\ IsInf(y) /\ x # y THEN NaN
  ELSE IF IsInf(x) THEN x
  ELSE IF IsInf(y) THEN y
  ELSE x + y

FSub(x, y) == FAdd(x, FNeg(y))

\* x * y: NaN if either is NaN or for inf * 0.
FMul(x, y) ==
  IF x = NaN \/ y = NaN THEN NaN
  ELSE IF (IsInf(x) /\ y = 0) \/ (IsInf(y) /\ x = 0) THEN NaN
  ELSE IF IsInf(x) \/ IsInf(y) THEN InfOfSign(Sign(x) * Sign(y))
  ELSE x * y

\* x / y: 0/0 and inf/inf are NaN; a non-zero value over +0 is an
\* infinity; a finite value over an infinity is 0.
FDiv(x, y) ==
  IF x = NaN \/ y = NaN THEN NaN
  ELSE IF IsInf(x) /\ IsInf(y) THEN NaN
  ELSE IF IsInf(x) THEN InfOfSign(Sign(x) * (IF y < 0 THEN -1 ELSE 1))
  ELSE IF IsInf(y) THEN 0
  ELSE IF y = 0 THEN (IF x = 0 THEN NaN ELSE InfOfSign(Sign(x)))
  ELSE IF y > 0 THEN x \div y ELSE (-x) \div (-y)

\* x < y: every comparison with NaN is false.
FLt(x, y) ==
  IF x = NaN \/ y = NaN \/ x = y THEN FALSE
  ELSE IF x = NegInf \/ y = PosInf THEN TRUE
  ELSE IF x = PosInf \/ y = NegInf THEN FALSE
  ELSE x < y

FLeq(x, y) == FLt(x, y) \/ (x = y /\ x # NaN)
=============================================================================
