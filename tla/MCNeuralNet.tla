---------------------------- MODULE MCNeuralNet -----------------------------
(***************************************************************************)
(* Checks the operators of NeuralNet over bounded inputs: a network shape  *)
(* (the dimensions array of a contract), weights and a sample (x, y) are   *)
(* chosen in Init, and one step computes what backpropagation returns for  *)
(* the sample and what nn predicts for it.  The invariants compare them    *)
(* with a reference definition of the gradient written independently of   *)
(* the code, with plain vectors and the delta rule.                        *)
(***************************************************************************)
EXTENDS NeuralNet, Sequences, FiniteSets

CONSTANTS
  Dims,   \* the dimensions arrays: <<M, hidden..., C>>
  Vals    \* Vals[d]: the values of weights and entries of x and y for shape d

\* constructContract builds dimensions = <<M, hidden..., C>> with
\* nbDimensions = nbLayers + 2 (ClassificationContract.c lines 48-64).  No
\* dimension is zero in a network that exists: fromArray allocates the
\* N x M and N x C data with gsl_matrix_calloc, and initMatrix allocates
\* each layer's dimensions[i + 1] rows with it, and GSL's error handler
\* rejects a zero dimension.
ASSUME DimsAssumption ==
  Dims \subseteq Seq(Nat \ {0}) /\ \A d \in Dims : Len(d) >= 2

VARIABLES
  dims,   \* dimensions[0 .. nbDimensions - 1]
  allW,   \* the weights, allW[k] of shape WeightShape(dims, k)
  x,      \* a sample: M x 1, as train transposes a row of trainInput
  y,      \* its target: C x 1
  jacs,   \* what backpropagation returns for (x, y)
  pred,   \* what nn returns for x (testContract reads its prediction from it)
  done

vars == <<dims, allW, x, y, jacs, pred, done>>

\* Shapes: M and C in 1..3 and up to two hidden layers of 1 to 3 units.
ShapeDims ==
  LET Hidden == {<<>>} \cup {<<a>> : a \in 1 .. 3} \cup {<<a, b>> : a, b \in 1 .. 3}
  IN  {<<m>> \o h \o <<c>> : m \in 1 .. 3, h \in Hidden, c \in 1 .. 3}

\* Values: one layer with one and with two classes, and two layers with a
\* hidden layer of two units (relu on a layer that is not the last).
GradDims == {<<1, 1>>, <<1, 2>>, <<1, 2, 1>>}

\* Weights and entries of x and y: both signs, so that relu clips.
GradVals == {-1, 0, 1}

\* Every shape with zero weights (shapes do not depend on values), and the
\* shapes of GradDims with every value of GradVals.
CheckVals == [d \in ShapeDims |-> IF d \in GradDims THEN GradVals ELSE {0}]

\* A 1-based sequence as the 0-based C array.
ZeroBased(s) == [i \in 0 .. Len(s) - 1 |-> s[i + 1]]

NbLayers == DOMAIN allW

L == Cardinality(NbLayers)

Matrices(r, c, V) == {[r |-> r, c |-> c, e |-> e] : e \in [0 .. r - 1 -> [0 .. c - 1 -> V]]}

Networks(d) ==
  LET n == Len(d) - 1
      S(k) == Matrices(d[k + 2], d[k + 1] + 1, Vals[d])
  IN  {w \in [0 .. n - 1 -> UNION {S(k) : k \in 0 .. n - 1}] :
         \A k \in 0 .. n - 1 : w[k] \in S(k)}

Init ==
  /\ \E d \in Dims :
       /\ dims = ZeroBased(d)
       /\ allW \in Networks(d)
       /\ x \in Matrices(d[1], 1, Vals[d])
       /\ y \in Matrices(d[Len(d)], 1, Vals[d])
  /\ jacs = Null /\ pred = Null /\ done = FALSE

\* One sample through backpropagation, and x through nn.
Evaluate ==
  /\ ~done
  /\ jacs' = Backpropagation(x, y, allW, L)
  /\ pred' = Inference(x, allW, L)
  /\ done' = TRUE
  /\ UNCHANGED <<dims, allW, x, y>>

Next == Evaluate

Spec == Init /\ [][Next]_vars
-----------------------------------------------------------------------------
(***************************************************************************)
(* The reference: the forward pass on plain vectors (a[k] the input of     *)
(* layer k, z[k] its pre-activation), and the gradient of the loss         *)
(* |a[L] - y|^2 by the delta rule, with Deriv(k, v) the derivative of the  *)
(* activation of layer k at v.                                             *)
(***************************************************************************)
VSum(n, F(_)) ==
  LET P[k \in 0 .. n] == IF k = 0 THEN 0 ELSE P[k - 1] + F(k - 1) IN P[n]

RefForward ==
  LET a[k \in 0 .. L] ==
        IF k = 0 THEN [q \in 0 .. dims[0] - 1 |-> At(x, q, 0)]
        ELSE LET z == [p \in 0 .. dims[k] - 1 |->
                         VSum(dims[k - 1], LAMBDA q : At(allW[k - 1], p, q) * a[k - 1][q])
                         + At(allW[k - 1], p, dims[k - 1])]
             IN  [p \in 0 .. dims[k] - 1 |->
                    IF k = L THEN z[p] ELSE FMax(z[p], 0)]
  IN  a

RefPre(k, p) ==
  VSum(dims[k], LAMBDA q : At(allW[k], p, q) * RefForward[k][q]) + At(allW[k], p, dims[k])

RefGrad(Deriv(_, _)) ==
  LET a == RefForward
      delta[k \in 0 .. L - 1] ==
        [p \in 0 .. dims[k + 1] - 1 |->
           Deriv(k, RefPre(k, p)) *
             (IF k = L - 1 THEN 2 * (a[L][p] - At(y, p, 0))
              ELSE VSum(dims[k + 2], LAMBDA q : At(allW[k + 1], q, p) * delta[k + 1][q]))]
  IN  [k \in 0 .. L - 1 |->
         Mat(dims[k + 1], dims[k] + 1, LAMBDA p, q :
               delta[k][p] * (IF q < dims[k] THEN a[k][q] ELSE 1))]

\* The derivative of the activation the forward pass applies to layer k.
TrueDeriv(k, v) == IF k = L - 1 THEN 1 ELSE IF v > 0 THEN 1 ELSE 0

\* The derivative line 291 multiplies by: identity's when there are two
\* layers or more, relu's when there is one.
CodeDeriv(k, v) == IF L - 1 # 0 THEN 1 ELSE IF v > 0 THEN 1 ELSE 0

-----------------------------------------------------------------------------
(***************************************************************************)
(* Properties.                                                             *)
(***************************************************************************)

\* For every network shape initNetwork can build (initMatrix allocates
\* dims[k + 1] x (dims[k] + 1)), every affine, dgemm and reshape of
\* backpropagation gets operands of matching shapes, and the Jacobian it
\* returns for layer k has the shape of W_k, so the update of train (lines
\* 383: scale, then gsl_matrix_sub(allW[j], jac)) never fails; nn returns
\* a C x 1 column, the vector testContract reads its prediction from.
WellShaped ==
  done =>
    /\ \A k \in NbLayers :
         /\ allW[k].r = WeightShape(dims, k).r /\ allW[k].c = WeightShape(dims, k).c
         /\ jacs[k] # Null /\ jacs[k].r = allW[k].r /\ jacs[k].c = allW[k].c
    /\ pred # Null /\ pred.r = dims[L] /\ pred.c = 1

\* The index arithmetic of dAffineDw (block i * (n + 1) of row i) and of
\* reshape (row-major) puts the derivative for W_k(p, q) at (p, q): the
\* code's Jacobians equal the delta rule's gradient taken with the
\* derivatives line 291 chooses.
BackpropLayout == done => jacs = RefGrad(CodeDeriv)

\* backpropagation returns the gradient of the loss |a[L] - y|^2 with
\* respect to the weights (the update of train descends it).
GradientCorrect == done => jacs = RefGrad(TrueDeriv)

=============================================================================
