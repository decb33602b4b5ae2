----------------------------- MODULE NeuralNet ------------------------------
(***************************************************************************)
(* The matrix algorithms of neural_network/MatrixNNUtils.c as pure         *)
(* operators: the activations and their Jacobians, affine, reshape, the    *)
(* L2 loss derivative, the forward and backward passes of                  *)
(* backpropagation, the shapes initNetwork gives the weights, and the      *)
(* inference pass nn.                                                      *)
(*                                                                         *)
(* A matrix is a record [r, c, e] with 0-based entries e[i][j], as GSL     *)
(* indexes them.  Entries are integers: the code's arithmetic is exact on  *)
(* them, so results are compared exactly.  A call that the code makes      *)
(* fail (IS_VECTOR, a size check, a GSL length error from memcpy, sub,     *)
(* set_row or dgemm) returns Null, and Null propagates as NULL does        *)
(* through the REQUIRE_NON_NULL guards.  Allocation failures are the       *)
(* subject of the ClassificationContract module, not of this one.          *)
(***************************************************************************)
EXTENDS Integers

\* NULL, as a record so that TLC can compare it with a matrix.
Null == [r |-> -1, c |-> -1, e |-> <<>>]

\* A matrix of r rows and c columns with entries F(i, j).
Mat(r, c, F(_, _)) ==
  [r |-> r, c |-> c, e |-> [i \in 0 .. r - 1 |-> [j \in 0 .. c - 1 |-> F(i, j)]]]

At(m, i, j) == m.e[i][j]

Size(m) == m.r * m.c

\* The IS_VECTOR macro of MatrixNNUtils.h.
IsVector(m) == m.r = 1 \/ m.c = 1

\* Element k of a vector, read as a column or as a row (dReluDx, dAffineDw).
VecAt(m, k) == IF m.r > m.c THEN At(m, k, 0) ELSE At(m, 0, k)

\* gsl_blas_dgemm(NoTrans, NoTrans, 1.0, A, B, 0.0, C): GSL_EBADLEN unless
\* the inner dimensions agree.
Dgemm(a, b) ==
  IF a = Null \/ b = Null \/ a.c # b.r THEN Null
  ELSE Mat(a.r, b.c, LAMBDA i, j :
             LET P[k \in 0 .. a.c] ==
                   IF k = 0 THEN 0 ELSE P[k - 1] + At(a, i, k - 1) * At(b, k - 1, j)
             IN  P[a.c])

FMax(u, v) == IF u >= v THEN u ELSE v

\* relu: fmax(x, 0) element-wise, on vectors only.
Relu(m) ==
  IF m = Null \/ ~IsVector(m) THEN Null
  ELSE Mat(m.r, m.c, LAMBDA i, j : FMax(At(m, i, j), 0))

\* identity: a copy, on vectors only.
Identity(m) ==
  IF m = Null \/ ~IsVector(m) THEN Null ELSE m

\* dIdentityDx: the n x n identity, n the number of elements of x.
DIdentityDx(x) ==
  IF x = Null \/ ~IsVector(x) THEN Null
  ELSE Mat(Size(x), Size(x), LAMBDA i, j : IF i = j THEN 1 ELSE 0)

(***************************************************************************)
(* reshape(m, rows, cols): element (i, j) of m is its n = i * m.c + j-th   *)
(* element in row-major order and lands at (n / cols, n % cols); read      *)
(* backwards, out(p, q) is element p * cols + q of m.                      *)
(***************************************************************************)
Reshape(m, rows, cols) ==
  IF m = Null \/ rows * cols # Size(m) THEN Null
  ELSE Mat(rows, cols, LAMBDA p, q :
             At(m, (p * cols + q) \div m.c, (p * cols + q) % m.c))

\* dL2Dx(x, y): 2 * (x - y) as a 1 x n row; gsl_matrix_sub needs equal shapes.
DL2Dx(x, y) ==
  IF x = Null \/ y = Null \/ ~IsVector(x) \/ ~IsVector(y)
     \/ x.r # y.r \/ x.c # y.c THEN Null
  ELSE Reshape(Mat(x.r, x.c, LAMBDA i, j : 2 * (At(x, i, j) - At(y, i, j))),
               1, Size(x))

\* Mutant: affine without the bias row of extendedX.
AffineNoBias(x, W) ==
  IF x = Null \/ W = Null \/ ~IsVector(x) \/ x.c # 1 THEN Null
  ELSE Dgemm(W, x)

(***************************************************************************)
(* affine(x, W) = W * (x; 1).  extendedX is (n + 1) x 1 and its row i is   *)
(* row i of x (gsl_matrix_set_row), which has length 1 only when x is a    *)
(* column: for a row x of length n > 1 set_row fails with GSL_EBADLEN.     *)
(***************************************************************************)
Affine(x, W) ==
  IF x = Null \/ W = Null \/ ~IsVector(x) \/ x.c # 1 THEN Null
  ELSE Dgemm(W, Mat(Size(x) + 1, 1, LAMBDA i, j :
                      IF i < Size(x) THEN At(x, i, 0) ELSE 1))

\* dReluDx(x): the diagonal matrix of x > 0 ? 1 : 0.
DReluDx(x) ==
  IF x = Null \/ ~IsVector(x) THEN Null
  ELSE Mat(Size(x), Size(x), LAMBDA i, j :
             IF i = j /\ VecAt(x, i) > 0 THEN 1 ELSE 0)

\* dAffineDx(W): W without its last (bias) column.
DAffineDx(W) ==
  IF W = Null THEN Null ELSE Mat(W.r, W.c - 1, LAMBDA i, j : At(W, i, j))

\* Mutant: dAffineDw with the blocks of the rows laid out n apart, not n + 1.
DAffineDwPacked(x, W) ==
  IF x = Null \/ W = Null \/ ~IsVector(x) THEN Null
  ELSE LET n == Size(x)
       IN  Mat(W.r, W.r * (n + 1), LAMBDA i, k :
                 IF k = i * n + n THEN 1
                 ELSE IF k >= i * n /\ k < i * n + n THEN VecAt(x, k - i * n)
                 ELSE 0)

(***************************************************************************)
(* dAffineDw(x, W): the Jacobian of W * (x; 1) with respect to W read      *)
(* row-major, W.r x W.r * (n + 1): row i holds x in columns                *)
(* i * (n + 1) .. i * (n + 1) + n - 1 and 1 in column i * (n + 1) + n.     *)
(***************************************************************************)
DAffineDw(x, W) ==
  IF x = Null \/ W = Null \/ ~IsVector(x) THEN Null
  ELSE LET n == Size(x)
       IN  Mat(W.r, W.r * (n + 1), LAMBDA i, k :
                 IF k = i * (n + 1) + n THEN 1
                 ELSE IF k >= i * (n + 1) /\ k < i * (n + 1) + n
                      THEN VecAt(x, k - i * (n + 1))
                      ELSE 0)

\* initMatrix(rows, cols) allocates rows x (cols + 1): layer i of
\* initNetwork maps dimensions[i] inputs to dimensions[i + 1] outputs.
WeightShape(dims, i) == [r |-> dims[i + 1], c |-> dims[i] + 1]

\* The activation the forward pass of backpropagation applies after layer
\* i of L (line 273): identity on the last layer, relu on the others.
Activate(i, L, m) == IF i = L - 1 THEN Identity(m) ELSE Relu(m)

(***************************************************************************)
(* The forward pass of backpropagation (lines 259-274): in[0] is the copy  *)
(* of x, in[i + 1] the activation of combination i = affine(in[i], W_i).   *)
(* in[0 .. L - 1] are the `inputs' array and in[L] the output.             *)
(***************************************************************************)
Forward(x, allW, L) ==
  LET in[i \in 0 .. L] ==
        IF i = 0 THEN x ELSE Activate(i - 1, L, Affine(in[i - 1], allW[i - 1]))
  IN  in

\* The `combinations' array: combination i of the forward pass.
Combination(x, allW, L, i) == Affine(Forward(x, allW, L)[i], allW[i])

\* Line 291: the multiplier of layer i, chosen on `nbLayers - 1' (non-zero
\* whenever there are two layers or more), not on `i == nbLayers - 1'.
LayerDerivative(x, allW, L, i) ==
  IF L - 1 # 0 THEN DIdentityDx(Combination(x, allW, L, i))
  ELSE DReluDx(Combination(x, allW, L, i))

(***************************************************************************)
(* The backward pass of backpropagation (lines 275-348).  Jac[k] is        *)
(* currJac once layers L - 1 .. k have been processed (Jac[L] = dL2Dx of   *)
(* the output); out[k] is the reshaped Jacobian of the loss with respect  *)
(* to W_k that train subtracts from W_k.                                   *)
(***************************************************************************)
Backpropagation(x, y, allW, L) ==
  LET in == Forward(x, allW, L)
      Through(k, J) == Dgemm(J, LayerDerivative(x, allW, L, k))
      Jac[k \in 0 .. L] ==
        IF k = L THEN DL2Dx(in[L], y)
        ELSE Dgemm(Through(k, Jac[k + 1]), DAffineDx(allW[k]))
  IN  [k \in 0 .. L - 1 |->
         Reshape(Dgemm(Through(k, Jac[k + 1]), DAffineDw(in[k], allW[k])),
                 allW[k].r, allW[k].c)]

\* nn(x, allW, nbW): relu after every layer, then identity (lines 461-489).
Inference(x, allW, L) ==
  LET out[i \in 0 .. L] ==
        IF i = 0 THEN Identity(x) ELSE Relu(Affine(out[i - 1], allW[i - 1]))
  IN  Identity(out[L])

=============================================================================
