--------------------------- MODULE NeuralNetProofs ---------------------------
(***************************************************************************)
(* Shapes of backpropagation and nn for every network shape: the affine,   *)
(* dgemm and reshape calls of MatrixNNUtils.c get operands whose sizes     *)
(* agree, so that none returns NULL, and the Jacobian of layer k has the   *)
(* shape of W_k.  The recursive functions of the passes are unfolded with  *)
(* FiniteNatInductiveDef, and their values are followed layer by layer     *)
(* with an induction over an interval of layers.                           *)
(***************************************************************************)
EXTENDS MCNeuralNet, WellFoundedInduction, FiniteSetTheorems, SequenceTheorems,
        TLAPS

\* m is a non-NULL r x c matrix.
Shaped(m, r, c) == m.r = r /\ m.c = c /\ m # Null

\* Matrices built by Mat are never NULL.
LEMMA MatShape ==
  ASSUME NEW r \in Nat, NEW c, NEW F(_, _)
  PROVE  Shaped(Mat(r, c, F), r, c)
BY DEF Mat, Shaped, Null

\* gsl_blas_dgemm succeeds on operands whose inner dimensions agree.
LEMMA DgemmShape ==
  ASSUME NEW a, NEW b, NEW p \in Nat, NEW q, NEW s,
         Shaped(a, p, q), Shaped(b, q, s)
  PROVE  Shaped(Dgemm(a, b), p, s)
<1>1. a # Null /\ b # Null /\ a.c = b.r /\ a.r = p /\ b.c = s
  BY DEF Shaped
<1>2. Dgemm(a, b) = Mat(p, s, LAMBDA i, j :
                          LET P[k \in 0 .. a.c] ==
                                IF k = 0 THEN 0
                                ELSE P[k - 1] + At(a, i, k - 1) * At(b, k - 1, j)
                          IN  P[a.c])
  BY <1>1, Zenon DEF Dgemm
<1> QED
  BY <1>2, MatShape

\* affine maps an n x 1 column through a p x (n + 1) weight matrix to a
\* p x 1 column.
LEMMA AffineShape ==
  ASSUME NEW v, NEW W, NEW n \in Nat \ {0}, NEW p \in Nat,
         Shaped(v, n, 1), Shaped(W, p, n + 1)
  PROVE  Shaped(Affine(v, W), p, 1)
<1> DEFINE ext == Mat(Size(v) + 1, 1, LAMBDA i, j : IF i < Size(v) THEN At(v, i, 0) ELSE 1)
<1>1. Size(v) = n
  BY DEF Shaped, Size
<1>2. Shaped(ext, n + 1, 1)
  BY <1>1 DEF Mat, Shaped, Null
<1>3. Shaped(Dgemm(W, ext), p, 1)
  BY <1>2, DgemmShape
<1>4. v # Null /\ W # Null /\ IsVector(v) /\ v.c = 1
  BY DEF Shaped, IsVector
<1> QED
  BY <1>3, <1>4 DEF Affine

\* relu and identity keep a column's shape.
LEMMA ColumnShape ==
  ASSUME NEW m, NEW p \in Nat, Shaped(m, p, 1)
  PROVE  Shaped(Relu(m), p, 1) /\ Shaped(Identity(m), p, 1)
<1>1. m # Null /\ IsVector(m) /\ m.r = p /\ m.c = 1
  BY DEF Shaped, IsVector
<1>2. Shaped(Relu(m), p, 1)
  <2>1. Relu(m) = Mat(p, 1, LAMBDA a, b : FMax(At(m, a, b), 0))
    BY <1>1, Zenon DEF Relu
  <2> QED
    BY <2>1, MatShape
<1>3. Shaped(Identity(m), p, 1)
  BY <1>1 DEF Identity, Shaped
<1> QED
  BY <1>2, <1>3

\* So does the activation the forward pass applies to layer i.
LEMMA ActivateShape ==
  ASSUME NEW m, NEW p \in Nat, NEW i, NEW NL, Shaped(m, p, 1)
  PROVE  Shaped(Activate(i, NL, m), p, 1)
BY ColumnShape DEF Activate

\* reshape succeeds when the new shape has as many elements as the old.
LEMMA ReshapeShape ==
  ASSUME NEW m, NEW a \in Nat, NEW b \in Nat, NEW r \in Nat, NEW c \in Nat,
         Shaped(m, a, b), r * c = a * b
  PROVE  Shaped(Reshape(m, r, c), r, c)
<1>1. m # Null /\ r * c = Size(m)
  BY DEF Shaped, Size
<1>2. Reshape(m, r, c) = Mat(r, c, LAMBDA p, q :
                               At(m, (p * c + q) \div m.c, (p * c + q) % m.c))
  BY <1>1, Zenon DEF Reshape
<1> QED
  BY <1>2, MatShape

\* dL2Dx of two n x 1 columns is a 1 x n row.
LEMMA DL2DxShape ==
  ASSUME NEW v, NEW t, NEW n \in Nat, Shaped(v, n, 1), Shaped(t, n, 1)
  PROVE  Shaped(DL2Dx(v, t), 1, n)
<1> DEFINE d == Mat(v.r, v.c, LAMBDA i, j : 2 * (At(v, i, j) - At(t, i, j)))
<1>1. v # Null /\ t # Null /\ IsVector(v) /\ IsVector(t) /\ v.r = t.r /\ v.c = t.c
  BY DEF Shaped, IsVector
<1>2. DL2Dx(v, t) = Reshape(d, 1, Size(v))
  BY <1>1, Zenon DEF DL2Dx
<1>3. Shaped(d, n, 1)
  BY DEF Mat, Shaped, Null
<1>4. Size(v) = n /\ 1 * n = n * 1
  BY DEF Shaped, Size
<1> QED
  BY <1>2, <1>3, <1>4, ReshapeShape

\* dIdentityDx and dReluDx of an n x 1 column are n x n.
LEMMA DiagShape ==
  ASSUME NEW m, NEW n \in Nat, Shaped(m, n, 1)
  PROVE  /\ Shaped(DIdentityDx(m), n, n)
         /\ Shaped(DReluDx(m), n, n)
<1>1. m # Null /\ IsVector(m) /\ Size(m) = n
  BY DEF Shaped, IsVector, Size
<1>2. DIdentityDx(m) = Mat(n, n, LAMBDA i, j : IF i = j THEN 1 ELSE 0)
  BY <1>1, Zenon DEF DIdentityDx
<1>3. DReluDx(m) = Mat(n, n, LAMBDA i, j : IF i = j /\ VecAt(m, i) > 0 THEN 1 ELSE 0)
  BY <1>1, Zenon DEF DReluDx
<1> QED
  BY <1>2, <1>3, MatShape

\* dAffineDx drops the bias column of a p x (n + 1) weight matrix.
LEMMA DAffineDxShape ==
  ASSUME NEW W, NEW p \in Nat, NEW n \in Nat, Shaped(W, p, n + 1)
  PROVE  Shaped(DAffineDx(W), p, n)
<1>1. W # Null /\ W.r = p /\ W.c - 1 = n
  BY DEF Shaped
<1>2. DAffineDx(W) = Mat(p, n, LAMBDA i, j : At(W, i, j))
  BY <1>1, Zenon DEF DAffineDx
<1> QED
  BY <1>2, MatShape

\* dAffineDw of an n x 1 column and a p-row weight matrix is
\* p x p * (n + 1).
LEMMA DAffineDwShape ==
  ASSUME NEW v, NEW W, NEW n \in Nat, NEW p \in Nat, NEW c,
         Shaped(v, n, 1), Shaped(W, p, c)
  PROVE  Shaped(DAffineDw(v, W), p, p * (n + 1))
<1>1. v # Null /\ W # Null /\ IsVector(v) /\ Size(v) = n /\ W.r = p
  BY DEF Shaped, IsVector, Size
<1> DEFINE sz == Size(v)
<1>2. DAffineDw(v, W) =
        Mat(W.r, W.r * (sz + 1), LAMBDA i, k :
              IF k = i * (sz + 1) + sz THEN 1
              ELSE IF k >= i * (sz + 1) /\ k < i * (sz + 1) + sz
                   THEN VecAt(v, k - i * (sz + 1))
                   ELSE 0)
  BY <1>1, Zenon DEF DAffineDw
<1>3. Shaped(DAffineDw(v, W), W.r, W.r * (sz + 1))
  BY <1>1, <1>2, MatShape
<1> QED
  BY <1>1, <1>3

-----------------------------------------------------------------------------
(***************************************************************************)
(* The passes over the layers.                                             *)
(***************************************************************************)

\* Induction over the interval 0 .. N, from the well-foundedness of < on Nat.
NatLt == OpToRel(<, Nat)

LEMMA UpTo ==
  ASSUME NEW N \in Nat, NEW S \in SUBSET (0 .. N), 0 \in S,
         \A i \in 0 .. N - 1 : i \in S => i + 1 \in S
  PROVE  S = 0 .. N
<1> DEFINE T == (0 .. N) \ S
<1> SUFFICES ASSUME T # {} PROVE FALSE
  OBVIOUS
<1>1. T \subseteq Nat
  OBVIOUS
<1>2. IsWellFoundedOn(NatLt, Nat)
  BY NatLessThanWellFounded, Zenon DEF NatLt
<1>3. \E m \in T : \A k \in T : ~(<<k, m>> \in NatLt)
  BY <1>1, <1>2, WFMin
<1>4. PICK m \in T : \A k \in T : ~(<<k, m>> \in NatLt)
  BY <1>3
<1>5. m # 0 /\ m - 1 \in 0 .. N - 1 /\ m - 1 \in 0 .. N
  OBVIOUS
<1>6. <<m - 1, m>> \in NatLt
  BY <1>5 DEF NatLt, OpToRel
<1>7. m - 1 \in S
  BY <1>4, <1>5, <1>6
<1> QED
  BY <1>5, <1>7

\* The shapes initNetwork gives a network of NL layers with dimensions dm,
\* and a sample v fed to it as an dm[0] x 1 column.
NetShaped(v, Ws, NL, dm) ==
  /\ NL \in Nat \ {0}
  /\ dm \in [0 .. NL -> Nat \ {0}]
  /\ \A k \in 0 .. NL - 1 : Shaped(Ws[k], dm[k + 1], dm[k] + 1)
  /\ Shaped(v, dm[0], 1)

\* The forward pass of backpropagation meets its defining equation.
LEMMA ForwardDef ==
  ASSUME NEW v, NEW Ws, NEW NL \in Nat
  PROVE  Forward(v, Ws, NL) =
           [i \in 0 .. NL |-> IF i = 0 THEN v
                              ELSE Activate(i - 1, NL, Affine(Forward(v, Ws, NL)[i - 1], Ws[i - 1]))]
<1> DEFINE f == Forward(v, Ws, NL)
<1>1. FiniteNatInductiveDefHypothesis(f, v, LAMBDA u, i : Activate(i - 1, NL, Affine(u, Ws[i - 1])), 0, NL)
  BY DEF FiniteNatInductiveDefHypothesis, Forward
<1>2. FiniteNatInductiveDefConclusion(f, v, LAMBDA u, i : Activate(i - 1, NL, Affine(u, Ws[i - 1])), 0, NL)
  BY <1>1, FiniteNatInductiveDef
<1> QED
  BY <1>2 DEF FiniteNatInductiveDefConclusion

\* Input i of the forward pass is a dm[i] x 1 column.
LEMMA ForwardShape ==
  ASSUME NEW v, NEW Ws, NEW NL, NEW dm, NetShaped(v, Ws, NL, dm)
  PROVE  \A i \in 0 .. NL : Shaped(Forward(v, Ws, NL)[i], dm[i], 1)
<1> DEFINE f == Forward(v, Ws, NL)
           S == {i \in 0 .. NL : Shaped(f[i], dm[i], 1)}
<1>0. NL \in Nat /\ dm \in [0 .. NL -> Nat \ {0}]
  BY DEF NetShaped
<1>1. 0 \in S
  BY <1>0, ForwardDef DEF NetShaped
<1>2. ASSUME NEW i \in 0 .. NL - 1, i \in S PROVE i + 1 \in S
  <2>1. f[i + 1] = Activate(i, NL, Affine(f[i], Ws[i]))
    BY <1>0, ForwardDef
  <2>2. Shaped(Affine(f[i], Ws[i]), dm[i + 1], 1)
    <3>1. Shaped(f[i], dm[i], 1) /\ Shaped(Ws[i], dm[i + 1], dm[i] + 1)
      BY <1>2 DEF NetShaped
    <3>2. dm[i] \in Nat \ {0} /\ dm[i + 1] \in Nat
      BY <1>0
    <3> QED
      BY <3>1, <3>2, AffineShape
  <2>3. Shaped(f[i + 1], dm[i + 1], 1)
    BY <1>0, <2>1, <2>2, ActivateShape
  <2> QED
    BY <1>0, <2>3
<1>3. S = 0 .. NL
  BY <1>0, <1>1, <1>2, UpTo
<1> QED
  BY <1>3

\* The layer outputs of nn, as Inference names them.
InferOut(v, Ws, NL) ==
  CHOOSE out : out = [i \in 0 .. NL |->
                        IF i = 0 THEN Identity(v) ELSE Relu(Affine(out[i - 1], Ws[i - 1]))]

\* nn meets its defining equation.
LEMMA InferenceDef ==
  ASSUME NEW v, NEW Ws, NEW NL \in Nat
  PROVE  /\ Inference(v, Ws, NL) = Identity(InferOut(v, Ws, NL)[NL])
         /\ InferOut(v, Ws, NL) =
              [i \in 0 .. NL |-> IF i = 0 THEN Identity(v)
                                 ELSE Relu(Affine(InferOut(v, Ws, NL)[i - 1], Ws[i - 1]))]
<1> DEFINE f == InferOut(v, Ws, NL)
<1>1. Inference(v, Ws, NL) = Identity(f[NL])
  BY DEF Inference, InferOut
<1>2. FiniteNatInductiveDefHypothesis(f, Identity(v), LAMBDA u, i : Relu(Affine(u, Ws[i - 1])), 0, NL)
  BY DEF FiniteNatInductiveDefHypothesis, InferOut
<1>3. FiniteNatInductiveDefConclusion(f, Identity(v), LAMBDA u, i : Relu(Affine(u, Ws[i - 1])), 0, NL)
  BY <1>2, FiniteNatInductiveDef
<1> QED
  BY <1>1, <1>3 DEF FiniteNatInductiveDefConclusion

\* nn returns a dm[NL] x 1 column for a network of NL layers.
LEMMA InferenceShape ==
  ASSUME NEW v, NEW Ws, NEW NL, NEW dm, NetShaped(v, Ws, NL, dm)
  PROVE  Shaped(Inference(v, Ws, NL), dm[NL], 1)
<1> DEFINE f == InferOut(v, Ws, NL)
           S == {i \in 0 .. NL : Shaped(f[i], dm[i], 1)}
<1>0. NL \in Nat /\ dm \in [0 .. NL -> Nat \ {0}]
  BY DEF NetShaped
<1>1. 0 \in S
  <2>1. f[0] = Identity(v)
    BY <1>0, InferenceDef
  <2>2. Shaped(v, dm[0], 1) /\ dm[0] \in Nat
    BY <1>0 DEF NetShaped
  <2> QED
    BY <1>0, <2>1, <2>2, ColumnShape
<1>2. ASSUME NEW i \in 0 .. NL - 1, i \in S PROVE i + 1 \in S
  <2>1. f[i + 1] = Relu(Affine(f[i], Ws[i]))
    BY <1>0, InferenceDef
  <2>2. Shaped(Affine(f[i], Ws[i]), dm[i + 1], 1)
    <3>1. Shaped(f[i], dm[i], 1) /\ Shaped(Ws[i], dm[i + 1], dm[i] + 1)
      BY <1>2 DEF NetShaped
    <3>2. dm[i] \in Nat \ {0} /\ dm[i + 1] \in Nat
      BY <1>0
    <3> QED
      BY <3>1, <3>2, AffineShape
  <2>3. Shaped(f[i + 1], dm[i + 1], 1)
    BY <1>0, <2>1, <2>2, ColumnShape
  <2> QED
    BY <1>0, <2>3
<1>3. S = 0 .. NL
  BY <1>0, <1>1, <1>2, UpTo
<1>4. Shaped(f[NL], dm[NL], 1) /\ dm[NL] \in Nat
  BY <1>0, <1>3
<1>5. Inference(v, Ws, NL) = Identity(f[NL])
  BY <1>0, InferenceDef
<1> QED
  BY <1>4, <1>5, ColumnShape

\* currJac of the backward pass once layers NL - 1 .. k are processed, as
\* Backpropagation names it Jac.
BackJac(v, t, Ws, NL) ==
  CHOOSE Jac :
    Jac = [k \in 0 .. NL |->
             IF k = NL THEN DL2Dx(Forward(v, Ws, NL)[NL], t)
             ELSE Dgemm(Dgemm(Jac[k + 1], LayerDerivative(v, Ws, NL, k)), DAffineDx(Ws[k]))]

\* The same sequence counted from the output layer down, in the form
\* FiniteNatInductiveDef defines.
JacDown(v, t, Ws, NL) ==
  CHOOSE g :
    g = [j \in 0 .. NL |->
           IF j = 0 THEN DL2Dx(Forward(v, Ws, NL)[NL], t)
           ELSE Dgemm(Dgemm(g[j - 1], LayerDerivative(v, Ws, NL, NL - j)),
                      DAffineDx(Ws[NL - j]))]

\* backpropagation returns, for layer k, the reshaped product of currJac
\* after layer k with dAffineDw.
LEMMA BackpropDef ==
  ASSUME NEW v, NEW t, NEW Ws, NEW NL
  PROVE  Backpropagation(v, t, Ws, NL) =
           [k \in 0 .. NL - 1 |->
              Reshape(Dgemm(Dgemm(BackJac(v, t, Ws, NL)[k + 1], LayerDerivative(v, Ws, NL, k)),
                            DAffineDw(Forward(v, Ws, NL)[k], Ws[k])),
                      Ws[k].r, Ws[k].c)]
BY DEF Backpropagation, BackJac

\* currJac meets the defining equation of Jac: a function that does exists,
\* JacDown read backwards.
LEMMA BackJacDef ==
  ASSUME NEW v, NEW t, NEW Ws, NEW NL \in Nat
  PROVE  BackJac(v, t, Ws, NL) =
           [k \in 0 .. NL |->
              IF k = NL THEN DL2Dx(Forward(v, Ws, NL)[NL], t)
              ELSE Dgemm(Dgemm(BackJac(v, t, Ws, NL)[k + 1], LayerDerivative(v, Ws, NL, k)),
                         DAffineDx(Ws[k]))]
<1> DEFINE g == JacDown(v, t, Ws, NL)
           base == DL2Dx(Forward(v, Ws, NL)[NL], t)
           Step(J, k) == Dgemm(Dgemm(J, LayerDerivative(v, Ws, NL, k)), DAffineDx(Ws[k]))
           J2 == [k \in 0 .. NL |-> g[NL - k]]
<1>1. FiniteNatInductiveDefHypothesis(g, base, LAMBDA u, j : Step(u, NL - j), 0, NL)
  BY DEF FiniteNatInductiveDefHypothesis, JacDown
<1>2. FiniteNatInductiveDefConclusion(g, base, LAMBDA u, j : Step(u, NL - j), 0, NL)
  BY <1>1, FiniteNatInductiveDef
<1>3. \A j \in 0 .. NL : g[j] = IF j = 0 THEN base ELSE Step(g[j - 1], NL - j)
  BY <1>2 DEF FiniteNatInductiveDefConclusion
<1>4. J2 = [k \in 0 .. NL |-> IF k = NL THEN base ELSE Step(J2[k + 1], k)]
  <2>1. ASSUME NEW k \in 0 .. NL
        PROVE  J2[k] = IF k = NL THEN base ELSE Step(J2[k + 1], k)
    <3>1. CASE k = NL
      BY <1>3, <3>1
    <3>2. CASE k # NL
      <4>1. NL - k \in 0 .. NL /\ NL - k # 0 /\ NL - (NL - k) = k
            /\ NL - k - 1 = NL - (k + 1) /\ k + 1 \in 0 .. NL
        BY <3>2
      <4>2. g[NL - k] = Step(g[NL - (k + 1)], k)
        BY <1>3, <4>1
      <4> QED
        BY <3>2, <4>1, <4>2
    <3> QED
      BY <3>1, <3>2
  <2> QED
    BY <2>1
<1> QED
  BY <1>4, Zenon DEF BackJac

\* The layer derivative line 291 chooses for layer k is dm[k + 1] square,
\* whichever of dIdentityDx and dReluDx it is.
LEMMA LayerDerivativeShape ==
  ASSUME NEW v, NEW Ws, NEW NL, NEW dm, NetShaped(v, Ws, NL, dm),
         NEW k \in 0 .. NL - 1
  PROVE  Shaped(LayerDerivative(v, Ws, NL, k), dm[k + 1], dm[k + 1])
<1>0. NL \in Nat /\ dm \in [0 .. NL -> Nat \ {0}] /\ k \in 0 .. NL /\ k + 1 \in 0 .. NL
  BY DEF NetShaped
<1>1. Shaped(Combination(v, Ws, NL, k), dm[k + 1], 1)
  <2>1. Shaped(Forward(v, Ws, NL)[k], dm[k], 1)
    BY <1>0, ForwardShape
  <2>2. Shaped(Ws[k], dm[k + 1], dm[k] + 1)
    BY DEF NetShaped
  <2>3. dm[k] \in Nat \ {0} /\ dm[k + 1] \in Nat
    BY <1>0
  <2> QED
    BY <2>1, <2>2, <2>3, AffineShape DEF Combination
<1>2. dm[k + 1] \in Nat
  BY <1>0
<1> QED
  BY <1>1, <1>2, DiagShape DEF LayerDerivative

\* currJac after layer k is a 1 x dm[k] row: each step multiplies a row by
\* the square layer derivative and by W_k without its bias column.
LEMMA BackJacShape ==
  ASSUME NEW v, NEW t, NEW Ws, NEW NL, NEW dm, NetShaped(v, Ws, NL, dm),
         Shaped(t, dm[NL], 1)
  PROVE  \A k \in 0 .. NL : Shaped(BackJac(v, t, Ws, NL)[k], 1, dm[k])
<1> DEFINE J == BackJac(v, t, Ws, NL)
           S == {j \in 0 .. NL : Shaped(J[NL - j], 1, dm[NL - j])}
<1>0. NL \in Nat /\ dm \in [0 .. NL -> Nat \ {0}]
  BY DEF NetShaped
<1>1. 0 \in S
  <2>1. J[NL] = DL2Dx(Forward(v, Ws, NL)[NL], t)
    BY <1>0, BackJacDef
  <2>2. Shaped(Forward(v, Ws, NL)[NL], dm[NL], 1) /\ dm[NL] \in Nat
    BY <1>0, ForwardShape
  <2>3. Shaped(J[NL], 1, dm[NL])
    BY <2>1, <2>2, DL2DxShape
  <2> QED
    BY <1>0, <2>3
<1>2. ASSUME NEW j \in 0 .. NL - 1, j \in S PROVE j + 1 \in S
  <2> DEFINE k == NL - (j + 1)
  <2>0. k \in 0 .. NL - 1 /\ k + 1 = NL - j /\ k # NL
        /\ dm[k] \in Nat /\ dm[k + 1] \in Nat /\ j + 1 \in 0 .. NL
    BY <1>0
  <2>1. J[k] = Dgemm(Dgemm(J[k + 1], LayerDerivative(v, Ws, NL, k)), DAffineDx(Ws[k]))
    BY <1>0, <2>0, BackJacDef
  <2>2. Shaped(J[k + 1], 1, dm[k + 1])
    BY <1>2, <2>0
  <2>3. Shaped(Dgemm(J[k + 1], LayerDerivative(v, Ws, NL, k)), 1, dm[k + 1])
    BY <2>0, <2>2, LayerDerivativeShape, DgemmShape
  <2>4. Shaped(DAffineDx(Ws[k]), dm[k + 1], dm[k])
    <3>1. Shaped(Ws[k], dm[k + 1], dm[k] + 1)
      BY <2>0 DEF NetShaped
    <3> QED
      BY <2>0, <3>1, DAffineDxShape
  <2>5. Shaped(J[k], 1, dm[k])
    BY <2>1, <2>3, <2>4, DgemmShape
  <2> QED
    BY <2>0, <2>5, Zenon
<1>3. S = 0 .. NL
  BY <1>0, <1>1, <1>2, UpTo
<1> QED
  <2> SUFFICES ASSUME NEW k \in 0 .. NL PROVE Shaped(J[k], 1, dm[k])
    OBVIOUS
  <2>0. NL - k \in 0 .. NL
    BY <1>0
  <2>1. NL - k \in S
    BY <2>0, <1>3, Zenon
  <2>2. Shaped(J[NL - (NL - k)], 1, dm[NL - (NL - k)])
    BY <2>1
  <2>3. NL - (NL - k) = k
    BY <1>0
  <2> QED
    BY <2>2, <2>3

\* The Jacobian backpropagation returns for layer k has the shape of W_k,
\* so train's gsl_matrix_sub(allW[k], jac) gets operands of equal shape.
LEMMA BackpropShape ==
  ASSUME NEW v, NEW t, NEW Ws, NEW NL, NEW dm, NetShaped(v, Ws, NL, dm),
         Shaped(t, dm[NL], 1)
  PROVE  \A k \in 0 .. NL - 1 :
           Shaped(Backpropagation(v, t, Ws, NL)[k], dm[k + 1], dm[k] + 1)
<1> SUFFICES ASSUME NEW k \in 0 .. NL - 1
             PROVE  Shaped(Backpropagation(v, t, Ws, NL)[k], dm[k + 1], dm[k] + 1)
  OBVIOUS
<1> DEFINE a == dm[k]
           p == dm[k + 1]
           row == Dgemm(BackJac(v, t, Ws, NL)[k + 1], LayerDerivative(v, Ws, NL, k))
           dw == DAffineDw(Forward(v, Ws, NL)[k], Ws[k])
<1>0. NL \in Nat /\ k \in 0 .. NL /\ k + 1 \in 0 .. NL /\ a \in Nat \ {0} /\ p \in Nat \ {0}
  BY DEF NetShaped
<1>1. Shaped(Ws[k], p, a + 1)
  BY DEF NetShaped
<1>2. Shaped(row, 1, p)
  <2>1. Shaped(BackJac(v, t, Ws, NL)[k + 1], 1, p)
    BY <1>0, BackJacShape
  <2> QED
    BY <1>0, <2>1, LayerDerivativeShape, DgemmShape
<1>3. Shaped(dw, p, p * (a + 1))
  <2>1. Shaped(Forward(v, Ws, NL)[k], a, 1)
    BY <1>0, ForwardShape
  <2> QED
    BY <1>0, <1>1, <2>1, DAffineDwShape
<1>4. Shaped(Dgemm(row, dw), 1, p * (a + 1))
  BY <1>2, <1>3, DgemmShape
<1>5. Backpropagation(v, t, Ws, NL)[k] = Reshape(Dgemm(row, dw), p, a + 1)
  BY <1>1, BackpropDef DEF Shaped
<1>6. p * (a + 1) \in Nat /\ a + 1 \in Nat /\ p * (a + 1) = 1 * (p * (a + 1))
  BY <1>0
<1> QED
  BY <1>4, <1>5, <1>6, <1>0, ReshapeShape

-----------------------------------------------------------------------------
(***************************************************************************)
(* The layout of the Jacobian with respect to the weights.  dAffineDw      *)
(* places x and the bias 1 in block i * (n + 1) of row i; after dgemm with *)
(* the row of currJac and reshape to p x (n + 1), entry (i, j) is the      *)
(* outer product delta_i * (x; 1)_j that the delta rule gives.            *)
(***************************************************************************)

\* The partial sums of entry (i, j) of dgemm(a, b), as Dgemm names them P.
DotP(a, b, i, j) ==
  CHOOSE P : P = [k \in 0 .. a.c |->
                    IF k = 0 THEN 0 ELSE P[k - 1] + At(a, i, k - 1) * At(b, k - 1, j)]

\* Every entry of m is an integer.
IntMat(m) == \A i \in 0 .. m.r - 1, j \in 0 .. m.c - 1 : At(m, i, j) \in Int

LEMMA DgemmEntry ==
  ASSUME NEW a, NEW b, NEW p \in Nat, NEW q, NEW s,
         Shaped(a, p, q), Shaped(b, q, s),
         NEW i \in 0 .. p - 1, NEW j \in 0 .. s - 1
  PROVE  At(Dgemm(a, b), i, j) = DotP(a, b, i, j)[q]
<1>1. a # Null /\ b # Null /\ a.c = b.r /\ a.r = p /\ b.c = s /\ a.c = q
  BY DEF Shaped
<1> QED
  BY <1>1 DEF Dgemm, Mat, At, DotP

\* The partial sums meet their defining equation.
LEMMA DotDef ==
  ASSUME NEW a, NEW b, NEW i, NEW j, a.c \in Nat
  PROVE  DotP(a, b, i, j) =
           [k \in 0 .. a.c |-> IF k = 0 THEN 0
                               ELSE DotP(a, b, i, j)[k - 1] + At(a, i, k - 1) * At(b, k - 1, j)]
<1> DEFINE P == DotP(a, b, i, j)
<1>1. FiniteNatInductiveDefHypothesis(P, 0, LAMBDA u, k : u + At(a, i, k - 1) * At(b, k - 1, j), 0, a.c)
  BY DEF FiniteNatInductiveDefHypothesis, DotP
<1>2. FiniteNatInductiveDefConclusion(P, 0, LAMBDA u, k : u + At(a, i, k - 1) * At(b, k - 1, j), 0, a.c)
  BY <1>1, FiniteNatInductiveDef
<1> QED
  BY <1>2 DEF FiniteNatInductiveDefConclusion

\* A sum whose terms are all zero but the one at index s0 is that term.
LEMMA DotSingle ==
  ASSUME NEW a, NEW b, NEW i, NEW j, NEW N \in Nat, a.c = N, NEW s0 \in 0 .. N - 1,
         \A k \in 0 .. N - 1 : At(a, i, k) * At(b, k, j) \in Int,
         \A k \in 0 .. N - 1 : k # s0 => At(a, i, k) * At(b, k, j) = 0
  PROVE  DotP(a, b, i, j)[N] = At(a, i, s0) * At(b, s0, j)
<1> DEFINE P == DotP(a, b, i, j)
           term == At(a, i, s0) * At(b, s0, j)
           S == {k \in 0 .. N : P[k] = IF k > s0 THEN term ELSE 0}
<1>0. \A k \in 0 .. N : P[k] = IF k = 0 THEN 0 ELSE P[k - 1] + At(a, i, k - 1) * At(b, k - 1, j)
  BY DotDef
<1>1. 0 \in S
  BY <1>0
<1>2. ASSUME NEW k \in 0 .. N - 1, k \in S PROVE k + 1 \in S
  <2>1. P[k + 1] = P[k] + At(a, i, k) * At(b, k, j)
    BY <1>0
  <2>2. term \in Int /\ At(a, i, k) * At(b, k, j) \in Int
    OBVIOUS
  <2>3. CASE k = s0
    BY <1>2, <2>1, <2>2, <2>3
  <2>4. CASE k # s0
    BY <1>2, <2>1, <2>2, <2>4
  <2> QED
    BY <2>3, <2>4
<1>3. S = 0 .. N
  BY <1>1, <1>2, UpTo
<1> QED
  <2>1. N \in S
    BY <1>3
  <2> QED
    BY <2>1
\* Offset j of block i of width b is index i * b + j.
LEMMA BlockIndex ==
  ASSUME NEW i \in Nat, NEW b \in Nat \ {0}, NEW j \in 0 .. b - 1
  PROVE  (i * b + j) \div b = i /\ (i * b + j) % b = j
BY Z3

\* Every index k is offset k % b of block k \div b.
LEMMA BlockOf ==
  ASSUME NEW k \in Nat, NEW b \in Nat \ {0}
  PROVE  /\ k \div b \in Nat /\ k % b \in 0 .. b - 1
         /\ k = (k \div b) * b + (k % b)
<1> DEFINE m == k \div b
<1>1. m \in Nat
  OBVIOUS
<1>2. m * b <= k /\ k < m * b + b
  BY <1>1, Z3
<1>3. k - m * b \in 0 .. b - 1 /\ m * b + (k - m * b) = k
  BY <1>1, <1>2
<1>4. k % b = k - m * b
  BY <1>1, <1>3, BlockIndex
<1>5. k % b \in 0 .. b - 1 /\ k = m * b + (k % b)
  <2> HIDE DEF m
  <2> QED
    BY <1>1, <1>3, <1>4
<1> QED
  BY <1>1, <1>5

\* Element j < n of an n x 1 column, as VecAt reads it.
LEMMA VecAtColumn ==
  ASSUME NEW v, NEW n \in Nat, Shaped(v, n, 1), NEW j \in 0 .. n - 1
  PROVE  VecAt(v, j) = At(v, j, 0)
BY DEF VecAt, Shaped

\* Column s * (n + 1) + t of row m of dAffineDw(v, W), offset t of block s,
\* holds entry t of (v; 1) when the block is the row's own (s = m), else 0.
LEMMA DwEntry ==
  ASSUME NEW v, NEW W, NEW n \in Nat, NEW p \in Nat, NEW c,
         Shaped(v, n, 1), Shaped(W, p, c),
         NEW m \in 0 .. p - 1, NEW s \in 0 .. p - 1, NEW t \in 0 .. n
  PROVE  At(DAffineDw(v, W), m, s * (n + 1) + t) =
           IF s = m THEN IF t = n THEN 1 ELSE At(v, t, 0) ELSE 0
<1> DEFINE k == s * (n + 1) + t
<1>0. k \in 0 .. p * (n + 1) - 1 /\ k \div (n + 1) = s /\ k % (n + 1) = t
  <2>1. s * (n + 1) <= (p - 1) * (n + 1)
    OBVIOUS
  <2>2. k \div (n + 1) = s /\ k % (n + 1) = t
    BY BlockIndex
  <2> QED
    BY <2>1, <2>2
<1> DEFINE b == n + 1
           F(i, l) == IF l = i * b + n THEN 1
                      ELSE IF l >= i * b /\ l < i * b + n THEN VecAt(v, l - i * b)
                      ELSE 0
<1>1. v # Null /\ W # Null /\ IsVector(v) /\ Size(v) = n /\ W.r = p
  BY DEF Shaped, IsVector, Size
<1> DEFINE sz == Size(v)
<1>2. At(DAffineDw(v, W), m, k) = F(m, k)
  <2>1. DAffineDw(v, W) =
          Mat(W.r, W.r * (sz + 1), LAMBDA i, l :
                IF l = i * (sz + 1) + sz THEN 1
                ELSE IF l >= i * (sz + 1) /\ l < i * (sz + 1) + sz
                     THEN VecAt(v, l - i * (sz + 1))
                     ELSE 0)
    BY <1>1, Zenon DEF DAffineDw
  <2> QED
    BY <1>0, <1>1, <2>1 DEF Mat, At
<1>3. b \in Nat \ {0} /\ k \in Nat /\ m \in Nat
  OBVIOUS
<1>4. k \div b \in Nat /\ k % b \in 0 .. b - 1 /\ k = (k \div b) * b + (k % b)
  BY <1>3, BlockOf
<1>5. CASE k \div b = m
  <2>0. k = m * b + (k % b) /\ k % b \in 0 .. b - 1
    BY <1>4, <1>5, Zenon
  <2>1. k - m * b = k % b /\ k >= m * b /\ k <= m * b + n
    <3>1. \A r \in 0 .. b - 1 : k = m * b + r => (k - m * b = r /\ k >= m * b /\ k <= m * b + n)
      BY <1>3
    <3> QED
      BY <2>0, <3>1
  <2>2. CASE k % b = n
    BY <1>2, <1>5, <2>1, <2>2
  <2>3. CASE k % b # n
    <3>1. k % b \in 0 .. n - 1 /\ k # m * b + n /\ k < m * b + n
      BY <1>4, <2>1, <2>3
    <3>2. VecAt(v, k % b) = At(v, k % b, 0)
      BY <3>1, VecAtColumn
    <3> QED
      BY <1>2, <1>5, <2>1, <3>1, <3>2
  <2> QED
    BY <2>2, <2>3
<1>6. CASE k \div b # m
  <2>1. ~(m * b <= k /\ k < m * b + b)
    <3>1. ASSUME m * b <= k, k < m * b + b PROVE FALSE
      <4>1. k - m * b \in 0 .. b - 1 /\ k = m * b + (k - m * b)
        BY <1>3, <3>1
      <4>2. (m * b + (k - m * b)) \div b = m
        BY <1>3, <4>1, BlockIndex
      <4> QED
        BY <1>6, <4>1, <4>2
    <3> QED
      BY <3>1
  <2> QED
    BY <1>2, <1>6, <2>1
<1>7. At(DAffineDw(v, W), m, k) =
        IF k \div b = m THEN IF k % b = n THEN 1 ELSE At(v, k % b, 0) ELSE 0
  BY <1>5, <1>6
<1> QED
  BY <1>0, <1>7

\* For every layer width p and input size n, the Jacobian with respect to
\* W that backpropagation builds from a 1 x p row of currJac, by dgemm with
\* dAffineDw(x, W) and reshape to p x (n + 1) (lines 330-340), is the outer
\* product row_i * (x; 1)_j: the index arithmetic of dAffineDw's blocks and
\* of reshape's row-major order agree (the layout BackpropLayout checks).
THEOREM JacobianLayout ==
  ASSUME NEW row, NEW v, NEW W, NEW n \in Nat, NEW p \in Nat \ {0}, NEW wc,
         Shaped(row, 1, p), Shaped(v, n, 1), Shaped(W, p, wc),
         IntMat(row), IntMat(v)
  PROVE  LET J == Reshape(Dgemm(row, DAffineDw(v, W)), p, n + 1)
         IN  /\ Shaped(J, p, n + 1)
             /\ \A i \in 0 .. p - 1, j \in 0 .. n :
                  At(J, i, j) = At(row, 0, i) * (IF j < n THEN At(v, j, 0) ELSE 1)
<1> DEFINE b == n + 1
           D == DAffineDw(v, W)
           M == Dgemm(row, D)
<1>0. b \in Nat \ {0} /\ p * b \in Nat \ {0}
  OBVIOUS
<1>1. Shaped(D, p, p * b) /\ Shaped(M, 1, p * b)
  <2>1. Shaped(D, p, p * b)
    BY DAffineDwShape
  <2> QED
    BY <2>1, DgemmShape
<1>2. Reshape(M, p, b) = Mat(p, b, LAMBDA i, j : At(M, (i * b + j) \div M.c, (i * b + j) % M.c))
  <2>1. M # Null /\ p * b = Size(M)
    BY <1>1 DEF Shaped, Size
  <2> QED
    BY <2>1, Zenon DEF Reshape
<1>3. Shaped(Reshape(M, p, b), p, b)
  BY <1>0, <1>1, ReshapeShape
<1>4. ASSUME NEW i \in 0 .. p - 1, NEW j \in 0 .. n
      PROVE  At(Reshape(M, p, b), i, j) = At(row, 0, i) * (IF j < n THEN At(v, j, 0) ELSE 1)
  <2> DEFINE q == i * b + j
  <2>1. q \in 0 .. p * b - 1 /\ i \in Nat /\ j \in 0 .. b - 1
    <3>1. i * b <= (p - 1) * b
      OBVIOUS
    <3> QED
      BY <3>1
  <2>2. q \div (p * b) = 0 /\ q % (p * b) = q
    <3>1. 0 * (p * b) + q = q /\ q \in 0 .. p * b - 1
      BY <2>1
    <3> QED
      BY <1>0, <3>1, BlockIndex
  <2>3. q \div b = i /\ q % b = j
    BY <1>0, <2>1, BlockIndex
  <2>4. At(Reshape(M, p, b), i, j) = At(M, 0, q)
    <3>1. M.c = p * b
      BY <1>1 DEF Shaped
    <3>2. At(Reshape(M, p, b), i, j) = At(M, q \div M.c, q % M.c)
      <4>1. Reshape(M, p, b).e = [a1 \in 0 .. p - 1 |-> [a2 \in 0 .. b - 1 |->
                                    At(M, (a1 * b + a2) \div M.c, (a1 * b + a2) % M.c)]]
        BY <1>2 DEF Mat
      <4> QED
        <5>1. j \in 0 .. b - 1
          BY <2>1
        <5>2. Reshape(M, p, b).e[i][j] = At(M, (i * b + j) \div M.c, (i * b + j) % M.c)
          BY <4>1, <5>1
        <5> QED
          BY <5>2 DEF At
    <3> QED
      BY <3>1, <3>2, <2>2
  <2>5. At(M, 0, q) = DotP(row, D, 0, q)[p]
    BY <1>1, <2>1, DgemmEntry
  <2>6. \A k \in 0 .. p - 1 :
          At(D, k, q) = IF k = i THEN (IF j = n THEN 1 ELSE At(v, j, 0)) ELSE 0
    <3> SUFFICES ASSUME NEW k \in 0 .. p - 1
                 PROVE  At(D, k, q) = IF k = i THEN (IF j = n THEN 1 ELSE At(v, j, 0)) ELSE 0
      OBVIOUS
    <3>1. At(D, k, q) = IF i = k THEN IF j = n THEN 1 ELSE At(v, j, 0) ELSE 0
      BY DwEntry
    <3> QED
      BY <3>1
  <2>7. \A k \in 0 .. p - 1 : At(row, 0, k) \in Int /\ At(D, k, q) \in Int
    <3>1. \A k \in 0 .. p - 1 : At(row, 0, k) \in Int
      BY DEF IntMat, Shaped
    <3>2. j < n => At(v, j, 0) \in Int
      BY DEF IntMat, Shaped
    <3> QED
      BY <2>6, <3>1, <3>2
  <2>8. DotP(row, D, 0, q)[p] = At(row, 0, i) * At(D, i, q)
    <3>1. \A k \in 0 .. p - 1 : At(row, 0, k) * At(D, k, q) \in Int
      BY <2>7
    <3>2. \A k \in 0 .. p - 1 : k # i => At(row, 0, k) * At(D, k, q) = 0
      BY <2>6, <2>7
    <3>3. row.c = p
      BY DEF Shaped
    <3> QED
      BY <3>1, <3>2, <3>3, DotSingle
  <2>9. At(D, i, q) = IF j < n THEN At(v, j, 0) ELSE 1
    BY <2>6
  <2> QED
    BY <2>4, <2>5, <2>8, <2>9
<1> QED
  BY <1>3, <1>4

-----------------------------------------------------------------------------
(***************************************************************************)
(* The evaluation of MCNeuralNet, for every set of dimension arrays.       *)
(***************************************************************************)
USE DimsAssumption

\* What Init chooses and Evaluate leaves alone: a dimensions array, weights
\* of the shapes initNetwork allocates, and a sample of matching sizes.
InitShape ==
  \E d \in Dims :
    /\ dims = ZeroBased(d)
    /\ allW \in Networks(d)
    /\ x \in Matrices(d[1], 1, Vals[d])
    /\ y \in Matrices(d[Len(d)], 1, Vals[d])

\* The network Init chooses has L = nbDimensions - 1 layers and the shapes
\* NetShaped describes.
LEMMA InitNetShaped ==
  ASSUME InitShape
  PROVE  /\ NetShaped(x, allW, L, dims)
         /\ Shaped(y, dims[L], 1)
         /\ NbLayers = 0 .. L - 1
<1>1. PICK d \in Dims :
        /\ dims = ZeroBased(d)
        /\ allW \in Networks(d)
        /\ x \in Matrices(d[1], 1, Vals[d])
        /\ y \in Matrices(d[Len(d)], 1, Vals[d])
  BY DEF InitShape
<1> DEFINE n == Len(d) - 1
<1>2. d \in Seq(Nat \ {0}) /\ n \in Nat \ {0} /\ \A i \in 1 .. Len(d) : d[i] \in Nat \ {0}
  <2>1. d \in Seq(Nat \ {0}) /\ Len(d) >= 2
    BY <1>1, DimsAssumption
  <2>2. Len(d) \in Nat /\ d \in [1 .. Len(d) -> Nat \ {0}]
    BY <2>1, LenProperties
  <2> QED
    BY <2>1, <2>2
<1>3. DOMAIN allW = 0 .. n - 1
      /\ \A k \in 0 .. n - 1 : allW[k] \in Matrices(d[k + 2], d[k + 1] + 1, Vals[d])
  BY <1>1 DEF Networks
<1>4. L = n
  <2>1. Cardinality(0 .. n - 1) = n
    BY <1>2, FS_Interval
  <2> QED
    BY <1>3, <2>1 DEF L, NbLayers
<1>5. dims \in [0 .. n -> Nat \ {0}] /\ \A i \in 0 .. n : dims[i] = d[i + 1]
  BY <1>1, <1>2 DEF ZeroBased
<1>6. \A k \in 0 .. n - 1 : Shaped(allW[k], dims[k + 1], dims[k] + 1)
  <2> SUFFICES ASSUME NEW k \in 0 .. n - 1
               PROVE  Shaped(allW[k], dims[k + 1], dims[k] + 1)
    OBVIOUS
  <2>1. dims[k + 1] = d[k + 2] /\ dims[k] = d[k + 1] /\ d[k + 2] \in Nat \ {0}
    BY <1>2, <1>5
  <2> QED
    BY <1>3, <2>1 DEF Matrices, Shaped, Null
<1>7. Shaped(x, dims[0], 1) /\ Shaped(y, dims[n], 1)
  <2>1. dims[0] = d[1] /\ dims[n] = d[Len(d)] /\ d[1] \in Nat \ {0} /\ d[Len(d)] \in Nat \ {0}
    BY <1>2, <1>5
  <2> QED
    BY <1>1, <2>1 DEF Matrices, Shaped, Null
<1> QED
  BY <1>2, <1>3, <1>4, <1>5, <1>6, <1>7 DEF NetShaped, NbLayers

\* The inductive invariant: the shapes Init chose, and WellShaped.
ShapeInv == InitShape /\ WellShaped

\* One evaluation of backpropagation and nn on the chosen network gives
\* Jacobians of the weights' shapes and a C x 1 prediction.
LEMMA EvaluateShaped ==
  ASSUME InitShape, Evaluate
  PROVE  WellShaped'
<1>1. NetShaped(x, allW, L, dims) /\ Shaped(y, dims[L], 1) /\ NbLayers = 0 .. L - 1
  BY InitNetShaped
<1>2. UNCHANGED <<dims, allW, x, y>> /\ done' = TRUE
      /\ jacs' = Backpropagation(x, y, allW, L) /\ pred' = Inference(x, allW, L)
  BY DEF Evaluate
<1>3. L' = L /\ NbLayers' = NbLayers
  BY <1>2 DEF L, NbLayers
<1>4. ASSUME NEW k \in NbLayers
      PROVE  /\ allW[k].r = WeightShape(dims, k).r /\ allW[k].c = WeightShape(dims, k).c
             /\ jacs'[k] # Null /\ jacs'[k].r = allW[k].r /\ jacs'[k].c = allW[k].c
  <2>1. k \in 0 .. L - 1
    BY <1>1
  <2>2. Shaped(allW[k], dims[k + 1], dims[k] + 1)
    BY <1>1, <2>1 DEF NetShaped
  <2>3. Shaped(Backpropagation(x, y, allW, L)[k], dims[k + 1], dims[k] + 1)
    BY <1>1, <2>1, BackpropShape
  <2> QED
    BY <1>2, <2>2, <2>3 DEF WeightShape, Shaped
<1>5. Shaped(pred', dims[L], 1)
  BY <1>1, <1>2, InferenceShape
<1> QED
  BY <1>2, <1>3, <1>4, <1>5 DEF WellShaped, Shaped

\* For every set of dimension arrays constructContract can build, the
\* Jacobians backpropagation returns have the shapes of the weights, so
\* train's update never fails on a size check, and nn returns a C x 1
\* column (WellShaped).
THEOREM ShapesSafe == Spec => []WellShaped
<1>1. Init => ShapeInv
  BY DEF Init, ShapeInv, InitShape, WellShaped
<1>2. ShapeInv /\ [Next]_vars => ShapeInv'
  <2> SUFFICES ASSUME ShapeInv, [Next]_vars PROVE ShapeInv'
    OBVIOUS
  <2>1. UNCHANGED <<dims, allW, x, y>>
    BY DEF Next, Evaluate, vars
  <2>2. InitShape'
    BY <2>1, Zenon DEF ShapeInv, InitShape
  <2>3. CASE Evaluate
    BY <2>2, <2>3, EvaluateShaped DEF ShapeInv
  <2>4. CASE UNCHANGED vars
    <3>1. L' = L /\ NbLayers' = NbLayers
      BY <2>1 DEF L, NbLayers
    <3> QED
      BY <2>2, <2>4, <2>1, <3>1 DEF ShapeInv, WellShaped, vars
  <2> QED
    BY <2>2, <2>3, <2>4 DEF Next, ShapeInv
<1> QED
  BY <1>1, <1>2, PTL DEF Spec, ShapeInv
====
