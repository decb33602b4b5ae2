# Revenue-distribution ledgers: TLA+ models, checks and proofs

This directory holds a verification development for the C code under
`src/C-to-Wasm`:

- the naive revenue ledger in `revenue_distribution/NonOptimized/DistributionContract.c`;
- the scalable ledger in `revenue_distribution/Optimized/DistributionContract.c`;
- the neural-network classification contract in `neural_network/`: its matrix
  algorithms (`MatrixNNUtils.c`), its API and memory ownership
  (`ClassificationContract.c`) and its benchmark driver (`Simulation.c`).

`spec.md` describes the ledgers and puts the neural network and the benchmarks
out of its scope (spec 1). For those parts, what the code should do is taken
from its own doc comments, from the mathematics of backpropagation (the
gradient of the L2 loss), and from the C rules on memory: every allocated block
is freed, and NULL is never dereferenced.

## 1. Inventory

### Components and how they interact

| Part | Code | State | Operations |
|---|---|---|---|
| HolderStore | `hashmap.h/.c` (included, not in the sources) | address -> `UserState` record | `hashmap_new`, `hashmap_get`, `hashmap_set`, `hashmap_iter` |
| NaiveLedger | `NonOptimized/DistributionContract.c` | `totalShare`, map of `{share, revenue}` | `constructContract`, `changeShare`, `addRevenue` (calls `distributeRevenue`), `destroyContract` |
| ScalableLedger | `Optimized/DistributionContract.c` | `totalStake`, `incrementPerRevenue`, `index`, map of `{ownStake, lastTotalStake, lastIncrementPerRevenue, ownAccumulatedTotal, lastIndex}` | the same four |
| Benchmark | `Optimized/OptimizedSimulation.c` | loop counters, the timing total | a caller of the ledger only (not modelled, see section 5) |
| NeuralNet | `neural_network/MatrixNNUtils.c` | none (pure functions on matrices) | `relu`, `identity`, `affine`, `reshape`, `dL2Dx`, the Jacobians, `backpropagation`, `nn` |
| ClassificationContract | `neural_network/ClassificationContract.c` + allocation paths of `MatrixNNUtils.c` | the contract's pointers, the heap | `constructContract`, `normalizeContract`, `trainContract`, `testContract`, `destroyContract` |
| Simulation | `neural_network/Simulation.c` | loop counter, timings | `main`'s construct/benchmark/retry/destroy loop |

Each ledger owns one HolderStore and mutates it from `changeShare`. The naive
`addRevenue` walks every holder in the store. The scalable `addRevenue` touches
only `index`, and a holder's share is *settled* into `ownAccumulatedTotal` the
next time `changeShare` is called for that holder.

The ledgers are single-writer: spec 5 says every call runs to completion before
the next one starts. So the hard behaviours are sequences of calls, not
interleavings:

- a call that fails after it has already written something;
- divisions by a total that has reached zero;
- IEEE infinities and NaN that, once stored, never go away;
- snapshots taken at one call and used at a much later one;
- an allocation failure inside `hashmap_set`.

### Properties the code should have (spec 7, 8)

- Conservation of stake.
- Non-negative, finite balances.
- Rejected calls change nothing.
- No division by a zero total (a DegenerateDistribution error instead).
- Settlement equivalence: the scalable ledger pays each holder what the
  proportional (naive) ledger would.

## 2. Modules

| Module | Models |
|---|---|
| `Doubles` | The IEEE-754 doubles the code computes with. An integer is an exact double, and `PosInf`, `NegInf` and `NaN` are model values. `FAdd`, `FSub`, `FMul`, `FDiv` and `FLeq` follow IEEE rules for the special values (inf - inf = NaN, x/0 = ±inf, 0/0 = NaN, every comparison with NaN is false). Finite division is exact integer division; the models only divide where it is exact. |
| `HolderStore` | `Addr == 1..NAddr`. The store is a function whose DOMAIN is the set of keys present. `HashmapGet` and `HashmapSet` model `hashmap_get` and `hashmap_set` (insert or overwrite). `SumOf(h)` is the sum of a holding function, counted as unit tokens `<<a, i>>`. It is non-recursive so that TLAPS can reason about it with cardinality lemmas. |
| `ScalableLedger` | One variable per field of the contract, plus a ghost `revenueIn` (revenue accepted so far) and `ret` (the return code of the last call). The actions are `Init` = `constructContract` (lines 32-44), `ChangeShare(dest, change)` = `changeShare` (lines 69-105) and `AddRevenue(amount)` = `addRevenue` + `distributeRevenue` (lines 114-130). |
| `NaiveLedger` | `totalShare`, the map, `revenueIn` and `ret`. `ChangeShare` = `changeShare` (lines 64-88), with its three outcomes in the code's order. `AddRevenue` = `addRevenue` and the whole `distributeRevenue` loop (lines 97-119). |
| `RevenueLedger` | The abstract ledger of spec 4 and 8. It keeps the stake of every address and the revenue each is owed, and raises `owed` by each holder's exact share of every accepted injection. |
| `MCScalable`, `MCNaive` | The TLC instances. `MCScalable` also defines the refinement mapping to `RevenueLedger`: a holder's owed revenue is what a settlement would leave in `ownAccumulatedTotal` now. |
| `HolderStoreProofs`, `DoublesProofs`, `ScalableLedgerProofs`, `ScalableSettlementProofs`, `NaiveLedgerProofs`, `SimulationProofs`, `NeuralNetProofs` | The TLAPS proofs (section 4). |
| `NeuralNet` | The matrix functions as pure operators on integer matrices `[r, c, e]`. A failure of a size check (`IS_VECTOR`, a GSL length error) returns `Null`, as the code returns NULL. `Forward` and `Backpropagation` translate the two passes of `backpropagation`, including the choice of layer derivative at line 291 (`LayerDerivative`). `Inference` is `nn`. |
| `MCNeuralNet` | Enumerates small networks (dimensions, weights and inputs from small sets), evaluates the code's operators once (`Evaluate`) and compares them with reference definitions: the delta-rule gradient `RefGrad` and the forward pass `RefForward`. |
| `ClassificationContract` | The contract as a record of which pointers are non-NULL, `live` = the heap blocks allocated and not freed (counted as the code allocates and frees), `status` (running, aborted, crashed). One action per API call, each with the allocation sites that can fail. A plain `calloc` returns NULL; a GSL allocation calls GSL's error handler, which aborts under the default handler (`GslAbortsOnError`), since the code never installs another. |
| `Simulation` | `Simulation.c`'s `main` composed with `ClassificationContract`: `Setup` (data generation and construct), `Bench` (one of the three timed calls), `Check` (the `i--` retry and `destroyContract`). |

How `ChangeShare` follows the code:

- **Guards** come from the early returns: `change == 0`, `newTotal < 0` and the
  holder underflow `tmp.ownStake + change < 0`.
- **Failure paths** are steps of their own that set `ret' = "EXIT_FAILURE"`.
  The naive ledger's middle failure still writes `totalShare'`, because line 71
  comes before the check at line 84.
- **The scalable success branch** models each part of the code:
  - Phase 1 is `FreshOwn`;
  - Phase 2 is `NewIncrement`;
  - Phase 3 and the trailing `hashmap_set` are the record written by
    `HashmapSet`.

**Data abstraction.** Stakes and amounts are small integers, which doubles hold
exactly. Revenue is counted in units of `1/Unit`, where `Unit` is divisible by
every total up to `MaxStake`, so that the divisions by a total are exact.
`index` and `incrementPerRevenue` are doubles that can become `+inf` or `NaN`.

**Left out:**

- the `!contract` and `!dest` checks (callers always pass both);
- `isfinite(newTotal)` (never false for bounded integers);
- the address strings and their hashing;
- `destroyContract` (it only frees memory).

**Fault model (scalable ledger).** With `HashmapMayFail = TRUE`, `hashmap_set`
may fail to allocate. The ledger ignores its NULL return after it has written
its totals. The failure is one more outcome of `ChangeShare`: the totals are
written and the holder record is not. The lost record does more than break
conservation (scalable_oom). A later recorded withdrawal can leave a holder's
stake above the total it snapshots, and a snapshot total of 0 under a positive
stake turns that holder's next settlement into `NaN` (scalable_oom_nan). This
happens without any revenue going into an empty pool. The naive ledger also
calls `hashmap_set` without checking its result (NonOptimized line 86), but its
model leaves the fault out.

**Fault model (neural network).** In each API call, at most one allocation
fails, at any of that call's allocation sites, within a bound `MaxFaults`. The
consequences follow the code's checks:

- a NULL result that is checked leads to a cleanup or a `return NULL`;
- a NULL that is not checked leads to `status = "crashed"`;
- a failing GSL allocation under the default handler leads to
  `status = "aborted"`.

## 3. Runs

Every run uses `NAddr = 2` and changes and amounts from `{-1, 0, 1, 2}`. These
inputs cover rejected zero calls, withdrawals, over-withdrawals and deposits.
The other bounds are:

- `MaxStake = 3`: at most 3 units of stake in total.
- `MaxRevenue = 4`: at most 4 units of revenue injected in all.
- `Unit = 6`: divisible by every total from 1 to 3.
- Scalable ledger only: `INDEX_INIT = 1000` and `INCR_PER_REV_INIT = 10`,
  scaled-down forms of the code's constants.

Two holders are enough for every failure found: a drained pool, a snapshot made
stale by *another* holder, a rejected withdrawal. The bounds still allow each
pool to be drained and refilled several times.

`CallerAvoidsEmptyPool = TRUE` restricts callers to what spec 7 expects of them:
no injection while the total is 0. The scalable_empty_pool run lifts that
restriction. Lifting it for the naive ledger makes `RevenueMonotone` fail as
well: at total 0, `distributeRevenue` computes 0/0 = NaN for every holder
(NonOptimized line 116).

| Run | cfg | Expect | Shows |
|---|---|---|---|
| scalable_safety | MCScalable.cfg | pass (≈230k states) | `TypeOK`, `StakeConservation`, `SettlementWellDefined`, `AccruedBounded` |
| scalable_empty_pool | MCScalableEmptyPool.cfg | violation | draining the pool sets `incrementPerRevenue = +inf`; one injection then makes `index = +inf` for good and a later settlement stores `NaN` |
| scalable_refines_ideal | MCScalableIdeal.cfg | violation | A deposits 1, B deposits 1, 1 unit is injected: A's snapshot still says total = 1, so A settles the whole unit and B half of it. This breaks settlement equivalence (spec 8) |
| naive_safety | MCNaive.cfg | pass (≈137k states) | `TypeOK`, `TotalShareBounded`, `RevenueMonotone` |
| naive_conservation | MCNaiveConservation.cfg | violation | a rejected over-withdrawal still lowers `totalShare` (line 71 comes before the check at line 84) |
| scalable_oom | MCScalableOOM.cfg | violation | `hashmap_set` failing after `totalStake` was written breaks `StakeConservation` (Optimized line 103) |
| scalable_oom_nan | MCScalableOOMNaN.cfg | violation | `AccruedBounded` under `hashmap_set` failures, with callers that never inject into an empty pool. A deposit of 2 is recorded. A withdrawal of 1 writes `totalStake = 1` but loses its record. A second withdrawal of 1 is recorded, with stake 1 against a snapshot total of 0 and `incrementPerRevenue = +inf` (line 94). The next call's Phase 1 (lines 87-88) divides by `+inf * 0` and stores `NaN` |
| nn_algorithms | MCNeuralNet.cfg | pass (≈44k states) | `WellShaped` for every network with 1 to 3 inputs and classes and up to 2 hidden layers of up to 3 units (zero weights): backpropagation returns one Jacobian per weight matrix with that matrix's shape, and `nn` a C x 1 vector. `BackpropLayout` for the shapes <<1,1>>, <<1,2>>, <<1,2,1>> with weights and inputs in {-1, 0, 1}: the weight Jacobian (`dAffineDw` + `reshape`) equals the delta rule taken with the layer derivatives the code uses |
| nn_gradient | MCNeuralGradTrue.cfg | violation | `GradientCorrect`: with the true derivatives, the gradient differs. A single layer with W = (-1, -1) and x = -1 gives [0, 0] instead of [-2, 2] (line 291) |
| contract_oom_leak | ContractOOMLeak.cfg | violation | `NoLeak`: a failing `fromArray` allocation leaks the matrices already made, because the cleanup at lines 35-38 frees only NULL ones. This run sets `GslAbortsOnError = FALSE`, so that a failing GSL allocation returns NULL. `fromArray`'s own NULL check expects this, but no file of the repository calls `gsl_set_error_handler_off`. With the default handler, which `Simulation.c` keeps, the process aborts first, and the leak is reachable only for a caller that turns the handler off |
| contract_oom_crash | ContractOOMCrash.cfg | violation | `NoUB`: `initNetwork`'s unchecked `calloc` (line 164) is written through |
| simulation | Simulation.cfg | pass (993 states) | `TypeOK`, `NoLeak` (each iteration's contract is freed, under the default aborting GSL handler) and `Termination` of the retry loop, under the fairness below |

Deadlock checking depends on the run:

- **Ledger runs** check for deadlock, because the ledgers never stop and some
  call is always possible.
- **Neural-network, contract and benchmark runs** do not
  (`CHECK_DEADLOCK FALSE`). Those programs really do end: an evaluation is done
  once, the caller's call budget is bounded, and `main` returns.

Bounds for the neural network:

- **Contract and simulation runs.** `NbLayers = 1`, `NbSamples = 2`,
  `NumEpoch = 1`. One hidden layer already gives a network of several blocks,
  and a sampled epoch runs backpropagation. `ITER = 2`, so an iteration follows
  a repeated one. Every allocation site of every call can be the failing one.
- **Gradient runs.** Weights and inputs come from {-1, 0, 1}. This covers the
  sign cases of relu and its derivative.

**Fairness.**

- The ledgers have no scheduler and no obligation that any call ever happens,
  so they have no liveness property.
- `Simulation` has a liveness property, `Termination`. `main` is one process,
  so it has weak fairness of its steps.
- The retry loop ends only if iterations whose timings do not cross a second
  boundary keep coming. One iteration takes far less than a second, so such
  iterations do keep occurring. This is assumed as strong fairness of
  `Start({})`, the start of an iteration with no crossing.
- Without that assumption the loop can repeat forever, and the model shows this
  (mutant `CheckRetryInverted`).

Every property of a passing run has a mutant in `PROJECT.json`: an operator
defined next to the code it alters, which the property catches. The mutants
are:

- a dropped `amount <= 0` check;
- `totalStake` written before the holder check;
- `incrementPerRevenue` never reset;
- the `ownStake == 0` short-circuit removed;
- the naive `newTotal < 0` check dropped;
- revenue overwritten instead of added;
- `affine` without its bias row;
- `dAffineDw` with the per-row blocks packed n apart instead of n + 1;
- `destroyContract` freeing one block too many, or not freeing the network;
- the retry test of `Simulation.c` reading `resultTest` the wrong way round.

## 4. Proofs

`HolderStoreProofs` proves facts about `SumOf` with the lemmas of
`FiniteSetTheorems`:

- `UnitsOfCard`: address `a` contributes `h[a]` tokens.
- `SumSplit`: the sum splits at one address.
- `SumExcept`: overwriting the holding of address `d` with `n` changes the sum by
  `n - h[d]`.
- `SumZero`: a holding function that is zero everywhere sums to 0.

`ScalableLedgerProofs` proves, for every value of the constants (under
`ConstantsAssumption` and `NAddrAssumption`), two theorems.

**`TypeCorrect == Spec => []TypeOK`.** `TypeOK` is inductive by itself. The
proof rests on `DoubleClosure` (the double operations map doubles to doubles)
and on `HashmapSetType`.

**`Conservation`: under `~HashmapMayFail`, `Spec => []StakeConservation`.**
The assumption is needed, since run scalable_oom shows that conservation fails
when `hashmap_set` can fail. Conservation alone is not
inductive. The inductive invariant is `IInv == TypeOK /\ StakeConservation`,
because the step needs stakes to be natural numbers to apply `SumExcept`.

- A successful `changeShare` overwrites one holder's stake `s` with `s + change`
  and sets `totalStake' = totalStake + change`. By `SumExcept`, the sum moves by
  exactly `change`.
- Rejected calls and `addRevenue` leave both the stakes and the total unchanged.

The naive ledger has no conservation theorem, because its conservation property
is false (run naive_conservation).

`DoublesProofs` proves that the double operations map doubles to doubles
(`DoubleClosure`) and agree with integer arithmetic on integers (`IntOps`).
`HolderStoreProofs` also gives `SumBound` (one holding is at most the sum) and
`HashmapSetType`.

**`ScalableSettlementProofs`: `SettlementSafe`, under `~HashmapMayFail`,
`Spec => []SettlementWellDefined`.** The inductive invariant is
`SIInv == IInv /\ SettlementWellDefined`. The step from `changeShare` writes
`lastTotalStake = totalStake + change` into the record of `dest`. It needs the
new stake to be at most the new total, and that comes from conservation and
`SumBound` (`StakeBelowTotal`). This is why the theorem needs the same
assumption as `Conservation`. The written increment is `INCR_PER_REV_INIT`,
since a positive stake means a positive total.

**`AccruedSafe`, under `CallerAvoidsEmptyPool` and `~HashmapMayFail`,
`Spec => []AccruedBounded`.** The invariant is far from inductive. Knowing that
every settled amount lies in `0 .. revenueIn * Unit` says nothing about the
amount that the next Phase 1 adds. The strengthening is
`AInv == SIInv /\ IncrReset /\ IndexTracks /\ AllCovered`:

- `IncrReset`: a non-empty pool has the initial increment.
- `IndexTracks`: `index = INDEX_INIT + INCR_PER_REV_INIT * revenueIn`. This is
  where `CallerAvoidsEmptyPool` enters, because `addRevenue` into an empty pool
  scales `index` by a stale increment (run scalable_empty_pool).
- `AllCovered`: every snapshot was taken at an earlier revenue `r`, so that
  `lastIndex = INDEX_INIT + INCR_PER_REV_INIT * r`, and its settled amount is
  at most `r * Unit`.

TLC checked `AInv` as an invariant of `MCScalable.cfg` before it was proved.
Phase 1 then adds `(revenueIn - r) * Unit * ownStake / lastTotalStake`, which
is at most `(revenueIn - r) * Unit` (`FreshOwnBound`, using `ShareDivBound`).

**`NaiveLedgerProofs`.**

- `NaiveTypeCorrect` proves `Spec => []TypeOK`. It is no stronger than
  `TypeOK`: every share is a natural number, every revenue a double, and
  `totalShare` an integer. A revenue may be `NaN`, because line 116 divides 0
  by 0 when revenue goes into an empty pool. The lower bound on `totalShare`
  comes from `ShareBounds`. Revenues being exact natural numbers needs
  `CallerAvoidsEmptyPool` and comes from `RevenueNeverDecreases`.
- `ShareBounds` proves `Spec => []TotalShareBounded`, that is
  `0 <= totalShare <= SumOf(Shares)`, with `TypeOK /\ TotalShareBounded` as
  the inductive invariant. The half-done `changeShare` rejected at line 84
  has already written `totalShare + change` (line 71) and writes no share.
  The holder's share is too small for `change`, so `change < 0`: the total
  only drops, and it stays non-negative because of the check at line 71.
- `RevenueNeverDecreases`, under `CallerAvoidsEmptyPool`, proves
  `Spec => RevenueMonotone`, an action property. Every step adds the same
  `k \in Nat` or nothing to each holder's revenue (`RevenueStep`, using
  `ShareOfNat`).

**`SimulationProofs`: `SimNoLeak` and `SimTypeCorrect`, under
`GslAbortsOnError`.** They prove `SimSpec => []NoLeak` and
`SimSpec => []TypeOK` for every `MaxFaults`, `ITER`, number of layers and
number of samples. The assumption is the code's: `Simulation.c` never calls
`gsl_set_error_handler_off`.

`NoLeak` alone is not inductive. The strengthening `SimIInv` ties the driver's
phase to the contract:

- a NULL contract has no live pointers;
- in `setup` and `done` no contract exists;
- in `norm` and `train` the network is not yet built, since `trainContract`
  overwrites `allW`.

TLC checked `SimIInv` before it was proved. To make the proofs possible, the
`CASE` in `TrainContract` was given disjoint guards. The guards had overlapped
at the "none" site, and TLA+ makes an arbitrary choice between overlapping
arms. The behaviour of the code is unchanged.

**`NeuralNetProofs`: `ShapesSafe`, `Spec => []WellShaped` of `MCNeuralNet`.**
It holds for every dimensions array allowed by `DimsAssumption`. That
assumption says every array has at least two entries and no zero entry. The
code justifies it:

- `constructContract` builds `<<M, hidden..., C>>` with
  `nbDimensions = nbLayers + 2`;
- every dimension is the size of a `gsl_matrix_calloc` in `fromArray` or
  `initMatrix`, and GSL's error handler rejects a zero size.

`WellShaped` is not inductive, because it says nothing about the network
before `Evaluate`. The inductive invariant is
`ShapeInv == InitShape /\ WellShaped`, and TLC checked it on
`MCNeuralNet.cfg` first. `InitShape` says that the weights have the shapes
`initNetwork` allocates and that the sample matches the outer dimensions.
`InitNetShaped` turns this into `NetShaped`, where layer `k` is
`dims[k+1] x (dims[k]+1)`.

The passes are recursive functions over the layers. The proof unfolds each of
them once with `FiniteNatInductiveDef` of `NaturalsInduction`, whose step
function is given as a `LAMBDA` and whose recursive function is named by a
top-level `CHOOSE`. Then it proves a property for all layers with `UpTo`, an
induction over `0 .. N` derived from `WFMin`. `ForwardShape`,
`BackJacShape` and `BackpropShape` are proved this way.

`Backpropagation` runs its Jacobian recursion from the output layer down. The
proof first counts the layers upward (`JacDown`) and then maps the result back.

`JacobianLayout` is a lemma about the operators. Take the 1 x p row of the
current Jacobian, multiply it by `dAffineDw(x, W)` with `dgemm`, and reshape
the result to `p x (n+1)`. The theorem says the result is the outer product
`row_i * (x; 1)_j` for every `p` and `n`. This is the per-layer index
arithmetic that `BackpropLayout` depends on. The proof uses these lemmas:

- `DgemmEntry` and `DotSingle`: a sum of products with one non-zero term;
- `BlockIndex`: `(i*b + j) \div b = i` and `(i*b + j) % b = j`;
- `DwEntry`: the entries of `dAffineDw`, stated by block and offset.

**TLC only:**

- the refinement to `RevenueLedger`, which fails;
- the violated properties of the findings;
- `Termination`, a liveness property: TLAPS 1.4.5 cannot reason about
  fairness or `ENABLED` here;
- `BackpropLayout` as a whole. It compares every Jacobian with `RefGrad`, a
  delta rule that chains products of layer derivatives through the sums of
  `Dgemm`. Proving this for every shape would need induction over the layers
  with sums of products as the induction hypothesis. That is a statement
  about what a recursive definition computes, which the installed provers
  cannot instantiate. `JacobianLayout` proves its per-layer step, and TLC
  checks the whole equality on the shapes of `MCNeuralNet.cfg`.

## 5. Not modelled

- **Fractional stakes and rounding.** The code's `TODO` at Optimized line 91
  warns about rounding, which the integer abstraction rules out.
- **The `dest` pointer stored without a copy** (a memory-safety question, not a
  state-machine one).
- **`Random.c`.** It is a 48-bit linear congruential generator, beyond TLC's
  32-bit integers. Its values only fill benchmark data and initial weights, and
  the models quantify over all small inputs instead.
- **Numerics the properties do not tell apart.** This covers the floating-point
  values of `normalize`, `sum` and `elementPowerTwo`, and `train`'s weight
  update scaled by the learning rate. Their allocation paths are modelled in
  `ClassificationContract`.
- **GSL internals.** `gsl_matrix_*` and BLAS are outside the repository. Only
  their result and error contracts are modelled: `Dgemm`, and the error
  handler.
- **The real-time clock.** A timing is modelled as 0 (the window crosses a
  second boundary) or positive. `Simulation.c`'s running totals and printed
  averages are left out. Reading the code shows that a repeated iteration's
  non-zero timings are still added to totals divided by `ITER` (lines 92-96).
- **`OptimizedSimulation.c`.** Its ledger calls (holder k deposits k, then
  repeated `addRevenue`) form one of the call sequences `MCScalable` already
  enumerates, and the stale snapshot it meets is the failure of
  scalable_refines_ideal. Its timing loop has no property the ledger depends on.
- **The prediction of `testContract`** (`gsl_vector_max_index` and the accuracy
  ratio). `Inference` models `nn`, which applies relu after the output layer
  (line 476), unlike the forward pass of training (line 273).

Plans for later work:

- the naive ledger checked against `RevenueLedger`;
- a composed model that runs both ledgers on the same calls and compares their
  balances (spec 8's equivalence test).
