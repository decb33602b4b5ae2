------------------------ MODULE ClassificationContract ------------------------
(***************************************************************************)
(* The ownership of heap memory by the classification contract of          *)
(* neural_network/ClassificationContract.c and the helpers of              *)
(* MatrixNNUtils.c it calls, under allocation failure.                     *)
(*                                                                         *)
(* The contract is the record of its pointers: TRUE for a field that       *)
(* points to a block, FALSE for NULL.  `live' counts the heap blocks the   *)
(* calls have allocated and not freed, as the code allocates and frees     *)
(* them; what the contract still reaches is computed from its pointers,    *)
(* so a leak is a difference between the two.  Each call is one step and  *)
(* may meet one failing allocation, at a site of that call: a plain        *)
(* calloc returns NULL; a GSL allocation (gsl_matrix_calloc,               *)
(* gsl_vector_calloc) calls GSL's error handler, which aborts the process  *)
(* unless the program installs another one, and returns NULL otherwise.    *)
(* Matrix contents are left out: the NeuralNet module models them.        *)
(***************************************************************************)
EXTENDS Naturals, FiniteSets

CONSTANTS
  NbLayers,          \* nbLayers: hidden layers, so NbLayers + 1 weight matrices
  NbSamples,         \* rows of the training data (N)
  NumEpoch,          \* the epochs trainContract is called with
  GslAbortsOnError,  \* GSL's default error handler is installed
  MaxFaults,         \* bound: failing allocations in one behaviour
  MaxCalls           \* bound: API calls the caller makes

ASSUME ContractAssumption ==
  /\ NbLayers \in Nat /\ NbSamples \in Nat \ {0} /\ NumEpoch \in Nat
  /\ GslAbortsOnError \in BOOLEAN /\ MaxFaults \in Nat /\ MaxCalls \in Nat

VARIABLES
  contract,  \* the caller's ClassificationContract*: NoContract or its fields
  live,      \* heap blocks allocated and not yet freed
  status,    \* "running", or how the process stopped
  faults,    \* allocations that have failed so far
  nbCalls      \* API calls made so far

contractVars == <<contract, live, status, faults>>

vars == <<contract, live, status, faults, nbCalls>>

\* NULL, as constructContract returns it on failure: no struct (ptr), and
\* so no fields.
NoContract ==
  [ptr |-> FALSE, trainInput |-> FALSE, testInput |-> FALSE,
   trainOutput |-> FALSE, testOutput |-> FALSE, allW |-> FALSE]

\* The four data matrices of the contract.
Data == {"trainInput", "testInput", "trainOutput", "testOutput"}

Contract == [ptr : BOOLEAN, trainInput : BOOLEAN, testInput : BOOLEAN, trainOutput : BOOLEAN,
             testOutput : BOOLEAN, allW : BOOLEAN]

\* nbDimensions - 1 weight matrices, and the allW array that holds them.
NbW == NbLayers + 1

NetworkBlocks == NbW + 1

\* The blocks reachable from a contract: the struct, dimensions, the data
\* matrices that are not NULL and the network.
Reachable(c) ==
  IF ~c.ptr THEN 0
  ELSE 2 + Cardinality({m \in Data : c[m]}) + (IF c.allW THEN NetworkBlocks ELSE 0)

\* train runs backpropagation at least once.
Sampled == NumEpoch * NbSamples > 0

\* The allocation sites of each call that can fail, "none" for no failure,
\* and the ones that are GSL allocations.
ConstructSites == {"none", "contract", "dimensions"} \cup Data

NormalizeSites == {"none", "trainInput", "testInput"}

TrainSites == {"none", "initNetwork", "initMatrix", "zeros", "rows",
               "bpArrays", "bpMatrix", "bpOut"}

TestSites == {"none", "tInRow", "nn"}

GslSites == Data \cup {"initMatrix", "zeros", "rows", "bpMatrix", "tInRow", "nn"}

(***************************************************************************)
(* Every call: at most one allocation fails, within the fault bound; a     *)
(* failing GSL allocation aborts when the default handler is installed.    *)
(***************************************************************************)
Call(site, Body) ==
  /\ site # "none" => faults < MaxFaults
  /\ faults' = IF site = "none" THEN faults ELSE faults + 1
  /\ IF site \in GslSites /\ GslAbortsOnError
     THEN status' = "aborted" /\ UNCHANGED <<contract, live>>
     ELSE Body

\* A NULL dereference: the process stops with undefined behaviour.
Crash == status' = "crashed" /\ UNCHANGED <<contract, live>>

(***************************************************************************)
(* constructContract (lines 18-69).  fromArray's four gsl_matrix_calloc    *)
(* calls run before the check at line 34; its cleanup frees a matrix only  *)
(* `if(!m)', so it frees none of those that were allocated.                *)
(***************************************************************************)
ConstructContract(site) ==
  LET made == Data \ {site}
      cleaned == {m \in Data : m \notin made}
  IN  /\ ~contract.ptr
      /\ Call(site,
           /\ status' = status
           /\ CASE site = "contract" ->
                     UNCHANGED <<contract, live>>
                [] site \in Data ->
                     /\ contract' = NoContract
                     /\ live' = live + 1 + Cardinality(made) - Cardinality(cleaned \cap made) - 1
                [] site = "dimensions" ->
                     UNCHANGED <<contract, live>>
                [] site = "none" ->
                     /\ contract' = [m \in Data \cup {"ptr", "allW"} |-> m # "allW"]
                     /\ live' = live + 2 + Cardinality(Data))

(***************************************************************************)
(* normalizeContract (lines 86-97): normalize both inputs (normalize of    *)
(* NULL is NULL, a failed calloc at line 420 gives NULL), free the old     *)
(* matrices, store the results.                                            *)
(***************************************************************************)
NormalizeContract(site) ==
  LET In == {"trainInput", "testInput"}
      normalized(m) == contract[m] /\ site # m
  IN  /\ contract.ptr
      /\ site \in In => contract[site]
      /\ Call(site,
           /\ status' = status
           /\ contract' = [contract EXCEPT !.trainInput = normalized("trainInput"),
                                           !.testInput = normalized("testInput")]
           /\ live' = live + Cardinality({m \in In : normalized(m)})
                           - Cardinality({m \in In : contract[m]}))

(***************************************************************************)
(* trainContract (lines 99-105) stores what train (lines 351-394) returns  *)
(* in allW, without freeing the network allW held.  train:                 *)
(*  - REQUIRE_NON_NULL on its inputs: NULL, nothing allocated;             *)
(*  - initNetwork: its calloc at line 164 is unchecked and written through *)
(*    at line 169; a failed initMatrix makes it free the layers before and *)
(*    return NULL, and initMatrix itself leaks `out' when its zeros vector *)
(*    fails (lines 138-142); train does not check the NULL and hands it to *)
(*    backpropagation, which returns NULL, dereferenced at line 381;       *)
(*  - a failed transpose row (lines 366-373) destroys the network and      *)
(*    returns NULL;                                                        *)
(*  - in backpropagation every failure ends in a NULL dereference: the     *)
(*    arrays (257-265) and any matrix return NULL to line 381 or leave     *)
(*    currJac, multiplier or a product NULL for lines 292-331; a failed    *)
(*    `out' (279) is written through at line 327;                          *)
(*  - otherwise every temporary is freed and the new network returned.     *)
(***************************************************************************)
TrainContract(site) ==
  LET inputs == contract.trainInput /\ contract.trainOutput
      Returns(network, leaked) ==
        /\ status' = status
        /\ contract' = [contract EXCEPT !.allW = network]
        /\ live' = live + leaked + (IF network THEN NetworkBlocks ELSE 0)
  IN  /\ contract.ptr
      /\ ~inputs => site = "none"
      /\ site \in {"rows", "bpArrays", "bpMatrix", "bpOut"} => Sampled
      /\ Call(site,
           CASE ~inputs -> Returns(FALSE, 0)
             [] inputs /\ site = "none" -> Returns(TRUE, 0)
             [] site = "initNetwork" -> Crash
             [] site \in {"initMatrix", "zeros"} ->
                  IF Sampled THEN Crash
                  ELSE Returns(FALSE, IF site = "zeros" THEN 1 ELSE 0)
             [] site = "rows" -> Returns(FALSE, 0)
             [] site \in {"bpArrays", "bpMatrix", "bpOut"} -> Crash)

(***************************************************************************)
(* testContract (lines 107-141): -1 without a network; reads               *)
(* testInput->size1 (line 112); every failure in its loop or in nn frees   *)
(* what it allocated and returns -1, and a successful row frees tInRow and *)
(* the result.  No call changes the contract or the heap.                  *)
(***************************************************************************)
TestContract(site) ==
  /\ contract.ptr
  /\ site # "none" => contract.allW /\ contract.testInput
  /\ Call(site,
       IF ~contract.allW THEN UNCHANGED <<contract, live, status>>
       ELSE IF ~contract.testInput THEN Crash
       ELSE UNCHANGED <<contract, live, status>>)

\* Mutant: destroyContract without the destroyMatricesArray of the network.
DestroyContractKeepsNetwork ==
  /\ contract.ptr
  /\ contract' = NoContract
  /\ live' = live - (2 + Cardinality({m \in Data : contract[m]}))
  /\ UNCHANGED <<status, faults>>

\* Mutant: destroyMatricesArray over nbDimensions entries, one too many.
DestroyContractOverrun ==
  /\ contract.ptr
  /\ contract' = NoContract
  /\ live' = live - (2 + Cardinality({m \in Data : contract[m]})
                     + (IF contract.allW THEN NetworkBlocks + 1 ELSE 0))
  /\ UNCHANGED <<status, faults>>

(***************************************************************************)
(* destroyContract (lines 71-84) with destroyMatricesArray (183-189): the  *)
(* network, the data matrices (gsl_matrix_free ignores NULL), dimensions,  *)
(* the struct.                                                             *)
(***************************************************************************)
DestroyContract ==
  /\ contract.ptr
  /\ contract' = NoContract
  /\ live' = live - (2 + Cardinality({m \in Data : contract[m]})
                     + (IF contract.allW THEN NetworkBlocks ELSE 0))
  /\ UNCHANGED <<status, faults>>

Init ==
  /\ contract = NoContract
  /\ live = 0
  /\ status = "running"
  /\ faults = 0
  /\ nbCalls = 0

(***************************************************************************)
(* A caller that makes any sequence of calls on the contract it holds,     *)
(* constructing a new one once it holds none.                              *)
(***************************************************************************)
Next ==
  /\ status = "running"
  /\ nbCalls < MaxCalls
  /\ nbCalls' = nbCalls + 1
  /\ \/ \E s \in ConstructSites : ConstructContract(s)
     \/ \E s \in NormalizeSites : NormalizeContract(s)
     \/ \E s \in TrainSites : TrainContract(s)
     \/ \E s \in TestSites : TestContract(s)
     \/ DestroyContract

Spec == Init /\ [][Next]_vars
-----------------------------------------------------------------------------
(***************************************************************************)
(* Properties.                                                             *)
(***************************************************************************)

TypeOK ==
  /\ contract \in Contract
  /\ live \in Nat
  /\ status \in {"running", "aborted", "crashed"}
  /\ faults \in 0 .. MaxFaults
  /\ nbCalls \in 0 .. MaxCalls

\* While the process runs, every heap block the nbCalls allocated and did not
\* free is reachable from the contract the caller holds: no call of the
\* API leaks, whatever it fails on (the cleanup paths of constructContract,
\* initMatrix, train and backpropagation, and trainContract's store).
NoLeak == status = "running" => live = Reachable(contract)

\* No sequence of nbCalls dereferences NULL: every failure is caught before
\* the pointer is used (the unchecked calloc of initNetwork, the NULL
\* backpropagation result in train, testContract on a NULL testInput).
NoUB == status # "crashed"
=============================================================================
