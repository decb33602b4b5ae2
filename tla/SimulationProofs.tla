-------------------------- MODULE SimulationProofs --------------------------
(***************************************************************************)
(* Proofs about the benchmark of Simulation.c driving the classification   *)
(* contract, for every value of the constants, while GSL's default error   *)
(* handler is installed (Simulation.c never calls                          *)
(* gsl_set_error_handler_off): the type invariant, and that no heap block  *)
(* leaks while the process runs.                                           *)
(***************************************************************************)
EXTENDS Simulation, FiniteSetTheorems, TLAPS

\* The statements of main's loop the model distinguishes.
PCs == {"setup", "norm", "train", "test", "check", "done"}

(***************************************************************************)
(* The inductive invariant.  NoLeak alone is not inductive: trainContract  *)
(* stores the network train returns without freeing the one allW held, so  *)
(* a second train on the same contract would leak.  main trains once per   *)
(* contract: between setup and the train benchmark allW is NULL, and a     *)
(* contract the caller no longer holds has no fields.                      *)
(***************************************************************************)
SimIInv ==
  /\ TypeOK
  /\ NoLeak
  /\ pc \in PCs
  /\ ~contract.ptr => contract = NoContract
  /\ pc \in {"setup", "done"} => ~contract.ptr
  /\ pc \in {"norm", "train"} => ~contract.allW
-----------------------------------------------------------------------------
(***************************************************************************)
(* The blocks a contract reaches are counted by a finite cardinality.      *)
(***************************************************************************)

\* The four data matrices form a finite set.
LEMMA DataFinite == IsFiniteSet(Data)
<1>1. IsFiniteSet({"trainInput"})
  BY FS_Singleton
<1>2. IsFiniteSet({"trainInput"} \cup {"testInput"})
  BY <1>1, FS_AddElement
<1>3. IsFiniteSet({"trainInput", "testInput"} \cup {"trainOutput"})
  BY <1>2, FS_AddElement
<1>4. IsFiniteSet({"trainInput", "testInput", "trainOutput"} \cup {"testOutput"})
  BY <1>3, FS_AddElement
<1> QED
  BY <1>4 DEF Data

\* The data matrices a contract points to are counted by a natural number.
LEMMA DataCountNat ==
  ASSUME NEW c \in Contract
  PROVE  Cardinality({m \in Data : c[m]}) \in Nat
BY DataFinite, FS_Subset, FS_CardinalityType

\* Every contract reaches a natural number of blocks.
LEMMA ReachableNat ==
  ASSUME NEW c \in Contract
  PROVE  Reachable(c) \in Nat
<1>1. NetworkBlocks \in Nat
  BY ContractAssumption DEF NetworkBlocks, NbW
<1> QED
  BY <1>1, DataCountNat DEF Reachable
-----------------------------------------------------------------------------
(***************************************************************************)
(* Each statement of main preserves SimIInv.                               *)
(***************************************************************************)

\* A contract the caller does not hold reaches nothing.
LEMMA NoContractReach ==
  /\ NoContract \in Contract
  /\ Reachable(NoContract) = 0
BY DEF NoContract, Contract, Reachable

\* The top of the loop: generateData, generateLayers and constructContract.
\* A failing fromArray allocation is a GSL allocation and aborts, so the
\* leak of constructContract's cleanup (run contract_oom_leak) never shows.
LEMMA SetupStep ==
  ASSUME GslAbortsOnError, SimIInv, status = "running",
         NEW site \in ConstructSites \cup {"data"}, NEW w \in SUBSET Benchmarks,
         Setup(site, w), UNCHANGED nbCalls
  PROVE  SimIInv'
<1>1. contract = NoContract /\ live = 0 /\ pc' = "norm"
  BY NoContractReach DEF SimIInv, NoLeak, Setup
<1>2. /\ site = "data" => Call(site, status' = status /\ UNCHANGED <<contract, live>>)
      /\ site \in ConstructSites => ConstructContract(site)
  BY DEF Setup, ConstructSites, Data
<1>3. /\ site # "none" => faults < MaxFaults
      /\ faults' = IF site = "none" THEN faults ELSE faults + 1
  BY <1>2 DEF Call, ConstructContract, ConstructSites
<1>4. faults' \in 0 .. MaxFaults
  BY <1>3, ContractAssumption DEF SimIInv, TypeOK
<1>5. CASE site \in Data
  <2>1. site \in GslSites /\ site \in ConstructSites /\ site # "data"
    BY <1>5 DEF GslSites, Data, ConstructSites
  <2>2. status' = "aborted" /\ UNCHANGED <<contract, live>>
    BY <1>2, <2>1 DEF ConstructContract, Call
  <2> QED
    BY <1>1, <1>4, <2>2, NoContractReach DEF SimIInv, TypeOK, NoLeak, PCs, NoContract
<1>6. CASE site \in {"data", "contract", "dimensions"}
  <2>1. site \notin GslSites /\ site \notin Data /\ site # "none"
    BY <1>6 DEF GslSites, Data
  <2>2. status' = status /\ UNCHANGED <<contract, live>>
    BY <1>2, <1>6, <2>1 DEF ConstructContract, Call, ConstructSites
  <2> QED
    BY <1>1, <1>4, <2>2, NoContractReach DEF SimIInv, TypeOK, NoLeak, PCs, NoContract
<1>7. CASE site = "none"
  <2> DEFINE full == [m \in Data \cup {"ptr", "allW"} |-> m # "allW"]
  <2>1. /\ contract' = full
        /\ live' = live + 2 + Cardinality(Data)
        /\ status' = status
    <3>1. site \notin GslSites /\ site \notin Data /\ site \in ConstructSites
      BY <1>7 DEF GslSites, Data, ConstructSites
    <3> QED
      BY <1>2, <1>7, <3>1 DEF ConstructContract, Call
  <2>2. full \in Contract /\ full.ptr /\ ~full.allW
    BY DEF Contract, Data
  <2>3. {m \in Data : full[m]} = Data
    BY DEF Data
  <2>4. Reachable(full) = 2 + Cardinality(Data) /\ Cardinality(Data) \in Nat
    <3>1. Cardinality(Data) \in Nat
      BY DataFinite, FS_CardinalityType
    <3>2. full.ptr = TRUE /\ full.allW = FALSE
      BY DEF Data
    <3>3. Reachable(full) = 2 + Cardinality({m \in Data : full[m]})
                            + (IF full.allW THEN NetworkBlocks ELSE 0)
      BY <3>2, Zenon DEF Reachable
    <3> QED
      BY <2>3, <3>1, <3>2, <3>3
  <2>5. NoLeak'
    BY <1>1, <2>1, <2>4 DEF NoLeak
  <2>6. TypeOK'
    BY <1>1, <1>4, <2>1, <2>2, <2>4 DEF SimIInv, TypeOK
  <2> QED
    BY <1>1, <2>1, <2>2, <2>5, <2>6 DEF SimIInv, PCs
<1> QED
  BY <1>5, <1>6, <1>7 DEF ConstructSites

\* A benchmarked call on a NULL contract returns at once.
LEMMA BenchIdle ==
  ASSUME SimIInv, NEW next \in PCs, ~contract.ptr,
         UNCHANGED contractVars, pc' = next, UNCHANGED nbCalls
  PROVE  SimIInv'
<1>1. contract = NoContract
  BY DEF SimIInv
<1> QED
  BY <1>1, NoContractReach DEF SimIInv, TypeOK, NoLeak, contractVars, NoContract

\* Every call starts by taking at most one failing allocation, within the
\* fault bound; a failing GSL allocation aborts, leaving the heap alone.
LEMMA CallSteps ==
  ASSUME GslAbortsOnError, TypeOK, NEW site, NEW ACTION Body, Call(site, Body)
  PROVE  /\ faults' \in 0 .. MaxFaults
         /\ site \in GslSites => status' = "aborted" /\ UNCHANGED <<contract, live>>
         /\ site \notin GslSites => Body
<1>1. faults' \in 0 .. MaxFaults
  BY ContractAssumption DEF Call, TypeOK
<1> QED
  BY <1>1 DEF Call

\* The normalize benchmark: normalizeContract replaces both inputs by their
\* normalized copies and frees the old ones; the copies are GSL
\* allocations, so a failure aborts.
LEMMA NormStep ==
  ASSUME GslAbortsOnError, SimIInv, pc = "norm",
         NEW site \in NormalizeSites, NormalizeContract(site),
         pc' = "train", UNCHANGED nbCalls
  PROVE  SimIInv'
<1> DEFINE In == {"trainInput", "testInput"}
           B == /\ status' = status
                /\ contract' = [contract EXCEPT !.trainInput = contract["trainInput"] /\ site # "trainInput",
                                                !.testInput = contract["testInput"] /\ site # "testInput"]
                /\ live' = live + Cardinality({m \in In : contract[m] /\ site # m})
                                - Cardinality({m \in In : contract[m]})
<1>1. contract.ptr /\ Call(site, B)
  BY DEF NormalizeContract
<1>2. faults' \in 0 .. MaxFaults
      /\ (site \in GslSites => status' = "aborted" /\ UNCHANGED <<contract, live>>)
      /\ (site \notin GslSites => B)
  BY <1>1, CallSteps DEF SimIInv
<1>3. CASE site \in In
  <2>1. site \in GslSites
    BY <1>3 DEF GslSites, Data
  <2> QED
    BY <1>2, <2>1 DEF SimIInv, TypeOK, NoLeak, PCs
<1>4. CASE site = "none"
  <2>1. site \notin GslSites
    BY <1>4 DEF GslSites, Data
  <2>2. contract' = contract
    BY <1>2, <1>4, <2>1 DEF SimIInv, TypeOK, Contract
  <2>3. Cardinality({m \in In : contract[m]}) \in Nat
    BY DataFinite, FS_Subset, FS_CardinalityType DEF Data
  <2>4. {m \in In : contract[m] /\ site # m} = {m \in In : contract[m]}
    BY <1>4
  <2>5. /\ status' = status
        /\ live' = live + Cardinality({m \in In : contract[m] /\ site # m})
                        - Cardinality({m \in In : contract[m]})
    BY <1>2, <2>1, Zenon DEF B
  <2>6. live' = live /\ status' = status
    BY <2>3, <2>4, <2>5 DEF SimIInv, TypeOK
  <2> QED
    BY <1>1, <1>2, <2>2, <2>6 DEF SimIInv, TypeOK, NoLeak, PCs
<1> QED
  BY <1>3, <1>4 DEF NormalizeSites

\* The train benchmark: trainContract stores the network train returns.
\* allW is NULL here, so storing it leaks nothing; the allocations of
\* initMatrix, the transpose rows and backpropagation's matrices are GSL
\* ones and abort, and the plain callocs that fail end in a NULL
\* dereference, where NoLeak claims nothing.
LEMMA TrainStep ==
  ASSUME GslAbortsOnError, SimIInv, pc = "train",
         NEW site \in TrainSites, TrainContract(site),
         pc' = "test", UNCHANGED nbCalls
  PROVE  SimIInv'
<1> DEFINE inputs == contract.trainInput /\ contract.trainOutput
           Returns(network, leaked) ==
             /\ status' = status
             /\ contract' = [contract EXCEPT !.allW = network]
             /\ live' = live + leaked + (IF network THEN NetworkBlocks ELSE 0)
           B == CASE ~inputs -> Returns(FALSE, 0)
                  [] inputs /\ site = "none" -> Returns(TRUE, 0)
                  [] site = "initNetwork" -> Crash
                  [] site \in {"initMatrix", "zeros"} ->
                       IF Sampled THEN Crash
                       ELSE Returns(FALSE, IF site = "zeros" THEN 1 ELSE 0)
                  [] site = "rows" -> Returns(FALSE, 0)
                  [] site \in {"bpArrays", "bpMatrix", "bpOut"} -> Crash
<1>1. /\ contract.ptr /\ ~contract.allW /\ (~inputs => site = "none")
      /\ Call(site, B)
  BY DEF TrainContract, SimIInv
<1>2. /\ faults' \in 0 .. MaxFaults
      /\ (site \in GslSites => status' = "aborted" /\ UNCHANGED <<contract, live>>)
      /\ (site \notin GslSites => B)
  <2>1. faults' \in 0 .. MaxFaults
    BY <1>1, ContractAssumption DEF Call, SimIInv, TypeOK
  <2> QED
    BY <1>1, <2>1, Zenon DEF Call
<1>3. CASE site \in {"initMatrix", "zeros", "rows", "bpMatrix"}
  <2>1. site \in GslSites
    BY <1>3 DEF GslSites
  <2> QED
    BY <1>2, <2>1 DEF SimIInv, TypeOK, NoLeak, PCs
<1>4. CASE site \in {"initNetwork", "bpArrays", "bpOut"}
  <2>1. site \notin GslSites /\ inputs
    BY <1>1, <1>4 DEF GslSites, Data
  <2>2. B = Crash
    BY <1>4, <2>1
  <2>3. status' = "crashed" /\ UNCHANGED <<contract, live>>
    BY <1>2, <2>1, <2>2 DEF Crash
  <2> QED
    BY <1>2, <2>3 DEF SimIInv, TypeOK, NoLeak, PCs
<1>5. CASE site = "none"
  <2>1. site \notin GslSites
    BY <1>5 DEF GslSites, Data
  <2>2. {m \in Data : contract'[m]} = {m \in Data : contract[m]}
        /\ contract'.ptr
        /\ contract' \in Contract
    BY <1>1, <1>2, <1>5, <2>1 DEF SimIInv, TypeOK, Contract, Data
  <2>3. CASE inputs
    <3>1. contract'.allW /\ status' = status /\ live' = live + NetworkBlocks
      BY <1>2, <1>5, <2>1, <2>3 DEF SimIInv, TypeOK, Contract
    <3> DEFINE C == Cardinality({m \in Data : contract[m]})
    <3>3. NetworkBlocks \in Nat /\ C \in Nat
      BY ContractAssumption, DataCountNat DEF NetworkBlocks, NbW, SimIInv, TypeOK
    <3>4. Reachable(contract) = 2 + C + (IF contract.allW THEN NetworkBlocks ELSE 0)
      BY <1>1, Zenon DEF Reachable
    <3>5. Reachable(contract') = 2 + C + (IF contract'.allW THEN NetworkBlocks ELSE 0)
      BY <2>2, Zenon DEF Reachable
    <3>2. Reachable(contract') = Reachable(contract) + NetworkBlocks
      BY <1>1, <3>1, <3>3, <3>4, <3>5
    <3> QED
      BY <1>2, <2>2, <3>1, <3>2, <3>3 DEF SimIInv, TypeOK, NoLeak, PCs
  <2>4. CASE ~inputs
    <3>1. B = Returns(FALSE, 0)
      BY <1>5, <2>4 DEF B
    <3>2. /\ contract' = [contract EXCEPT !.allW = FALSE]
          /\ status' = status /\ live' = live + 0 + 0
      BY <1>2, <2>1, <3>1
    <3>3. contract' = contract /\ status' = status /\ live' = live
      BY <1>1, <3>2 DEF SimIInv, TypeOK, Contract
    <3> QED
      BY <1>2, <3>3 DEF SimIInv, TypeOK, NoLeak, PCs
  <2> QED
    BY <2>3, <2>4
<1> QED
  BY <1>3, <1>4, <1>5 DEF TrainSites

\* The test benchmark: testContract frees everything it allocates, and its
\* allocations are GSL ones, so it changes neither contract nor heap.
LEMMA TestStep ==
  ASSUME GslAbortsOnError, SimIInv, pc = "test",
         NEW site \in TestSites, TestContract(site),
         pc' = "check", UNCHANGED nbCalls
  PROVE  SimIInv'
<1> DEFINE B == IF ~contract.allW THEN UNCHANGED <<contract, live, status>>
                ELSE IF ~contract.testInput THEN Crash
                ELSE UNCHANGED <<contract, live, status>>
<1>1. contract.ptr /\ Call(site, B)
  BY DEF TestContract
<1>2. /\ faults' \in 0 .. MaxFaults
      /\ (site \in GslSites => status' = "aborted" /\ UNCHANGED <<contract, live>>)
      /\ (site \notin GslSites => B)
  <2>1. faults' \in 0 .. MaxFaults
    BY <1>1, ContractAssumption DEF Call, SimIInv, TypeOK
  <2> QED
    BY <1>1, <2>1, Zenon DEF Call
<1>3. CASE site \in {"tInRow", "nn"}
  <2>1. site \in GslSites
    BY <1>3 DEF GslSites
  <2> QED
    BY <1>2, <2>1 DEF SimIInv, TypeOK, NoLeak, PCs
<1>4. CASE site = "none"
  <2>1. site \notin GslSites
    BY <1>4 DEF GslSites, Data
  <2>2. UNCHANGED <<contract, live>>
        /\ (status' = status \/ status' = "crashed")
    BY <1>2, <2>1 DEF Crash
  <2> QED
    BY <1>2, <2>2 DEF SimIInv, TypeOK, NoLeak, PCs
<1> QED
  BY <1>3, <1>4 DEF TestSites

\* The end of an iteration: destroyContract frees every block the contract
\* reaches, which by NoLeak is every block allocated.
LEMMA CheckStep ==
  ASSUME SimIInv, status = "running", Check, UNCHANGED nbCalls
  PROVE  SimIInv'
<1>1. pc' \in {"setup", "done"}
  BY DEF Check
<1>2. CASE ~contract.ptr /\ UNCHANGED contractVars
  BY <1>1, <1>2, BenchIdle DEF PCs
<1>3. CASE DestroyContract
  <2>1. live = Reachable(contract) /\ contract.ptr
    BY <1>3 DEF SimIInv, NoLeak, DestroyContract
  <2>2. live' = 0 /\ contract' = NoContract /\ UNCHANGED <<status, faults>>
    BY <1>3, <2>1 DEF DestroyContract, Reachable
  <2> QED
    BY <1>1, <2>2, NoContractReach DEF SimIInv, TypeOK, NoLeak, PCs, NoContract
<1> QED
  BY <1>2, <1>3 DEF Check

-----------------------------------------------------------------------------
(***************************************************************************)
(* The invariance of SimIInv, and what it gives.                           *)
(***************************************************************************)

\* Every statement of main, benchmarked calls included, preserves SimIInv.
LEMMA SimStep ==
  ASSUME GslAbortsOnError, SimIInv, [SimNext]_allVars
  PROVE  SimIInv'
<1>1. CASE SimNext
  <2>1. status = "running" /\ UNCHANGED nbCalls
    BY <1>1 DEF SimNext
  <2>2. CASE \E w \in SUBSET Benchmarks : Start(w)
    BY <2>1, <2>2, SetupStep DEF Start
  <2>3. CASE Bench("norm", "train")
    <3>1. pc = "norm" /\ pc' = "train"
      BY <2>3 DEF Bench
    <3>2. CASE ~contract.ptr /\ UNCHANGED contractVars
      BY <2>1, <3>1, <3>2, BenchIdle DEF PCs
    <3>3. CASE \E s \in NormalizeSites : NormalizeContract(s)
      BY <2>1, <3>1, <3>3, NormStep
    <3> QED
      BY <2>3, <3>2, <3>3 DEF Bench
  <2>4. CASE Bench("train", "test")
    <3>1. pc = "train" /\ pc' = "test"
      BY <2>4 DEF Bench
    <3>2. CASE ~contract.ptr /\ UNCHANGED contractVars
      BY <2>1, <3>1, <3>2, BenchIdle DEF PCs
    <3>3. CASE \E s \in TrainSites : TrainContract(s)
      BY <2>1, <3>1, <3>3, TrainStep
    <3> QED
      BY <2>4, <3>2, <3>3 DEF Bench
  <2>5. CASE Bench("test", "check")
    <3>1. pc = "test" /\ pc' = "check"
      BY <2>5 DEF Bench
    <3>2. CASE ~contract.ptr /\ UNCHANGED contractVars
      BY <2>1, <3>1, <3>2, BenchIdle DEF PCs
    <3>3. CASE \E s \in TestSites : TestContract(s)
      BY <2>1, <3>1, <3>3, TestStep
    <3> QED
      BY <2>5, <3>2, <3>3 DEF Bench
  <2>6. CASE Check
    BY <2>1, <2>6, CheckStep
  <2> QED
    BY <1>1, <2>2, <2>3, <2>4, <2>5, <2>6 DEF SimNext
<1>2. CASE UNCHANGED allVars
  BY <1>2 DEF allVars, SimIInv, TypeOK, NoLeak, Reachable
<1> QED
  BY <1>1, <1>2

\* SimIInv holds in every state main reaches while GSL's default error
\* handler is installed.
THEOREM SimInvariant ==
  ASSUME GslAbortsOnError
  PROVE  SimSpec => []SimIInv
<1>1. SimInit => SimIInv
  BY NoContractReach, ContractAssumption
     DEF SimInit, Init, SimIInv, TypeOK, NoLeak, PCs, NoContract
<1>2. SimIInv /\ [SimNext]_allVars => SimIInv'
  BY SimStep
<1> QED
  BY <1>1, <1>2, PTL DEF SimSpec

\* No heap block leaks in Simulation.c's benchmark: while the process runs,
\* every block the calls allocated and did not free is reachable from the
\* contract main holds, through any allocation failure (a failing GSL
\* allocation aborts; a failing calloc that is not checked crashes).
THEOREM SimNoLeak ==
  ASSUME GslAbortsOnError
  PROVE  SimSpec => []NoLeak
<1>1. SimIInv => NoLeak
  BY DEF SimIInv
<1> QED
  BY <1>1, SimInvariant, PTL

\* The contract, the heap count, the status and the counters keep their
\* types in every state of the benchmark.
THEOREM SimTypeCorrect ==
  ASSUME GslAbortsOnError
  PROVE  SimSpec => []TypeOK
<1>1. SimIInv => TypeOK
  BY DEF SimIInv
<1> QED
  BY <1>1, SimInvariant, PTL

=============================================================================
