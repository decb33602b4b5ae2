----------------------------- MODULE Simulation -----------------------------
(***************************************************************************)
(* The benchmark of neural_network/Simulation.c driving the contract:      *)
(* ITER iterations of construct, normalize, train, test and destroy, each  *)
(* of the middle three timed by benchmark(), and an iteration repeated     *)
(* (`i--') when one of the three timings reads 0.                          *)
(*                                                                         *)
(* benchmark() returns 0 when end.tv_nsec <= begin.tv_nsec, i.e. when the  *)
(* timed window contains a second boundary.  Which windows of an           *)
(* iteration do is `wraps', chosen when the iteration starts; a timing is  *)
(* 0 (wrapped) or 1 (any positive duration).                               *)
(***************************************************************************)
EXTENDS ClassificationContract

CONSTANT ITER   \* iterations to measure (100 in the source)

ASSUME SimulationAssumption == ITER \in Nat \ {0}

VARIABLES
  i,          \* the loop counter of main
  pc,         \* the next statement of main
  wraps,      \* the windows of this iteration that contain a second boundary
  result      \* resultNorm, resultTrain, resultTest of this iteration

simVars == <<i, pc, wraps, result>>

allVars == <<contract, live, status, faults, nbCalls, i, pc, wraps, result>>

Benchmarks == {"norm", "train", "test"}

\* Lines 76-85: generateData and generateLayers (a plain calloc each, line
\* 19 or 32) and constructContract, which returns NULL at once when one of
\* its arrays is NULL; the arrays are freed at line 85.
Setup(site, w) ==
  /\ pc = "setup"
  /\ \/ /\ site = "data"
        /\ Call(site, status' = status /\ UNCHANGED <<contract, live>>)
     \/ /\ site \in ConstructSites
        /\ ConstructContract(site)
  /\ pc' = "norm"
  /\ wraps' = w
  /\ UNCHANGED <<i, result>>

\* Lines 88-90: one benchmark(fun, contract) of the call b, then pc' = next;
\* fun returns at once on NULL.
Bench(b, next) ==
  /\ pc = b
  /\ \/ /\ ~contract.ptr
        /\ UNCHANGED contractVars
     \/ /\ b = "norm"
        /\ \E s \in NormalizeSites : NormalizeContract(s)
     \/ /\ b = "train"
        /\ \E s \in TrainSites : TrainContract(s)
     \/ /\ b = "test"
        /\ \E s \in TestSites : TestContract(s)
  /\ result' = [result EXCEPT ![b] = IF b \in wraps THEN 0 ELSE 1]
  /\ pc' = next
  /\ UNCHANGED <<i, wraps>>

\* Mutant: the retry test reads resultTest the wrong way round.
CheckRetryInverted ==
  LET retry == result["norm"] = 0 \/ result["train"] = 0 \/ result["test"] # 0
  IN  /\ pc = "check"
      /\ i' = IF retry THEN i ELSE i + 1
      /\ \/ /\ ~contract.ptr
            /\ UNCHANGED contractVars
         \/ DestroyContract
      /\ pc' = IF i' < ITER THEN "setup" ELSE "done"
      /\ UNCHANGED <<wraps, result>>

(***************************************************************************)
(* Lines 92-99: `i--' when a timing is 0 (the loop's `i++' then repeats    *)
(* i), then destroyContract (which returns at once on NULL).  The totals   *)
(* of lines 94-96 only feed the printed averages and are left out.         *)
(***************************************************************************)
Check ==
  LET retry == \E b \in Benchmarks : result[b] = 0
  IN  /\ pc = "check"
      /\ i' = IF retry THEN i ELSE i + 1
      /\ \/ /\ ~contract.ptr
            /\ UNCHANGED contractVars
         \/ DestroyContract
      /\ pc' = IF i' < ITER THEN "setup" ELSE "done"
      /\ UNCHANGED <<wraps, result>>

SimInit ==
  /\ Init
  /\ i = 0
  /\ pc = "setup"
  /\ wraps = {}
  /\ result = [b \in Benchmarks |-> 0]

\* The top of the loop, with the windows w of the iteration it starts.
Start(w) ==
  /\ status = "running"
  /\ UNCHANGED nbCalls
  /\ \E s \in ConstructSites \cup {"data"} : Setup(s, w)

SimNext ==
  /\ status = "running"
  /\ UNCHANGED nbCalls
  /\ \/ \E w \in SUBSET Benchmarks : Start(w)
     \/ Bench("norm", "train")
     \/ Bench("train", "test")
     \/ Bench("test", "check")
     \/ Check

(***************************************************************************)
(* Fairness.  The process keeps executing while it runs (weak fairness of  *)
(* its steps).  An iteration takes far less than a second, so iterations   *)
(* whose windows contain no second boundary keep coming: strong fairness   *)
(* of starting one, an action enabled only at the top of the loop.         *)
(***************************************************************************)
SimSpec ==
  /\ SimInit
  /\ [][SimNext]_allVars
  /\ WF_allVars(SimNext)
  /\ SF_allVars(Start({}))
-----------------------------------------------------------------------------
(***************************************************************************)
(* Properties.                                                             *)
(***************************************************************************)

\* main returns (or the process stops): the retry loop of line 92 ends
\* however often a timing reads 0, under the fairness above.
Termination == <>(pc = "done" \/ status # "running")

=============================================================================
