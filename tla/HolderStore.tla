---------------------------- MODULE HolderStore ----------------------------
(***************************************************************************)
(* The per-address store both ledgers keep: the `hashmap' of UserState     *)
(* records keyed by address (hashmap.h/hashmap.c, included by both         *)
(* DistributionContract.c files but not part of the sources, so modelled   *)
(* from the spec's HolderStore contract).  Addresses are the indices       *)
(* 1..NAddr: the spec lets an address be reframed as a stable index, and   *)
(* the ledgers only compare addresses for equality (userDataCompare).      *)
(* The store is a function whose DOMAIN is the set of keys present.        *)
(***************************************************************************)
EXTENDS Integers, FiniteSets

CONSTANT NAddr  \* number of distinct addresses callers use

ASSUME NAddrAssumption == NAddr \in Nat \ {0}

Addr == 1 .. NAddr

EmptyMap == [a \in {} |-> 0]

\* hashmap_get: the record stored under key k, or dflt when k is absent
\* (the callers copy the record, or build a default one, into `tmp').
HashmapGet(m, k, dflt) == IF k \in DOMAIN m THEN m[k] ELSE dflt

\* hashmap_set: insert v under k, or overwrite the record under k.
HashmapSet(m, k, v) == [a \in DOMAIN m \cup {k} |-> IF a = k THEN v ELSE m[a]]

(***************************************************************************)
(* The sum of a holding function h (address -> non-negative count), as     *)
(* both contracts' totals are meant to be: each address a contributes      *)
(* the h[a] unit tokens <<a, 1>>, ..., <<a, h[a]>>, and the sum is the     *)
(* number of tokens.  Stated without recursion so that it can be reasoned  *)
(* about with the cardinality lemmas of FiniteSetTheorems.                 *)
(***************************************************************************)
UnitsOf(h, a) == {<<a, i>> : i \in 1 .. h[a]}

Units(h) == UNION {UnitsOf(h, a) : a \in DOMAIN h}

SumOf(h) == Cardinality(Units(h))

=============================================================================
