------------------------------ MODULE AnteCache ------------------------------
(***************************************************************************)
(* The AnteCache of app/ante/cache/antecache.go: the set of TxNonce pairs   *)
(* <<address, nonce>> believed to be "in the mempool".  Every method takes  *)
(* the cache's RWMutex for its whole body, so each one is a single atomic  *)
(* transformation of the set.  The value of the map is always true, so the *)
(* map is modelled as the set of its keys.                                  *)
(*                                                                          *)
(* MaxTx is the constructor argument mempoolMaxTxs, fixed for the life of   *)
(* the cache: 0 = no cap, > 0 = cap on the number of entries, < 0 = no-op.  *)
(***************************************************************************)
EXTENDS Integers, FiniteSets

CONSTANT MaxTx

ASSUME MaxTx \in Int

\* NewAnteCache: an empty map.
NewAnteCache == {}

\* The capacity test of Set: a capped cache refuses a key once it holds
\* MaxTx entries, whether or not the key is already present.
\* Mutant: the capacity test admits one entry too many.
HasRoomOffByOne(c) == MaxTx = 0 \/ Cardinality(c) <= MaxTx

HasRoom(c) == MaxTx = 0 \/ Cardinality(c) < MaxTx

\* Set(address, nonce): no-op when disabled or full, else insert.
Set(c, key) == IF MaxTx >= 0 /\ HasRoom(c) THEN c \cup {key} ELSE c

\* Delete(address, nonce): no-op when disabled, else remove.
Delete(c, key) == IF MaxTx >= 0 THEN c \ {key} ELSE c

\* Exists(address, nonce): always false when disabled.
Exists(c, key) == MaxTx >= 0 /\ key \in c

\* Size(): the number of entries (no disabled test in the code).
Size(c) == Cardinality(c)
=============================================================================
