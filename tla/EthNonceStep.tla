---------------------------- MODULE EthNonceStep ----------------------------
(***************************************************************************)
(* CheckAndSetEthSenderNonce of app/ante/eth.go as an operator: one pass  *)
(* of the decorator over the messages of a tx, given the execution context *)
(* flags, the account sequences the pass starts from and the AnteCache.    *)
(* It returns whether the pass succeeded, the sequences of the pass's      *)
(* store branch and the cache after the pass (the cache is shared and is   *)
(* not rolled back when the pass fails).                                   *)
(***************************************************************************)
EXTENDS Integers, Sequences, SequencesExt

CONSTANTS
    MaxTx,              \* mempoolMaxTxs, the AnteCache capacity
    UnsafeUnorderedTx   \* HandlerOptions.UnsafeUnorderedTx

Cache == INSTANCE AnteCache

\* A message carries its sender, its nonce and a variant tag telling apart
\* two different signed txs with the same sender and nonce; its cache key
\* is the TxNonce{address, nonce}.
Key(m) == <<m.from, m.nonce>>

(***************************************************************************)
(* The execution context flags read by the nonce step.                     *)
(***************************************************************************)
CheckCtx   == [isCheck |-> TRUE,  isReCheck |-> FALSE]
ReCheckCtx == [isCheck |-> TRUE,  isReCheck |-> TRUE]
DeliverCtx == [isCheck |-> FALSE, isReCheck |-> FALSE]

(***************************************************************************)
(* One iteration of the message loop of CheckAndSetEthSenderNonce.  st is  *)
(* the pass so far: ok (no error yet), seq (the memoised accounts of the   *)
(* pass, i.e. its store branch) and cache (the shared AnteCache).          *)
(***************************************************************************)
\* Mutant: the skip is taken whatever the execution mode.
SkipsInAnyMode(ctx, st, m) ==
    /\ ~UnsafeUnorderedTx
    /\ Cache!Exists(st.cache, Key(m))

\* Mutant: the skip is also taken in ReCheckTx.
SkipsInReCheck(ctx, st, m) ==
    /\ ~UnsafeUnorderedTx
    /\ ctx.isCheck
    /\ Cache!Exists(st.cache, Key(m))

\* Replacement: in CheckTx a pair already in the cache skips verification.
Skips(ctx, st, m) ==
    /\ ~UnsafeUnorderedTx
    /\ ctx.isCheck /\ ~ctx.isReCheck
    /\ Cache!Exists(st.cache, Key(m))

\* The sequence must match exactly, unless the unordered flag is set.
Rejects(st, m) == ~UnsafeUnorderedTx /\ m.nonce # st.seq[m.from]

\* After a verified nonce: CheckTx/ReCheckTx record the pair, DeliverTx
\* deletes it if the earlier Exists saw it.
CacheAfterVerify(ctx, c, m) ==
    IF UnsafeUnorderedTx THEN c
    ELSE IF ctx.isCheck THEN Cache!Set(c, Key(m))
    ELSE IF Cache!Exists(c, Key(m)) THEN Cache!Delete(c, Key(m))
    ELSE c

\* Mutant: a skipped replacement still increments the sequence.
NonceStepSkipIncrements(ctx, st, m) ==
    CASE ~st.ok -> st
      [] Skips(ctx, st, m) -> [st EXCEPT !.seq[m.from] = @ + 1]
      [] Rejects(st, m)    -> [st EXCEPT !.ok = FALSE]
      [] OTHER -> [st EXCEPT !.seq[m.from] = @ + 1,
                             !.cache = CacheAfterVerify(ctx, @, m)]

NonceStep(ctx, st, m) ==
    CASE ~st.ok \/ Skips(ctx, st, m) -> st
      [] Rejects(st, m)              -> [st EXCEPT !.ok = FALSE]
      [] OTHER -> [st EXCEPT !.seq[m.from] = @ + 1,
                             !.cache = CacheAfterVerify(ctx, @, m)]

\* The whole decorator: the loop over the messages, stopping at the first
\* error; the account getter is fresh for the pass, so it starts from seq.
CheckAndSetEthSenderNonce(ctx, seq, c, tx) ==
    FoldLeft(LAMBDA st, m : NonceStep(ctx, st, m),
             [ok |-> TRUE, seq |-> seq, cache |-> c], tx)

=============================================================================
