------------------------- MODULE ConfidentialRequest ------------------------
(***************************************************************************)
(* The life of confidential requests on one node, from the RPC call to its *)
(* answer (internal/ethapi/api.go): SendRawTransaction for a signed        *)
(* request, DoCall (eth_call) for an unsigned one.  Both run the request   *)
(* on the MEVM, sign the result and finalize the confidential store; only  *)
(* SendRawTransaction then submits the result to the transaction pool.     *)
(* Requests run concurrently over one engine and one backend.              *)
(***************************************************************************)
EXTENDS MEVM

VARIABLES
    answer,     \* [Tx -> Answers], what the RPC call returned
    pool        \* requests whose SuaveTransaction the pool accepted

requestVars == <<answer, pool>>
allVars == <<vars, mevmVars, requestVars>>

Answers == {"none", "error", "result", "hash"}

RequestTypeOK ==
    /\ TypeOK
    /\ MEVMTypeOK
    /\ answer \in [Tx -> Answers]
    /\ pool \subseteq Tx

RequestInit ==
    /\ Init
    /\ MEVMInit
    /\ answer = [t \in Tx |-> "none"]
    /\ pool = {}

Reply(t, a) ==
    /\ answer[t] = "none"
    /\ answer' = [answer EXCEPT ![t] = a]
-----------------------------------------------------------------------------
\* runMEVM returns an error before the execution: the requested execution node
\* is not an account of this one.
NoWallet(t) ==
    /\ exec[t] = "idle"
    /\ Discard(t)
    /\ Reply(t, "error")
    /\ UNCHANGED <<mevmVars, pool>>

\* The caller goes away: the EVM is cancelled, even after its last step.
Cancel(t) ==
    /\ exec[t] \in {"running", "returned"}
    /\ phase[t] = "open"
    /\ exec' = [exec EXCEPT ![t] = "failed"]
    /\ UNCHANGED <<vars, frames, suaveContext, heap, calls, requestVars>>

\* Mutant: a failed execution is finalized like any other.
ExecutionErrorIgnored(t) ==
    /\ exec[t] = "failed"
    /\ Finalize(t)
    /\ UNCHANGED <<mevmVars, requestVars>>

\* runMEVM returns an error after the execution: it failed or was cancelled.
ExecutionError(t) ==
    /\ exec[t] = "failed"
    /\ Discard(t)
    /\ Reply(t, "error")
    /\ UNCHANGED <<mevmVars, pool>>

\* The wallet does not sign the result.
SignError(t) ==
    /\ exec[t] = "returned"
    /\ Discard(t)
    /\ Reply(t, "error")
    /\ UNCHANGED <<mevmVars, pool>>

\* runMEVM succeeds and its caller calls finalize.
CallFinalize(t) ==
    /\ exec[t] = "returned"
    /\ Finalize(t)
    /\ UNCHANGED <<mevmVars, requestVars>>

\* Mutant: a failed Finalize is tried again, without end.
FinalizeErrorRetried(t) ==
    /\ phase[t] = "failed"
    /\ phase' = [phase EXCEPT ![t] = "finalizing"]
    /\ UNCHANGED <<storeVars, pendingBids, pendingWrites, toInit, applied, published>>
    /\ UNCHANGED <<mevmVars, requestVars>>

FinalizeError(t) ==
    /\ phase[t] = "failed"
    /\ Reply(t, "error")
    /\ UNCHANGED <<vars, mevmVars, pool>>

\* DoCall takes ErrUnsignedFinalize for success.
CallResult(t) ==
    /\ phase[t] = "unsigned"
    /\ Reply(t, "result")
    /\ UNCHANGED <<vars, mevmVars, pool>>

\* Mutant: the result is submitted before the store is finalized.
SubmitEarly(t, ok) ==
    /\ phase[t] \in {"finalizing", "done"}
    /\ Reply(t, IF ok THEN "hash" ELSE "error")
    /\ pool' = IF ok THEN pool \union {t} ELSE pool
    /\ UNCHANGED <<vars, mevmVars>>

\* SubmitTransaction: the fee cap and the pool may refuse the result.
SubmitTransaction(t, ok) ==
    /\ phase[t] = "done"
    /\ Reply(t, IF ok THEN "hash" ELSE "error")
    /\ pool' = IF ok THEN pool \union {t} ELSE pool
    /\ UNCHANGED <<vars, mevmVars>>

\* What the goroutine that serves the RPC call does by itself.
Serve(t) ==
    \/ Begin(t) /\ UNCHANGED requestVars
    \/ Execute(t) /\ UNCHANGED requestVars
    \/ ExecutionError(t)
    \/ CallFinalize(t)
    \/ FinalizeStep(t) /\ UNCHANGED <<mevmVars, requestVars>>
    \/ FinalizeError(t)
    \/ CallResult(t)
    \/ \E ok \in BOOLEAN : SubmitTransaction(t, ok)

RequestNext ==
    \E t \in Tx :
        \/ Serve(t)
        \/ NoWallet(t)
        \/ Cancel(t)
        \/ SignError(t)
        \/ FinalizeFails(t) /\ UNCHANGED <<mevmVars, requestVars>>

RequestSpec == RequestInit /\ [][RequestNext]_allVars

\* The goroutine of an RPC call is scheduled, and gas bounds what the contract
\* can do.  Nothing makes a wallet, a backend or a client fail.
FairRequestSpec == RequestSpec /\ \A t \in Tx : WF_allVars(Serve(t))
-----------------------------------------------------------------------------
(***************************************************************************)
(* Properties.                                                             *)
(***************************************************************************)

\* The node running the MEVM behind its RPC interface is an implementation of
\* TransactionalStore: each of its steps is one of that module's or leaves the
\* store and the transactions alone.  What is proved of TransactionalStore
\* holds of it.
RefinesTransactionalStore == Spec

\* A request that was answered with an error before its Finalize, because its
\* execution or its signature failed at any point, left no bid, no value and
\* no message.
ErrorLeavesNothing ==
    \A t \in Tx : exec[t] # "returned" \/ phase[t] = "discarded" =>
        /\ \A b \in BidId : bids[b] # t
        /\ applied[t] = 0
        /\ t \notin published

\* A transaction in the pool, which tells the chain that a confidential request
\* was executed, was answered with its hash, its message was published and the
\* node holds every bid it created and a value for every key it wrote.
PooledIsComplete ==
    \A t \in pool :
        /\ answer[t] = "hash"
        /\ t \in published
        /\ \A b \in pendingBids[t] : bids[b] = t
        /\ \A p \in DOMAIN pendingWrites[t] :
            dataMap[pendingWrites[t][p].bid][pendingWrites[t][p].key] # None

\* Every RPC call is answered, and no answer is taken back.
Answered == \A t \in Tx : <>[](answer[t] # "none")
=============================================================================
