---------------------------- MODULE MCTxFetcher -----------------------------
EXTENDS TxFetcher
=============================================================================
