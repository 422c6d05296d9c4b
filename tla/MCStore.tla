------------------------------ MODULE MCStore ------------------------------
\* Two transactions that share a bit of the Bloom filter.
EXTENDS ChainStore

CONSTANTS t1, t2, handler, catchup

MCModBytes == (t1 :> 0) @@ (t2 :> 0)
=============================================================================
