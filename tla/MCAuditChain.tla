---------------------------- MODULE MCAuditChain ----------------------------
(* Instances of AuditChain for TLC.                                        *)
EXTENDS AuditChain, TLC

CONSTANTS t1, t2, t3

(* Transactions that keep no tenant object are interchangeable.             *)
TxnSymmetry == Permutations(Txns \ Holders)
=============================================================================
