----------------------- MODULE MCTransactionalHandler -----------------------
(* Instances of TransactionalHandler for TLC.                               *)
EXTENDS TransactionalHandler, TLC

ConsumerSymmetry == Permutations(Consumers)
=============================================================================
