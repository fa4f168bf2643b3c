----------------------------- MODULE MCRpcRouter -----------------------------
EXTENDS RpcRouter, TLC

\* Injector calls are only compared for equality.
Symmetry == Permutations(Caller)

=============================================================================
