----------------------------- MODULE MCDeployment -----------------------------
(* Instances of Deployment small enough for TLC. *)
EXTENDS Deployment, TLC

CONSTANTS mint1, mint2, usdc, other, alice, escrow, keeper1, keeper2

\* A key of a new mint is as good as another, and so are two keepers.
Alike == Permutations(WrappedMints) \cup Permutations(Keepers)
==============================================================================
