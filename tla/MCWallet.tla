------------------------------ MODULE MCWallet ------------------------------
(***************************************************************************)
(* Accounts are interchangeable, and keys of locks are.                    *)
(***************************************************************************)
EXTENDS Wallet, TLC

Symmetry == Permutations(Accounts) \cup Permutations(Keys)

\* Amounts, zero and negative ones included.
SignedAmounts == {-1, 0, 1, 2}
=============================================================================
