------------------------------- MODULE ERC20 -------------------------------
(***************************************************************************)
(* The part of an ERC-20 token (OpenZeppelin's ERC20, which the contracts   *)
(* import) that every module of this project relies on: a balance per       *)
(* account, moved, minted or burned.  A call that the token reverts is a    *)
(* guard of the action that makes it, because a revert undoes the whole     *)
(* transaction.                                                             *)
(***************************************************************************)
EXTENDS Integers

(* transfer and transferFrom.  The two updates are applied in order, so a   *)
(* transfer of an account to itself leaves its balance alone.               *)
Move(balance, from, to, amount) ==
  [[balance EXCEPT ![from] = @ - amount] EXCEPT ![to] = @ + amount]

(* _mint and _burn                                                          *)
MintTo(balance, account, amount)   == [balance EXCEPT ![account] = @ + amount]
BurnFrom(balance, account, amount) == [balance EXCEPT ![account] = @ - amount]
=============================================================================
