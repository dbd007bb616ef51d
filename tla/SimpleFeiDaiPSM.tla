-------------------------- MODULE SimpleFeiDaiPSM --------------------------
(***************************************************************************)
(* contracts/peg/SimpleFeiDaiPSM.sol on Fei: FEI for DAI and back, one to   *)
(* one, by a contract that nobody governs.  As long as Core lets others     *)
(* mint or burn FEI, they may.                                              *)
(***************************************************************************)
EXTENDS Fei

CONSTANTS
  PSM,         \* the contract
  InitialDai   \* DAI of the accounts, that of the PSM included

ASSUME PSMAssumption ==
  /\ PSM \in Contracts \cap Spenders /\ PSM \notin Burners
  /\ InitialDai \in [Accounts -> Nat]

VARIABLES
  dai,        \* balances of DAI
  unbacked    \* history: FEI minted by others, or in excess at first

vars == <<feiVars, dai, unbacked>>

Uncovered == totalSupply - fei[PSM] - dai[PSM]

Init ==
  /\ FeiInit
  /\ dai = InitialDai
  /\ unbacked = IF Uncovered > 0 THEN Uncovered ELSE 0

-----------------------------------------------------------------------------
MintUnpaid(u, to, amountIn) ==   \* mutant: the DAI is not collected
  /\ Mint(PSM, to, amountIn)
  /\ UNCHANGED <<dai, unbacked>>

(* mint: as much FEI as DAI comes in; a minAmountOut above it reverts.      *)
MintForDai(u, to, amountIn) ==
  /\ amountIn <= dai[u]
  /\ dai' = Move(dai, u, PSM, amountIn)
  /\ Mint(PSM, to, amountIn)
  /\ UNCHANGED unbacked

RedeemKeepsFei(u, to, amountFeiIn) ==   \* mutant: the FEI is not collected
  /\ amountFeiIn <= dai[PSM]
  /\ dai' = Move(dai, PSM, to, amountFeiIn)
  /\ UNCHANGED <<feiVars, unbacked>>

(* redeem needs the FEI and the allowance of the caller; the FEI is kept.   *)
Redeem(u, to, amountFeiIn) ==
  /\ TransferFrom(PSM, u, PSM, amountFeiIn)
  /\ amountFeiIn <= dai[PSM]
  /\ dai' = Move(dai, PSM, to, amountFeiIn)
  /\ UNCHANGED unbacked

(* burnFeiHeld                                                              *)
BurnFeiHeld ==
  /\ Burn(PSM, fei[PSM])
  /\ UNCHANGED <<dai, unbacked>>

(* Another minter mints, within the bound.                                  *)
OtherMint(minter, to, amount) ==
  /\ minter # PSM
  /\ unbacked + amount <= MaxSupply
  /\ Mint(minter, to, amount)
  /\ unbacked' = unbacked + amount
  /\ UNCHANGED dai

DaiTransfer(u, to, amount) ==
  /\ amount <= dai[u]
  /\ dai' = Move(dai, u, to, amount)
  /\ UNCHANGED <<feiVars, unbacked>>

Next ==
  \/ \E u \in Users, to \in Accounts, n \in 1 .. MaxAmount : MintForDai(u, to, n)
  \/ \E u \in Users, to \in Accounts, n \in 1 .. MaxAmount : Redeem(u, to, n)
  \/ BurnFeiHeld
  \/ \E m \in Minters, to \in Accounts, n \in 1 .. MaxAmount : OtherMint(m, to, n)
  \/ \E u \in Users, to \in Accounts, n \in 1 .. MaxAmount : DaiTransfer(u, to, n)
  \/ FeiStep /\ UNCHANGED <<dai, unbacked>>

Spec == Init /\ [][Next]_vars

-----------------------------------------------------------------------------
TypeOK ==
  /\ FeiTypeOK
  /\ dai \in [Accounts -> Nat]
  /\ unbacked \in Nat

(* The FEI outside the PSM is covered by its DAI, but for what others       *)
(* minted: nothing that users of the PSM, burners, donors or the guardian   *)
(* do takes the backing away.                                               *)
CirculationCovered == Uncovered <= unbacked

(* Then what all accounts but the PSM hold is covered, so every holder can  *)
(* redeem, whoever redeems first.                                           *)
NobodyIsLast ==
  unbacked = 0 => MapThenSumSet(LAMBDA a : fei[a], Accounts \ {PSM}) <= dai[PSM]

(* Once nobody but the PSM can mint, FEI outside of the PSM is only created *)
(* for DAI that the PSM keeps.                                              *)
WrapperOnly ==
  [][minters \subseteq {PSM} /\ totalSupply' > totalSupply =>
       dai'[PSM] - dai[PSM] >= totalSupply' - totalSupply]_vars
=============================================================================
