-------------------------------- MODULE Fei --------------------------------
(***************************************************************************)
(* contracts/fei/Fei.sol with the CoreRef it inherits: an ERC-20 whose      *)
(* supply the minters and burners of Core change while it is not paused,    *)
(* and whose allowances are given by a call or by a signed permit.          *)
(* Incentive contracts, which are called on transfers, are left out.        *)
(***************************************************************************)
EXTENDS ERC20, FiniteSetsExt

CONSTANTS
  Users,        \* holders of FEI that act by themselves
  Contracts,    \* contracts that hold FEI
  Spenders,     \* accounts that allowances are given to
  Minters,      \* accounts that governance may make minters
  Burners,      \* accounts with the burner role
  Permits,      \* the permits signed: owner, spender, value, nonce, deadline
  InitialFei, InitialSupply,
  MaxTime,      \* bound of the clock
  MaxSupply,    \* bound of what is minted without backing
  MaxApproved,  \* bound of all that is approved when a call approves more
  MaxAmount     \* bound of the amounts calls name

Accounts == Users \cup Contracts

ASSUME FeiAssumption ==
  /\ Users \cap Contracts = {}
  /\ Spenders \subseteq Accounts /\ Burners \subseteq Accounts
  /\ Permits \subseteq [owner : Users, spender : Spenders, value : Nat,
                        nonce : Nat, deadline : Nat]
  /\ IsFiniteSet(Accounts)
  /\ InitialFei \in [Accounts -> Nat]
  /\ InitialSupply = MapThenSumSet(LAMBDA a : InitialFei[a], Accounts)
  /\ MaxTime \in Nat /\ MaxSupply \in Nat /\ MaxApproved \in Nat
  /\ MaxAmount \in Nat

VARIABLES
  now,          \* block.timestamp
  fei,          \* balances
  totalSupply,
  allowance,    \* allowance[owner][spender]
  nonces,       \* nonces[owner]
  paused,
  minters,      \* the accounts with the minter role
  approved,     \* history: all that each owner approved for a spender, by a
                \* call or by the first permit accepted with its nonce
  used,         \* history: the nonces of the permits accepted from each owner
  spent         \* history: what the spender took of what was approved

balanceVars   == <<fei, totalSupply>>
allowanceVars == <<allowance, nonces, approved, used, spent>>
roleVars      == <<paused, minters>>
feiVars == <<now, balanceVars, allowanceVars, roleVars>>

FeiInit ==
  /\ now = 0
  /\ fei = InitialFei
  /\ totalSupply = InitialSupply
  /\ allowance = [u \in Users |-> [s \in Spenders |-> 0]]
  /\ nonces = [u \in Users |-> 0]
  /\ paused = FALSE
  /\ minters \in SUBSET Minters
  /\ approved = [u \in Users |-> [s \in Spenders |-> 0]]
  /\ used = [u \in Users |-> {}]
  /\ spent = [u \in Users |-> [s \in Spenders |-> 0]]

-----------------------------------------------------------------------------
(* _spendAllowance of transferFrom.                                         *)
Spend(owner, spender, amount) ==
  /\ amount <= allowance[owner][spender]
  /\ allowance' = [allowance EXCEPT ![owner][spender] = @ - amount]
  /\ spent' = [spent EXCEPT ![owner][spender] = @ + amount]
  /\ UNCHANGED <<nonces, approved, used>>

Transfer(u, to, amount) ==
  /\ amount <= fei[u]
  /\ fei' = Move(fei, u, to, amount)
  /\ UNCHANGED <<now, totalSupply, allowanceVars, roleVars>>

TransferFrom(spender, owner, to, amount) ==
  /\ amount <= fei[owner]
  /\ Spend(owner, spender, amount)
  /\ fei' = Move(fei, owner, to, amount)
  /\ UNCHANGED <<now, totalSupply, roleVars>>

ApprovedInAll ==
  MapThenSumSet(LAMBDA p : approved[p[1]][p[2]], Users \X Spenders)

(* approve, within the bound; taking an allowance back always is.           *)
Approve(owner, spender, amount) ==
  /\ amount = 0 \/ ApprovedInAll + amount <= MaxApproved
  /\ allowance' = [allowance EXCEPT ![owner][spender] = amount]
  /\ approved' = [approved EXCEPT ![owner][spender] = @ + amount]
  /\ UNCHANGED <<now, balanceVars, nonces, used, spent, roleVars>>

(* Of the permits accepted with one nonce, only the first is what the owner *)
(* meant: signing another one replaces it.                                  *)
Endorsed(p) ==
  /\ used' = [used EXCEPT ![p.owner] = @ \cup {p.nonce}]
  /\ approved' = [approved EXCEPT ![p.owner][p.spender] =
                     @ + (IF p.nonce \in used[p.owner] THEN 0 ELSE p.value)]

PermitReplayed(p) ==   \* mutant: the nonce is not used up
  /\ now <= p.deadline
  /\ p.nonce = nonces[p.owner]
  /\ allowance' = [allowance EXCEPT ![p.owner][p.spender] = p.value]
  /\ Endorsed(p)
  /\ UNCHANGED <<now, balanceVars, nonces, spent, roleVars>>

(* permit, which anybody may relay: the signature is over the nonce.        *)
Permit(p) ==
  /\ now <= p.deadline
  /\ p.nonce = nonces[p.owner]
  /\ nonces' = [nonces EXCEPT ![p.owner] = @ + 1]
  /\ allowance' = [allowance EXCEPT ![p.owner][p.spender] = p.value]
  /\ Endorsed(p)
  /\ UNCHANGED <<now, balanceVars, spent, roleVars>>

(* mint: onlyMinter whenNotPaused                                           *)
Mint(minter, to, amount) ==
  /\ minter \in minters
  /\ ~paused
  /\ fei' = MintTo(fei, to, amount)
  /\ totalSupply' = totalSupply + amount
  /\ UNCHANGED <<now, allowanceVars, roleVars>>

(* burn, of one's own FEI, cannot be paused.                                *)
Burn(account, amount) ==
  /\ amount <= fei[account]
  /\ fei' = BurnFrom(fei, account, amount)
  /\ totalSupply' = totalSupply - amount
  /\ UNCHANGED <<now, allowanceVars, roleVars>>

(* burnFrom needs the burner role, and no allowance.                        *)
BurnOf(burner, account, amount) ==
  /\ burner \in Burners
  /\ ~paused
  /\ Burn(account, amount)

PauseFei   == ~paused /\ paused' = TRUE  /\ UNCHANGED <<now, balanceVars, allowanceVars, minters>>
UnpauseFei ==  paused /\ paused' = FALSE /\ UNCHANGED <<now, balanceVars, allowanceVars, minters>>

(* Core grants and revokes the minter role.                                 *)
SetMinters(new) ==
  /\ minters' = new
  /\ UNCHANGED <<now, balanceVars, allowanceVars, paused>>

Tick ==
  /\ now < MaxTime
  /\ now' = now + 1
  /\ UNCHANGED <<balanceVars, allowanceVars, roleVars>>

FeiStep ==
  \/ \E u \in Users, to \in Accounts, n \in 1 .. MaxAmount : Transfer(u, to, n)
  \/ \E s \in Spenders \cap Users, u \in Users, to \in Accounts, n \in 1 .. MaxAmount : TransferFrom(s, u, to, n)
  \/ \E u \in Users : \E s \in Spenders \ {u}, n \in 0 .. MaxAmount : Approve(u, s, n)
  \/ \E p \in Permits : Permit(p)
  \/ \E u \in Users, n \in 1 .. MaxAmount : Burn(u, n)
  \/ \E b \in Burners, a \in Accounts, n \in 1 .. MaxAmount : BurnOf(b, a, n)
  \/ PauseFei
  \/ UnpauseFei
  \/ \E new \in SUBSET Minters : SetMinters(new)
  \/ Tick

-----------------------------------------------------------------------------
FeiTypeOK ==
  /\ now \in Nat
  /\ fei \in [Accounts -> Nat]
  /\ totalSupply \in Int
  /\ allowance \in [Users -> [Spenders -> Nat]]
  /\ nonces \in [Users -> Nat]
  /\ paused \in BOOLEAN
  /\ minters \subseteq Minters
  /\ approved \in [Users -> [Spenders -> Nat]]
  /\ used \in [Users -> SUBSET Nat]
  /\ spent \in [Users -> [Spenders -> Nat]]

(* A spender takes no more from an owner than the owner approved for it, by *)
(* calls and by permits of which each nonce counts once: a permit is not    *)
(* replayed, and of two permits with one nonce, signed for the same spender *)
(* or for two, only the first that is relayed gives an allowance.           *)
SpendsWhatWasApproved ==
  \A u \in Users, s \in Spenders : spent[u][s] <= approved[u][s]
=============================================================================
