# A formal model of the Fei Protocol and its governance

This directory holds TLA+ modules that model contracts of this repository and the governance proposals that assembled
and wound down the protocol, the configurations with which TLC checks them on small instances, and theorems about them with proofs checked by TLAPS. It is written for a
reader who knows the contracts. Paths below are relative to `src/contracts/` unless they start with `src/`.
`PROJECT.json` maps every definition that models code to the lines it models.

The repository holds two things. One is the contracts of FEI, a stablecoin, and of TRIBE, its governance token, at the moment of
their winding down: proposals TIP-121a, b and c deploy contracts that let FEI be redeemed for DAI, TRIBE for a
share of the reserves and the holders of hacked Fuse pools for FEI, then give up every role. The other, and the larger, is
`src/proposals`: the scripts of some seventy proposals that granted the roles, moved the reserves and registered the
deposits of the protocol, with the coordinator that replays them and the configuration that the integration tests compare
with mainnet. The model has a part for each: the contracts that hold or move the money last, with the governance that
hands it over, operation by operation; and every proposal, command by command, run against the configuration of roles,
deposits, safe addresses and pauses.

Contents: [conventions](#conventions) · [inventory](#inventory) · [what each module models](#what-each-module-models) ·
[runs](#runs) · [disagreements found](#disagreements-found) · [bounds](#bounds) · [fairness](#fairness) ·
[proofs](#proofs) · [only model-checked](#what-is-only-model-checked) · [not modelled](#what-is-not-modelled) ·
[how to run](#how-to-run)

## Conventions

- **A transaction is one step.** The EVM runs transactions one at a time, so actions are whole external calls with
  every call that they make. What interleaves is the order of calls by different accounts. Only the batches of
  `ProtocolUpgrades` are taken command by command, with the revert as a step, since what a failure in the middle undoes is a question there.
- **A call that reverts is no step.** A `require`, a modifier, a checked subtraction or a failing token transfer is a
  conjunct of the action's guard. Properties about being locked out (`NeverBricked`, `NeverLockedOut`, `HoldersCanExit`,
  `QueuedIsExecutable`) say when such guards are satisfied.
- **Amounts** are natural numbers without a width: in Solidity 0.8 an overflow reverts, and the amounts of the protocol are
  far below 2^256. (`GovernorAlpha` and `Timelock` compile with 0.8 too.) Divisions round down as in the code.
- **Time** is a variable that a `Tick` increases; contracts read it. In `GovernorAlpha` one clock stands for
  both block numbers and timestamps: what the code compares with `block.number` and what it compares with
  `block.timestamp` concern disjoint phases of a proposal (voting, then the timelock).
- **Tokens** are functions from accounts to balances (`ERC20`: `Move`, `MintTo`, `BurnFrom`). A transfer to
  oneself changes nothing, as in OpenZeppelin's ERC-20.
- **Signatures and Merkle proofs** are abstracted to what they establish: a set of signatures with the account each
  verifies for, a set of leaves that have a proof.
- **Histories** are variables that no guard reads. They are marked `history` where they are declared.
- **Commands of proposals** are records: the method, the contract, the role or accounts it names. Contracts and roles are the
  names that the scripts use (`src/protocol-configuration/mainnetAddresses.ts`), as strings.
- **Mutated forms.** Beside some actions stands a second definition marked `mutant`: the action with a plausible mistake
  (a dropped guard, a missing reset). `PROJECT.json` says which property such a form violates, so that each property is known
  to depend on the code it is about. No specification uses them.

## Inventory

The state, the operations and the correctness of each part, in the order of the code. A part with a module in the last
column is modelled; the rest of this section says what makes it hard.

| Part | State it keeps | Operations | Correct if | Module |
|---|---|---|---|---|
| `shutdown/redeem/TribeRedeemer` | the base of the pro rata share | `redeem`; token transfers and rebases around it | everybody can redeem, in any order, for no less than those before | `TribeRedeemer` |
| `shutdown/fuse/RariMerkleRedeemer`, `MultiMerkleRedeemer` | signature, claims and redemptions per user and cToken; roots and rates | `sign`, `claim`, `redeem`, their multiples and combinations | nobody is paid more than the published distribution at the published rates, nor without a signature | `RariMerkleRedeemer`, `RedemptionLedger` |
| `pcv/utils/ERC20Dripper`, `shutdown/fuse/MerkleRedeemerDripper`, `utils/Timed` | start of the period, pause | `drip`, `withdrawERC20`, `pause` | k drips take k periods; the redeemer does not starve, and the drips do not fill it | `ERC20Dripper`, `DripSchedule`, `Timed`, `MerkleRedemption`, `RedemptionPace` |
| `peg/SimpleFeiDaiPSM` | balances of FEI and DAI | `mint`, `redeem`, `burnFeiHeld` | the FEI outside is covered by the DAI inside | `SimpleFeiDaiPSM` |
| `fei/Fei` | balances, allowances, nonces, pause | `transfer`, `approve`, `permit`, `mint`, `burn`, `burnFrom` | allowances are spent once; supply changes by roles only | `Fei`, `ERC20` |
| `core/Permissions`, `Core`, `TribeRoles` | holders and admin of every role | grants, revocations, `createRole`, `revokeOverride` | nobody escalates; giving up governance is final | `Permissions`, `RoleBurning` |
| `timelocks/*` | locked balance as last seen, beneficiary, delegations | `release`, `releaseMax`, `clawback`, `delegate`, `undelegate`, change of beneficiary | only what has vested leaves, and all of it can | `TokenTimelock` |
| `shutdown/timelocks/*Burner` of FEI and TRIBE | none | accept, undelegate, release and burn | a hand-over is final and passes everything on | `TimelockBurner` |
| `dao/timelock/Timelock`, `FeiDAOTimelock`, `DAOTimelockBurner` | admin, delay, queue, pause | queue, cancel, execute, veto, hand over | nothing runs without its notice; burning is final | `FeiDAOTimelock` |
| `dao/governor/GovernorAlpha` | proposals, receipts, guardian | propose, vote, queue, execute, cancel, the guardian's calls | what runs was decided by a vote that stands | `GovernorAlpha` |
| `src/proposals` | none: each deploys contracts and is a list of commands | 70 proposals from FIP-37 to TIP-121c | each executes, whatever overtakes it, and leaves what its script validates | `ProposalsBeforeCouncil`, `ProposalsOfCouncil`, `UpgradeHistory` |
| `src/test/integration/setup`, `src/scripts/utils/simulate*`, `constructProposal` | the contracts known so far, the proposal that executes | deploy, propose, execute as one transaction, validate | all or nothing; nobody gets a role but by an executed proposal | `UpgradeCommands`, `ProtocolUpgrades`, `AtomicUpgrades`, `UpgradeFacts`, `UpgradeOrder`, `MainnetUpgrades` |
| `src/protocol-configuration` | roles, deposits, safe addresses, pauses, the directory of contracts | comparison with mainnet | it is what the proposals lead to | `ProtocolConfiguration` |
| `utils/RateLimited`, `MultiRateLimited`, `GlobalRateLimitedMinter`, `fei/minter/*` | buffers that refill with time, per minter and global; timers and incentives | deplete, replenish, change of caps and rates; timed mints | no minter exceeds its buffer nor all together the global one | – |
| `peg/PegStabilityModule`, `PriceBoundPSM`, `FixedPricePSM`, `NonCustodialPSM`, `PSMRouter` | fees, threshold, pauses of each direction, deposit | `mint`, `redeem`, `allocateSurplus` | going around never gains; limits hold in every order | – |
| `tribe/stabilizer/*` | start of the low collateralization | `exchangeFei`, start and reset of the delay | open only after the ratio was low long enough | – |
| `tribe/Tribe` | checkpoints per delegate | transfers, delegation, `getPriorVotes` | the votes of a past block never change | abstracted in `GovernorAlpha` |
| `tribe/TribeMinter` | rate limit, caps on inflation | `poke`, `mint` | inflation stays within the yearly share | – |
| `pcv/PCVGuardian`, `pcv/utils/*`, `libs/CoreRefPauseableLib` | safe addresses; timers; rates | withdrawals to safe addresses, drips, skims, splits | reserves go to safe places, pauses survive | in part: `UpgradeCommands`, `ProtocolUpgrades` |
| `sentinel/*` | set of guards | `knight`, `slay`, `protec` | a guard acts only when its condition holds | – |
| `pcv/balancer/BalancerLBPSwapper`, managers | timer, weights of an external pool | start, end and force of auctions | tokens are in the pool or in the contract | – |
| other deposits under `pcv/` | pointers to external protocols | deposit, withdraw, claim | the arithmetic of the other protocol | – |
| `oracle/collateralization/*`, `keeper/*` | maps of deposits, tokens, oracles; cached sums | add, remove, swap; `update`; guardian's steps | the maps agree; the cache is not trusted when stale | in part: `UpgradeCommands`, `ProtocolUpgrades` |
| `oracle/*`, `refs/OracleRef`, libraries | pointers to feeds | reads | arithmetic on external feeds | – |
| `staking/*` | pools, users, deposits, debts; schedule | deposit, withdraw, harvest, changes of weights; sync | rewards add up; everybody can leave | – |
| `fuse/*`, `utils/FuseFixer` | speeds of rewards | calls of an external comptroller | who may call | – |
| `dao/governor/FeiDAO`, `dao/nopeDAO/*`, `dao/timelock/OptimisticTimelock` | rollback, quorum; the rest is OpenZeppelin's | rollback, quick reaction | a rollback can be executed | – |
| `pods/*` | admins and transfer locks of pods | membership, veto, execution | membership changes by its admins only | – |
| `core/RestrictedPermissions` | none | reads Core | – | – |
| `metagov/*` | pointers, lock duration | calls of gauges, escrows and governors | locks can be extended | – |
| `merger/*` | acceptances, claims used, rate | accept, exchange, rage quit | each claim is used once | – |
| `utils/OtcEscrow`, `utils/UniswapLiquidityRemover` | parties and amounts | `swap`, `revoke` | both legs or none | – |
| `src/scripts` (calldata, trees), `src/test`, `external`, `mock` | – | command line tools, tests, vendored code | – | – |

### How the parts interact

- **Roles.** Every contract that inherits `CoreRef` asks `Core` whether its caller has a role. A change in `Permissions`
  changes who may mint (`Fei.mint`), pause or veto elsewhere. The models of those contracts take the answer
  as a variable that changes at any time: `minters` in `Fei`, `governed` in `FeiDAOTimelock`.
- **Shared ledgers.** The redeemer and its dripper share balances of FEI (`MerkleRedemption` composes the two modules on
  one variable). The PSM mints and collects FEI on the ledger of `Fei`.
- **Proposals and contracts.** A proposal is executed by a timelock (the DAO's, the council's, the optimistic one, Rari's), which
  calls contracts that ask Core for the timelock's roles. What one proposal grants, pauses or registers is what the next ones
  depend on, although each is written, deployed and put to the vote while earlier ones still wait.
- **Calls across.** GovernorAlpha queues into the timelock and the timelock calls itself (`setDelay`,
  `setPendingAdmin`) and others. The burners call the timelocks as their beneficiary. In `acceptBeneficiary` and
  `acceptAdmin` the pending one has to call.
- **External code.** Basket tokens that rebase, cTokens, DAI and Merkle proofs are modelled from their use only.

### Which behaviours are hard

The full list, at the lines where they bite, is under `hazards` in `PROJECT.json`; in short:

- *Order of calls by different accounts.* Redemptions, trades and donations between them (`TribeRedeemer`); two minters
  and a PSM on one token; a permit that anybody relays; a pending beneficiary named before an acceptance that anybody can
  trigger; a governor of Core who names another admin after the burner accepted.
- *Inferred state.* `TokenTimelock.balanceCheck` infers deposits from a difference of balances, while releases, delegations,
  donations to a `Delegatee` contract and `unlockLiquidity` move the balance too.
- *Rounding* that accumulates over many calls, and a division that must leave a remainder for the last.
- *Liveness through refills:* the claimants of the Rari pools are paid from a contract that is only refilled when it runs low.
- *Long legal sequences:* a role is burned, and its admin replaced; two proposals have the same action and their
  queue entries coincide; a delay is shortened while something is queued; the guardian executes what a proposal queued.
- *Proposals that overtake each other:* each is written against the configuration its authors expected, two timelocks with
  different delays execute them, an external protocol refuses one, the NopeDAO vetoes one.
- *State copied early:* the second `PCVGuardian` is deployed with the safe addresses of the first, which later proposals change.
- *Stale answers:* votes of a past block while TRIBE moves; a snapshot of who administers a role.

Three hazards of the list have no property. Two are in parts that are not modelled: the limits of `MultiRateLimited`, and the roundings of `TribalChief`.
The third is a withdrawal through the guardian that reopens what was paused: the history has one such pair, and a premise of the run puts the pause second (see TIP-115 below).
There are more in those parts that the list leaves out: a shortened lock that makes
`VoteEscrowTokenManager.lock` revert; a rage quit before its rate is set; a rollback of FeiDAO missed within the grace period;
NopeDAO's quorum raised after a proposal succeeded; a veto racing `PodExecutor`; the delay of the TRIBE stabilizer that only
a report resets; the bounded steps of the collateralization guardian adding up; a cached ratio that outlives the reserves;
the three maps of `CollateralizationOracle` by token; the first failing action of a sentinel guard reverting all others; the
incentive of `PCVDripController`, rate limited without partial mints; the auction cycle of `BalancerLBPSwapper`; the two buffers behind
`NonCustodialPSM`; `TribalChiefSyncV2` reverting when no speed changes; checkpoints of one block merged in `Tribe`.

## What each module models

### `TribeRedeemer` — TRIBE for a basket
`redeemBase`, `tribe` and `bal[token]` are the contract's storage and the ledgers. `Redeem` is `redeem` with `previewRedeem`:
every token of the basket pays `amountIn * balance / redeemBase`, rounded down, and the call reverts if a balance is zero.
`TribeTransfer` and `TokenTransfer` are trades and donations; `Rebase` sets the balance of a rebasing token (stETH is in
the basket). The base may be smaller than the TRIBE in circulation, and it is decremented with checked arithmetic.

### `ERC20Dripper`, `Timed` — timed release
`startTime`, `paused` and the balances. `Drip` is `ERC20Dripper.drip`, `MerkleDrip` the override that also requires that the
target holds less than one amount. `Withdraw` is the PCV controller's `withdrawERC20`. `drips` counts. `DripSchedule` declares what
the schedule is about, and states it as `RateLimit`.

### `RariMerkleRedeemer`, `RedemptionLedger` — cTokens for FEI
`userSignatures`, `claims`, `redemptions` are the storage; `cToken` and `fei` the ledgers. One action per external function:
`sign`, `claim`, `multiClaim`, `redeem`, `multiRedeem`, `claimAndRedeem`, `signAndClaim`, `signAndClaimAndRedeem`. A batch is
a sequence of items that are applied in order, so an item sees the effect of those before it. `RedemptionLedger` is the
abstract promise: entitlements are set once, to a published amount; redemptions only grow, up to the entitlement; the pay
of a call is at most the worth of what it redeemed. The run checks that the contract implements it, under the
mapping entitled = `claims`, redeemed = `redemptions`, paid = the FEI of the users.

### `MerkleRedemption` — redeemer and dripper together
INSTANCEs of the two modules share the ledger `fei`. Its actions are theirs, with the other's variables unchanged.
FEI also moves outside of the two contracts: `Withdraw` sends what the dripper holds to any address the PCV controller names, the redeemer or a
user included, and `Transfer` is an ERC-20 transfer by a user or by anybody else (`Dao`), to the redeemer and the dripper too. Two histories tell these flows from the
drips: `brought` is the FEI that users and redeemer together got from elsewhere, less what they passed on, and `sent` what the redeemer was sent
since the last drip. cTokens are moved by redemptions only here, since `RariMerkleRedeemer` has their transfers.
`RedemptionPace` states how fast FEI may leave, over the schedule of the dripper (`DripSchedule`) and the funds of
the redemption (`RedemptionFunds`); the composition and the theorems about it both extend it.

### `Permissions`, `RoleBurning` — access control
`holders[role]` and `adminOf[role]`. The roles are opaque, except GOVERN and GUARDIAN; Core is a governor and acts in
`revokeOverride`. OpenZeppelin's `grantRole`, `revokeRole` and `renounceRole` are there as public functions, beside the
functions of `Permissions`. `RoleBurning` adds a history of the roles that were burned the way TIP-121c does it.

### `TokenTimelock`, `TimelockBurner` — vesting
`terms` says which contract of the directory it is: linear or quadratic curve, `unlockLiquidity` or not, delegation or
not, and its start. `BalanceCheck` is the modifier `balanceCheck`, around every release and clawback and not around
`unlockLiquidity`, as in the code. A `Delegatee` contract is created and destroyed with each delegation, and may be sent tokens.
`TimelockBurner` EXTENDS it with a burner as a person without a key: anybody triggers its three calls.

### `Fei`, `SimpleFeiDaiPSM` — FEI and the redemption for DAI
`Fei` is the token with roles and pause; `SimpleFeiDaiPSM` EXTENDS it with the ledger of DAI. `approved`, `used` and `spent` are histories
of allowances: what each owner ever granted each spender, by a call or by the first accepted permit of a nonce; the nonces of the permits
accepted; and what was taken. `unbacked` is a history of the FEI
that others minted, and of what was not covered at the deployment. The FEI token's incentive contracts, which it
calls on transfers, are left out.

### `FeiDAOTimelock`, `GovernorAlpha` — governance
`FeiDAOTimelock` holds the timelock: `queued` is the set of (transaction, eta) entries, `delay`, `admin`, `pendingAdmin` and
`paused`. Transactions are calls that change nothing here, `setDelay` and `setPendingAdmin`. A proposal queues and
executes its whole set of transactions, as the loops of GovernorAlpha do; of two calls of one setter in a
proposal either may be the last. `governed` says that Core still has a governor or guardian, and merges the two. `GovernorAlpha`
EXTENDS it with proposals, `prior` (the votes at the end of every past block, from which `getPriorVotes` reads) and the guardian.

### `UpgradeCommands`, `ProtocolUpgrades` — proposals and their execution
`config` is the configuration of the protocol: `roles` and `roleAdmin` of Core and of the timelocks that keep roles of their own,
`contractAdmin` (the role that `CoreRef` contracts give the powers of an admin), `oracle` (the deposits that are counted), `safe` (the
safe addresses of each guardian) and `paused`. `UpgradeCommands` has a constructor for each method that proposals call, and in
`Permitted` the modifiers and requires of that method: who may grant a role, that a safe address is set once, that the source of a
withdrawal is paused only if the guardian may unpause it, and so on. Calls whose outcome nothing of the configuration decides are `Call`.

`ProtocolUpgrades` is the machine, for any history of proposals. `Propose` deploys the next one and makes it, as `loadEnvironment` does;
`Begin` starts the transaction of one that waits, in any order; every method is one action that executes the next command; `Commit` ends
the transaction. A command that its contract refuses undoes it (`Revert`), and it is tried again once something else was executed. `Fault`
is a refusal by a contract outside of the model, at any call of one; `Veto` is the NopeDAO's. A mainnet transaction is atomic, so nobody acts between its commands:
they are steps here so that a refusal in the middle, and what it undoes, is part of the model.

### `AtomicUpgrades`, `UpgradeFacts`, `UpgradeOrder` — proposals as wholes
`AtomicUpgrades` is the abstract promise. The configuration is a set of facts, and a proposal is four sets of them: what it must find
(`Needed`), what it must not find (`Barred`), what it adds (`Given`) and what it takes away (`Taken`). Executing it is one step; a proposal that is
refused or undone leaves no step at all. `UpgradeFacts` reads a configuration as facts (who holds a role, which role administers a role or
a contract, which deposits count, which addresses are safe, what is paused), says what each method adds, drops, needs and bars, adds up
the commands of a proposal, and states as `ExecutedAsWholes` that `ProtocolUpgrades` implements the promise under the mapping facts = `Facts(saved)`.

`UpgradeOrder` computes from a history, before anything is executed, what the order of execution can lead to. `Order` has the pairs that the window
and `Awaited` keep apart. `Forced` adds those of which the second reverts until the first is executed, because that one alone leaves a fact it needs. For
each fact, `Lasts` are the proposals that may have changed it last, so `Sure(j)` and `Possible(j)` are the facts that hold, and that may hold, when `j` was
just executed, and `FactsAtTheEnd(V)` those that may hold when all are settled and those of `V` were vetoed. Its assumptions are what the theorems ask of a history.
TLC evaluates them for mainnet's in the run `mainnet_upgrades`.

### The proposals and the configuration
`ProposalsBeforeCouncil` and `ProposalsOfCouncil` hold, for each proposal, what its script
`deploys`, its commands (`src/proposals/description`, with what `deploy` and `setup` fill in), and `..._validate`, what of the configuration its script asserts afterwards.
`UpgradeHistory` puts them in order, with the timelock that executes each and the configuration before FIP-37 (`InitialConfiguration`: FIP-31's oracle,
the first guardian of FIP-55, the roles at that time, inferred from what the first proposals take for granted). `ProtocolConfiguration` has the directory of contracts by category and
the configuration that the integration tests compare with mainnet. `MainnetUpgrades` puts the history into the machine and
states what has to hold.

Four transactions that the proposals rely on have no script in the repository and are in `UpgradeHistory` as external: the optimistic timelock's
additions of deposits before FIP-60c, and three pauses by the guardian (`guardian_pauses_...`), each of which a later script or the configuration shows to have happened.

`Arithmetic` has lemmas on integer division and on sums over finite sets; `ERC20` the moves of balances.

## Runs

| Run | Module | Checks | Shows |
|---|---|---|---|
| `tribe_redeemer` | `MCTribeRedeemer` | `NeverBricked`, `HoldersCanExit`, `ShareNeverFalls`, `LastRedemptionDrains` | the basket per unit of base never falls, no token that does not rebase is used up while base is left, everybody can exit if the base covers the supply, and the last redemption takes the dust |
| `erc20_dripper` | `MCERC20Dripper` | `RateLimit` | k drips take k periods from the deployment |
| `rari_merkle_redeemer` | `MCRariMerkleRedeemer` | `SignedFirst`, `RedeemedHeld`, `StillCovered`, `ImplementsLedger` | no claim without a signature; cTokens taken and FEI paid agree with what is recorded; what is still owed stays funded; the ledger is implemented |
| `rari_signature_once` | `MCRariMerkleRedeemer` | `SignatureProvidedOnce` (violated) | see below |
| `merkle_redemption` | `MCMerkleRedemption` | `PacedRelease`, `LittleAtRisk`, `EveryUserSettled` | payments follow the pace of the dripper; the drips never leave two amounts with the redeemer, but for what it is sent after them; all users are settled |
| `permissions` | `MCPermissions` | `ShutdownIsFinal`, `NoEscalation` | giving governance up is final; who administers nothing escalates nothing |
| `permissions_guardian_revokes` | `MCPermissions` | `GuardianCanRevoke` (violated) | see below |
| `minter_role_burned` | `MCRoleBurning` | `NeverGrantedAgain` (violated) | see below |
| `timelock_burner` | `MCTimelockBurner` | `VestedOnly`, `NeverLockedOut`, `DelegationsBacked`, `ClawbackIsFair`, `EverythingReleased`, `HandoverIsFinal`, `OnlyTheSinkGains`, `EverythingPassedOn` | nothing but what vested is released, all of it can be, and a clawback leaves the vested share; after the hand-over to a burner no key holder gains a token, save the admin of a clawback, and everything goes to the sink, including what was delegated or sent to the burner |
| `simple_fei_dai_psm` | `MCSimpleFeiDaiPSM` | `SpendsWhatWasApproved`, `CirculationCovered`, `NobodyIsLast`, `WrapperOnly` | FEI outside the PSM is covered but for what others minted; of the permits of one nonce one counts, and once |
| `governor_alpha` | `MCGovernorAlpha` | `OneLiveProposal`, `NoVoteTwice`, `OnlyThePassed`, `QueuedIsExecutable`, `LifeCycle`, `NoticeGiven`, `BurnIsFinal` | decisions are those of votes that stand, with notice; the burn of the admin is final |
| `mainnet_upgrades` | `MCMainnetUpgrades` | `Validated`, `ConfiguredAtTheEnd`, `CountedOnce`, `NoRoleOrphaned`, `NoPowerFromNowhere`, `ExecutedAsWholes`, `EverythingExecuted` | every proposal from FIP-37 to TIP-121c, overtaking each other, refused once and vetoed: each is executed in the end, takes effect as a whole, and leaves what its script validates; no reserves are counted twice, no role that somebody holds loses its admin but the minters' by TIP-121c; and the end is the configuration of `src/protocol-configuration`, in which what is filed as deprecated has no power |

`CHECK_DEADLOCK FALSE` is set in the runs: their clocks and counters are bounded, and the contracts really come to rest (all
redeemed, all released, all proposals decided).

Some properties have a premise; each is met in its run. `HoldersCanExit`: one of the two initial distributions has a
total above the base, the other does not. `ShutdownIsFinal`: GOVERN_ROLE is under itself from the start and the only governor may
renounce. `BurnIsFinal`: a proposal hands over to the burner, and Core's governors leave, which is one of the bounded moves.
`EveryUserSettled`: there are behaviours in which nothing is withdrawn from the dripper.

## Disagreements found

Three runs check a sentence of the repository that the code does not keep. They are disagreements of documentation and
code; what the code does instead is checked by the other runs.

1. **A signature is provided once** (`rari_signature_once`). `MultiMerkleRedeemer.sol:41` says that a user's signature "can only
   be provided once", and line 12 that `Signed` is emitted once per user. `sign` and `signAndClaimAndRedeem` have the modifier
   `hasNotSigned`; `signAndClaim` (`RariMerkleRedeemer.sol:93`) has not, so a user who signed can replace the signature. It
   has to be a valid signature by the same user, and `SignedFirst` holds all the same.
2. **The guardian can revoke** (`permissions_guardian_revokes`). `Permissions.sol:17` makes Core a governor "so guardian can have
   indirect access to revoke ability". `revokeOverride` (`:112`) calls `revokeRole` as Core, which needs the admin role of
   the role revoked. Core has GOVERN_ROLE only, so the minor roles that `createRole` puts under ROLE_ADMIN (`TribeRoles.sol:20`
   calls the guardian "Admin of pause, veto, revoke, and minor roles") are out of reach. Nothing is gained by it: `NoEscalation` holds.
3. **A burned role is never granted again** (`minter_role_burned`). `src/proposals/description/tip_121c.ts:136` says "nobody will
   ever be able to grant the MINTER_ROLE either" once its admin is a role that nobody holds. `createRole` (`Permissions.sol:41`)
   replaces the admin of a role that exists, so a governor can bring it back. It becomes true when governance is
   given up, which is `ShutdownIsFinal`.

### What replaying the proposals shows

The proposals execute in the end in every order that the run allows, under the premises of `MadeAfter` in `UpgradeHistory`. These were found by
the run: without each of them TLC shows a proposal that waits for ever, or leaves what a script does not expect. They say which pairs
must not be on their way together, so that the second is made only when the first was executed:

- FIP-50 retires the controller with which FIP-53 moves reserves; FIP-56 adds to the safe addresses of FIP-55's guardian;
- FIP-82b copies the safe addresses when its guardian is deployed, so FIP-98 and FIP-99 have to be executed before, and FIP-104 adds to the copy;
- TIP-115 withdraws from a deposit through the guardian, which unpauses it: the guardian's pause has to come after;
- TIP-121c takes the right to mint that TIP-121b uses.

With a window of four, TIP-117 also has to come after TIP-111. What else a reader of the scripts may want to know:

- TIP-117 unsets safe addresses at `pcvGuardian` (`src/proposals/description/old/tip_117.ts:292`), which then named the guardian that
  FIP-82b had retired; the guardian in use kept them until TIP-118 unset the same addresses there.
- Had TIP-112 not been vetoed its `fuseFixer` would still be a safe address, and `safeAddresses.ts` would not be what is on chain: no later proposal unsets it.
- Two scripts validate less than they seem to: `fip_99.ts` calls `hasRole` and drops the result (left out of the model), and `register_proposal.ts:53` calls `expect`
  without a matcher (the model states what it means, and it holds).
- `tribalChiefSyncV2` is left as an executor of the optimistic timelock, whose roles `permissions.ts` does not list; nor does it compare `TRIBE_MINTER_ADMIN_ROLE`.

## Bounds

| Module | Bounds | Why they are enough |
|---|---|---|
| `TribeRedeemer` | 2 holders, 2 tokens (one rebases), base 4, baskets 3 and 2, amounts to 3, rebases to 2 | the amounts have no common factor with the base, so every division leaves a remainder; a redemption of nothing is included; the base is all TRIBE, or less |
| `ERC20Dripper` | clock 1–8, period 2, amount 2, funding 3 | three periods; the funding is no multiple of the amount |
| `RariMerkleRedeemer` | 2 users, 2 cTokens, batches of 2 | a batch may name a cToken twice; one tree has two leaves of one user; one rate (3/2) rounds; funding just covers the distribution |
| `MerkleRedemption` | 2 users, 1 cToken, period 2, amount 2, clock 1–9, 6 FEI in all, transfers of 1 to 3 | the redeemer holds two amounts at first, as TIP-121b funds it, and the dripper one; they just cover the claims, which exceed what the redeemer holds. More drips follow when FEI is sent back to the dripper, up to four; FEI reaches the users, the redeemer and others by every way. All of it is in circulation, so the histories need no bound |
| `Permissions` | 2 accounts and Core, 5 roles; `Creations` are 4 pairs | each kind of admin: govern, guardian, the role itself, and a custom role over a major one |
| `TimelockBurner`, `TokenTimelock` | 3 people (the beneficiary, the burner, the sink), 1 funder, 1 delegatee, duration 3, cliff 2, 4 tokens, clock 2–6 | starts at the deployment or a second later; release before, at and after the cliff and the end, hand-over before, during and after vesting or never; amounts that do not divide by the duration |
| `SimpleFeiDaiPSM` | 2 users, 2 FEI and 3 DAI, 3 permits | `MaxSupply` bounds what others mint, `MaxApproved` what all have approved when a call approves more; two permits share a nonce, for two spenders, and one expires. 727 thousand states |
| `GovernorAlpha` | 2 voters with equal votes, 2 proposals of 3 transactions in all, clock to 6, one move (`MaxMoves`) | a proposal can pass, be queued and expire; the other may propose the same or a different set of actions, at the same time or later; the sets call out, change the delay and hand over the admin. `MaxMoves` bounds interventions: a moved vote, a cancellation, a change of guardian, a veto, a pause. With one of them per behaviour, two proposals and full voting the space has 888 thousand states, up to the exchange of the voters |
| `MainnetUpgrades` | the real history: 70 proposals and 4 transactions of others, 28 roles of Core and 6 elsewhere, every contract they name; `Window` 3, `MaxFaults` 1 | nothing of the data is reduced. A proposal may be overtaken by the two after it. Three are enough for a proposal to come between two others, and for the delays of two timelocks to reverse their order; a longer window asks for proposals that wait longer than their votes and delays take. The assumptions of `UpgradeOrder` also hold with windows of four and five; with six `ValidationAssumption` fails, since what one script validates another proposal may then change before or may not have given yet. One refusal is enough, since after it the configuration is the one before it; it may come at any call to a contract outside of the model |

The theorems below remove the bounds from the properties that they state: their statements have no clock, amount or set that is bounded
by more than the constants' assumptions.

`SYMMETRY` is used in `governor_alpha` only, over two voters that start with equal votes and that the configuration names nowhere else; it has no
liveness property.

## Fairness

No transaction is guaranteed to be sent. Liveness is stated for those that somebody has a reason to send, and weakly
fair: an action that stays possible is taken in the end.

- `MerkleRedemption`: time passes; `drip` is open to anybody, claimants included; a user who can sign, claim or redeem a unit
  does so. Users redeem in units, since a large redemption may exceed what the redeemer holds. `EveryUserSettled`
  assumes that nothing is withdrawn from the dripper and that the guardian does not keep the dripper paused, `[]~withdrawn /\ <>[]~paused`;
  both are powers that the contract grants on purpose.
- `TokenTimelock`: time passes, and the beneficiary calls `releaseMax`. `EverythingReleased` excepts tokens that the beneficiary delegates.
- `TimelockBurner`: time passes; `undelegate` and the release of the burner are open to anybody. The hand-over
  itself is not fair: `EverythingPassedOn` starts with it. Funders and the previous beneficiary are not fair either.
- `ProtocolUpgrades`: `Progress` is weakly fair as a whole: the coordinator goes on to the next proposal, and a proposal that passed may be
  executed by anybody (`execute` of the governors and of the timelock behind an open executor) until it is. Neither vetoes nor refusals are fair.
  That a proposal which reverts is not sent again before something changed is in the guard of `Begin`, not in the fairness.

In the runs with time the clock stops at its bound, after everything has vested or, in `MerkleRedemption`, after the
periods that the funding lasts; there `Tick` also waits for the end of a period to be used, which merges moments that no guard tells apart.
The liveness of the runs needs no later time.

## Proofs

Every theorem is checked by `tlapm`, for all values of the constants that satisfy the modules' `ASSUME`s. These ask only what
the constructors or the deployment establish: distinct addresses, amounts that are natural numbers, durations above zero,
finitely many accounts, cTokens and voters. That the balances of FEI at first add up to the supply (`FeiAssumption`) is what
ERC-20's `_mint` and `_burn` leave, which are the only ways the supply changed before.

| Module | Theorems | Inductive invariant and argument |
|---|---|---|
| `TribeRedeemerProofs` | `TypeCorrect`, `RedemptionNeverBricked`, `WaitingIsNeverWorse`, `EveryHolderCanExit`, `LastHolderTakesTheRest` | `TypeOK /\ NeverBricked`. `floor(n*h/b) <= n*h/b` gives that the share per base does not fall; a positive balance stays positive as long as n < b. That everybody can exit needs `BaseInCustody` besides: base and TRIBE held by the redeemer together never fall below the initial base, so with the sum of all TRIBE constant the holders never have more than the base left |
| `MerkleRedemptionProofs`, on `RariMerkleRedeemer` | `TypeCorrect`, `SignedBeforeClaimed`, `RedeemedIsInCustody`, `FundingSuffices`, `LedgerIsImplemented` | `TypeOK`, with `SignaturesValid` (a stored signature is the user's), `SignedFirst`, `WithinClaims` (redeemed up to the claim) and `RedeemedHeld`. A batch is followed item by item: what its first n items claim, redeem and pay is shown by induction on n, so that a cToken that is named twice is met with what its first item left. Rounding: the values of the parts of a redemption add up to no more than the value of the whole |
| `MerkleRedemptionProofs`, on `ERC20Dripper` | `DripperTypeCorrect`, `ReleaseSchedule`, `MissedPeriodsAreLost` | `TypeOK /\ RateLimit`: `RateLimit` bounds the drips by the start of the current period, and `TypeOK` that start by the clock |
| `MerkleRedemptionProofs`, on `MerkleRedemption` | `UsersArePaidAtThePace`, `DripsLeaveLittleAtRisk` | `MInv`: the dripper's schedule, and that what the users have and what the redeemer holds are together what it held at first, one amount per drip, and `brought`. Redemptions and transfers among them leave this sum alone, other transfers and withdrawals change both of its sides (`SendStep`), and a refill reads the balance first. `LittleAtRisk` needs nothing but itself: a drip starts `sent` anew, because what was sent before is in the balance that it reads |
| `PermissionsProofs` | `TypeCorrect`, `GivingUpGovernanceIsFinal`, `OnlyAdminsEscalate` | `TypeOK` is enough: the two properties are about one step, by cases of the caller's function |
| `TokenTimelockProofs`, on `TokenTimelock` | `TypeCorrect`, `OnlyVestedIsReleased`, `BeneficiaryNeverLockedOut`, `ClawbackPaysTheVested`, `DelegatedIsBacked` | `TypeOK`, with `Accounted` (until a clawback or an unlock, the balance on record is what was last seen plus what was released, and no less is there now), `DelegateesHold` (each Delegatee contract holds what was delegated), `Delegations` (the total is the sum of the delegations) and `VestedOnly`. `VestedOnly` alone is not inductive: that later deposits are not mistaken for released tokens, and the other way round, is what `Accounted` says. Both curves are monotone in time and in the balance |
| `TokenTimelockProofs`, on `TimelockBurner` | `BurnerReleasesTheVested`, `BurnerClawbackPaysTheVested`, `BurnerIsForEver`, `BurnerKeepsTokensOff` | the invariant of the timelock, whose steps the burner's calls are, and `NothingPending`: a burner that accepted left nobody pending and appoints nobody. The last needs that a delegation which returns does so to the timelock, and that a release pays the beneficiary |
| `SimpleFeiDaiPSMProofs` | `TypeCorrect`, `BackingKept`, `CreatedForDai`, `EveryHolderCanRedeem`, `AllowancesHold` | `TypeOK /\ CirculationCovered`: every action moves `totalSupply - fei[PSM] - dai[PSM]` by no more than `unbacked`. For the holders, `SupplyInv`: the supply is the sum of the balances. For allowances, `ApprovalInv`: what was spent and what may still be is within what the owner approved, and the nonces of accepted permits are behind `nonces`, so that an accepted permit is the first of its nonce. `SpendsWhatWasApproved` alone says nothing of the allowance that is left |
| `GovernorAlphaProofs` | `TypeCorrect`, `OneAtATime`, `ExecutedByVote`, `ProposalsAgeInOrder`, `AlwaysNoticed`, `BurningIsFinal`, `VotesCountOnce`, `QueuedStaysExecutable` | types of timelock and votes, `Noticed` (each entry of the queue was put there, by the history `since`, the minimum delay before its eta), `AllWellFormed` (a proposal has an eta only once its vote is over, and is executed only with one), `LatestKnown` (a live proposal is its proposer's latest) and `Voted` (what ran belongs to an executed proposal, or the guardian ran it: `OnlyThePassed`). For the votes, `TallyInv`: at every past block the votes add up to the supply, and a proposal counts those of its voters at its start block. For execution, `PromiseInv`: the entries of a queued proposal are in the queue or were intercepted, and two queued proposals share an entry only if it was intercepted |
| `ProtocolUpgradesProofs` | `TypeCorrect`, `RolesAreGranted`, `ExecutesAtomically` | for any history of well-formed proposals. `TypeOK`, with `Traced`: whoever holds a role in the saved configuration held it at first or was given it by an executed proposal, and in the middle of a transaction by one of these or the one that runs. `NoPowerFromNowhere` alone says nothing in the middle, where what a revert restores must already be known. For the refinement, `Tracked`: a running transaction has made of the saved facts what its commands so far make of them, and found there what they ask |
| `ProtocolUpgradesProofs`, on `MainnetUpgrades` | `EndsAsConfigured`, `KeepsItsValidation`, `NoReservesTwice`, `RolesCanBeTakenBack` | for any history that meets the assumptions of `UpgradeOrder`, any window and any number of refusals. `Past`, `Counts` and `AdminsHeld`, on the steps of `AtomicUpgrades`; see below |

**Orders of execution.** The run covers the orders of 74 proposals one by one; the theorems say why they all end well.

1. `ExecutesAtomically` replaces the commands by four sets of facts. A lemma for each method (`RoleCommandFacts`, `OracleCommandFacts` and so on) shows that what
   it does to the configuration is what `Adds` and `Drops` say, and that its modifiers give what `Needs` and `Bars` ask; `PartlyMore` adds one command
   to those before it. From here on there are only deployments, whole proposals and vetoes (`AtomicStep`).
2. `Past` is inductive for these. `InOrder`: what has to come before a proposal that was made is settled. `ForcedDone`: what an executed
   proposal depends on was executed. `Sourced`: every fact holds, or does not hold, because of the beginning or of some executed proposal, and no other
   executed one that changes it came later for sure. `Held`: nothing holds that nothing gives. `LastHolds`: what the last one did is still there. That
   every proposal validates is not inductive at all: it says nothing of why a fact holds.
   The step of `ForcedDone` is the one in which `Sourced` is used: a proposal that could be executed found what it needs, and only one proposal can have left that.
3. From `Past`, the facts after proposal `j` lie between `Sure(j)` and `Possible(j)`, and at the end are `FactsAtTheEnd`, where nothing is open. What the
   scripts assert is of two kinds, that something holds and that something does not, so it is true of every configuration between two of
   which it is true (`Within`). `ValidationAssumption` says it of the two bounds of each proposal, `EndAssumption` says of the end that it is the configuration that the
   integration tests compare. These are finite facts about a history with no order of execution in them.
4. `Counts` needs less of the order: a proposal that puts a deposit of the same reserves in the place of another found that other
   counted, and the one that adds without replacing comes after the one that removed (`ReservesAssumption`). `AdminsHeld` keeps for every admin
   role a holder from which no proposal takes it (`Kept`), in the middle of a transaction too, where the command that changes an admin runs before others
   of its proposal.

**Sums.** The sums of the models are `MapThenSumSet` of the community modules, a recursive function on subsets that takes out an
element by `CHOOSE`. `Arithmetic` shows, for every finite set, that the function exists (`SumsFunction`), and that it is an integer, does not depend
on the order, and changes by what one element changes. These lemmas stand on `SubsetInduction`, which is proved for a set of
subsets from the well-foundedness of inclusion: the smallest subset outside of the set contradicts its hypothesis. `NatSetInduction`
is its like for numbers, with which batches are followed.

**Premises.** `FundingSuffices` has the premise that the funding covers the distribution at first, which is the DAO's promise
and not the contract's; `StillCovered` at the start of the run is that premise. `EndsAsConfigured`, `KeepsItsValidation`, `NoReservesTwice` and `RolesCanBeTakenBack` stand on
the assumptions of `UpgradeOrder`, which speak of the constants only (the history and which proposals wait for which); the run has TLC evaluate them for mainnet's history. The theorems on the dripper and on the composition name the assumptions of
these modules as hypotheses, since they reach them by INSTANCE.

Statements of the theorems name the definitions that the runs check, so TLC shows them on an instance and TLAPS for all. Each
inductive invariant was checked by TLC on the instance of its run before it was proved, `Past`, `Counts` and `AdminsHeld` with a window of two.

## What is only model-checked

**Liveness**: `EveryUserSettled`, `EverythingReleased`, `EverythingPassedOn`, `EverythingExecuted`. They need fairness and ENABLED, of
which the prover knows nothing. That the assumptions of `UpgradeOrder` are true of mainnet's history is evaluated by TLC, not proved: they are closed
formulas about seventy proposals.

Every invariant and action property of the passing runs is a theorem, the refinements `ImplementsLedger` and `ExecutedAsWholes` among them.

## What is not modelled

Components of the table above without a module have status `not_modelled` in `PROJECT.json`, with the reason. Within modelled parts:

- FEI's incentive contracts, and the ETH that a transaction of the timelock may carry.
- `CoreRef` is modelled where its modifiers guard a modelled function; `Core.allocateTribe` and the setters of FEI and TRIBE are not.
- GovernorAlpha's limit of ten actions, descriptions and the hash of a proposal's transactions. A proposal's actions are a set: one that
  lists a transaction twice cannot be queued, since `_queueOrRevert` rejects the second.
- Of the proposals: amounts, prices, oracles and texts; calls of contracts outside the protocol, which may only be refused; proposals up to FIP-34
  other than FIP-33, whose descriptions are JSON for an earlier coordinator and which are summed up in the configuration at the start; scripts that only deploy contracts (`fip_bribe`, `fip_cvx`,
  `fuse_withdrawal_guard` and the like), and drafts (`backstop`, `peg_stability_module`, `fip_x`). FIP-33 adds a deposit that FIP-38 deploys, so it is put after it. The admin role with which
  the Fuse contracts were deployed is inferred from what proposals later call on them. The veto is that of the NopeDAO through `POD_VETO_ADMIN`;
  other holders of that role, and the votes themselves, are not there.
- `withdraw` of several deposits is also `whenNotPaused`, while `withdrawERC20` is not, and `addDeposit` and `swapDeposit` ask for an oracle of the
  deposit's token (`CollateralizationOracle.sol:126`): `MayMove` and `MayChangeDeposits` ask for the roles only. No proposal of the history
  withdraws from a paused deposit or adds one whose token has no oracle.
- Of the coordinator: impersonation, time travel and the balances that the simulation forces.
- Reentrancy: tokens are taken to call nobody back, and the transactions of the timelock to call contracts outside of the model.

## How to run

    tlc -workers 2 -config MCTribeRedeemer.cfg MCTribeRedeemer
    tlapm TribeRedeemerProofs.tla

and likewise for the other runs of `PROJECT.json` and the modules named `...Proofs`. `governor_alpha`, `rari_merkle_redeemer`, `merkle_redemption`,
`simple_fei_dai_psm` and `mainnet_upgrades` take one to two minutes, the others seconds. The proofs take seconds to minutes, those about the upgrades the longest.
