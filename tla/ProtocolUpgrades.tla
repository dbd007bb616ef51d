-------------------------- MODULE ProtocolUpgrades --------------------------
(***************************************************************************)
(* The life of governance proposals (src/scripts/utils and the upgrade      *)
(* coordinator of src/test/integration/setup): the contracts of a proposal  *)
(* are deployed, it is proposed, and after its delay a timelock executes    *)
(* its commands in one transaction, all of them or none.  Several proposals *)
(* are on their way at once, each written against the configuration its     *)
(* authors expected.                                                        *)
(***************************************************************************)
EXTENDS UpgradeCommands

CONSTANTS
  History,     \* the proposals, in the order they are made
  Roles, Accounts, Administered, Guardians,
  Genesis,     \* the configuration before the first of them
  Existing,    \* the contracts deployed before the first of them
  CopiedFrom,  \* the guardians deployed with the safe list of another
  Awaited,     \* pairs: b is not made before a is executed
  Vetoable,    \* the proposals the NopeDAO may veto
  Window,      \* how many proposals are on their way at once, at most
  MaxFaults    \* how often an external contract refuses

Proposals == 1 .. Len(History)
NoRole    == "none"

Configurations ==
  [roles : [Roles -> SUBSET Accounts], roleAdmin : [Roles -> Roles \cup {NoRole}],
   contractAdmin : [Administered -> Roles], oracle : SUBSET Accounts,
   safe : [Guardians -> SUBSET Accounts],
   paused : SUBSET (Accounts \X {"all", "mint", "redeem"})]

RoleCommands == {"grantMajor", "revokeMajor", "grant", "revoke", "renounce", "becomeAdmin",
                 "createRole", "setContractAdminRole", "moverWithdrawRatio"}

(* The roles, contracts and guardians a command names exist.                *)
WellFormed(k) ==
  /\ k.op \in RoleCommands => k.arg \in Roles
  /\ k.op = "createRole" => k.to \in Roles
  /\ k.op = "setContractAdminRole" => k.on \in Administered
  /\ k.op \in {"swapDeposit", "withdrawToSafeAddress"} => {k.arg, k.to} \subseteq Accounts
  /\ k.op \in {"pause", "unpause"} => k.arg = "all"
  /\ k.op = "pauseOne" => k.arg \in {"mint", "redeem"}
  /\ k.op \in {"setSafeAddresses", "unsetSafeAddresses", "withdrawToSafeAddress"} =>
       k.on \in Guardians
  /\ k.op # "hasAnyOfRoles" => k.who \subseteq Accounts

AllCommands ==
  {k \in [op : STRING, on : Accounts, arg : STRING, to : STRING, who : SUBSET STRING] :
     WellFormed(k)}

ASSUME HistoryAssumption ==
  /\ History \in Seq([name : STRING, by : Accounts, deploys : SUBSET Accounts,
                      commands : Seq(AllCommands)])
  /\ Genesis \in Configurations
  /\ DOMAIN CopiedFrom \subseteq Guardians
  /\ \A g \in DOMAIN CopiedFrom : CopiedFrom[g] \in Guardians
  /\ Window \in Nat \ {0} /\ MaxFaults \in Nat

VARIABLES
  config,    \* the configuration, in the middle of a transaction too
  saved,     \* the configuration before the transaction
  tx,        \* the proposal that executes and its next command
  proposed,  \* how many proposals were made
  executed, vetoed,
  failed,    \* the proposals that reverted on this configuration
  last,      \* the proposal executed last
  faults

progress == <<proposed, executed, vetoed, failed, last, faults>>
vars     == <<config, saved, tx, progress>>

Idle == [proposal |-> 0, next |-> 0]

Init ==
  /\ config = Genesis /\ saved = Genesis
  /\ tx = Idle
  /\ proposed = 0
  /\ executed = {} /\ vetoed = {} /\ failed = {}
  /\ last = 0
  /\ faults = 0

-----------------------------------------------------------------------------
Settled == executed \cup vetoed
Pending == (1 .. proposed) \ Settled

Name(i) == History[i].name

Deployed(n) == Existing \cup UNION {History[i].deploys : i \in 1 .. n}

(* loadEnvironment deploys and knows the contracts of a proposal before it  *)
(* looks its commands up by name.                                           *)
Known(i) == \A n \in DOMAIN History[i].commands :
              Mentions(History[i].commands[n]) \subseteq Deployed(i)

DeployedEmpty(c, contracts) ==   \* mutant: the constructor gets no list
  [c EXCEPT !.safe = [g \in Guardians |-> IF g \in contracts THEN {} ELSE c.safe[g]]]

(* The second guardian's constructor takes the list of the first as it is   *)
(* when it is deployed.                                                     *)
AfterDeployment(c, contracts) ==
  [c EXCEPT !.safe = [g \in Guardians |->
     IF g \in contracts /\ g \in DOMAIN CopiedFrom THEN c.safe[CopiedFrom[g]] ELSE c.safe[g]]]

(* A proposal is deployed and made: any number of commands, on contracts    *)
(* that exist.                                                              *)
Propose ==
  /\ tx = Idle
  /\ proposed < Len(History)
  /\ \A i \in Pending : proposed + 1 < i + Window
  /\ Known(proposed + 1)
  /\ \A i \in Pending : <<Name(i), Name(proposed + 1)>> \notin Awaited
  /\ proposed' = proposed + 1
  /\ config' = AfterDeployment(config, History[proposed + 1].deploys)
  /\ saved' = config'
  /\ UNCHANGED <<tx, executed, vetoed, failed, last, faults>>

(* A proposal that would revert is not sent again before something changed. *)
Begin(i) ==
  /\ tx = Idle
  /\ i \in Pending \ failed
  /\ tx' = [proposal |-> i, next |-> 1]
  /\ UNCHANGED <<config, saved, progress>>

-----------------------------------------------------------------------------
Executor == History[tx.proposal].by
Commands == History[tx.proposal].commands
Running  == tx # Idle /\ tx.next <= Len(Commands)
Current  == Commands[tx.next]

(* A command of these methods is next and the contract accepts it.          *)
Accepted(ops) ==
  /\ Running
  /\ Current.op \in ops
  /\ Permitted(config, Executor, Current)
  /\ tx' = [tx EXCEPT !.next = @ + 1]
  /\ UNCHANGED <<saved, progress>>

GrantRole ==
  /\ Accepted({"grantMajor", "grant"})
  /\ config' = [config EXCEPT !.roles[Current.arg] = @ \cup Current.who]

RevokeRole ==
  /\ Accepted({"revokeMajor", "revoke", "renounce"})
  /\ config' = [config EXCEPT !.roles[Current.arg] = @ \ Current.who]

BecomeAdminOf ==
  /\ Accepted({"becomeAdmin"})
  /\ config' = [config EXCEPT !.roles[Current.arg] = @ \cup {Executor}]

AdminsOfEachOther ==   \* mutant: the admin comes under the role as well
  /\ Accepted({"createRole"})
  /\ config' = [config EXCEPT !.roleAdmin[Current.arg] = Current.to,
                              !.roleAdmin[Current.to] = Current.arg]

SetRoleAdmin ==
  /\ Accepted({"createRole"})
  /\ config' = [config EXCEPT !.roleAdmin[Current.arg] = Current.to]

SetContractAdminRole ==
  /\ Accepted({"setContractAdminRole"})
  /\ config' = [config EXCEPT !.contractAdmin[Current.on] = Current.arg]

Deposits ==
  /\ Accepted({"addDeposits", "removeDeposits"})
  /\ config' = [config EXCEPT !.oracle =
       IF Current.op = "addDeposits" THEN @ \cup Current.who ELSE @ \ Current.who]

SwapByAdding ==   \* mutant: the old deposit stays
  /\ Accepted({"swapDeposit"})
  /\ config' = [config EXCEPT !.oracle = @ \cup {Current.to}]

Swaps ==
  /\ Accepted({"swapDeposit"})
  /\ config' = [config EXCEPT !.oracle = (@ \ {Current.arg}) \cup {Current.to}]

SafeAddresses ==
  /\ Accepted({"setSafeAddresses", "unsetSafeAddresses"})
  /\ config' = [config EXCEPT !.safe[Current.on] =
       IF Current.op = "setSafeAddresses" THEN @ \cup Current.who ELSE @ \ Current.who]

Pauses ==
  /\ Accepted({"pause", "unpause", "pauseOne"})
  /\ config' = [config EXCEPT !.paused =
       IF Current.op = "unpause" THEN @ \ {<<Current.on, Current.arg>>}
       ELSE @ \cup {<<Current.on, Current.arg>>}]

(* The guardian unpauses the deposit it withdraws from.                     *)
SafeMoves ==
  /\ Accepted({"withdrawToSafeAddress"})
  /\ config' = [config EXCEPT !.paused = @ \ {<<Current.arg, "all">>}]

MoverStays ==   \* mutant: without the renunciation
  /\ Accepted({"moverWithdrawRatio"})
  /\ UNCHANGED config

(* The delayed mover renounces its role after the one movement.             *)
MoverRetires ==
  /\ Accepted({"moverWithdrawRatio"})
  /\ config' = [config EXCEPT !.roles[Current.arg] = @ \ {Current.on}]

OtherCalls ==
  /\ Accepted({"withdrawRatio", "withdraw", "mint", "whenNotPaused", "adminWhenNotPaused",
            "governorWhenNotPaused", "onlyGovernor", "onlyGovernorOrAdmin",
            "isGovernorOrGuardianOrAdmin", "onlyPCVController", "hasAnyOfRoles", "call"})
  /\ UNCHANGED config

Execute ==
  \/ GrantRole \/ RevokeRole \/ BecomeAdminOf \/ SetRoleAdmin \/ SetContractAdminRole
  \/ Deposits \/ Swaps \/ SafeAddresses \/ Pauses \/ SafeMoves \/ MoverRetires \/ OtherCalls

-----------------------------------------------------------------------------
Commit ==
  /\ tx # Idle /\ tx.next > Len(Commands)
  /\ tx' = Idle
  /\ saved' = config
  /\ executed' = executed \cup {tx.proposal}
  /\ last' = tx.proposal
  /\ failed' = {}
  /\ UNCHANGED <<config, proposed, vetoed, faults>>

RevertLast ==   \* mutant: only the refused command is undone
  /\ Running
  /\ ~Permitted(config, Executor, Current)
  /\ tx' = Idle
  /\ saved' = config
  /\ failed' = failed \cup {tx.proposal}
  /\ UNCHANGED <<config, proposed, executed, vetoed, last, faults>>

(* A command that its contract refuses undoes the transaction.              *)
Revert ==
  /\ Running
  /\ ~Permitted(config, Executor, Current)
  /\ tx' = Idle
  /\ config' = saved
  /\ failed' = failed \cup {tx.proposal}
  /\ UNCHANGED <<saved, proposed, executed, vetoed, last, faults>>

(* An external protocol refuses a call for reasons of its own; the proposal *)
(* is executed later.                                                       *)
Refused ==
  /\ Running
  /\ Current.op \in {"call", "withdraw", "withdrawRatio", "whenNotPaused"}
  /\ faults < MaxFaults
  /\ faults' = faults + 1
  /\ tx' = Idle
  /\ UNCHANGED <<saved, proposed, executed, vetoed, failed, last>>

FaultKeeping ==   \* mutant: what was executed before the refusal stays
  /\ Refused
  /\ UNCHANGED config

Fault ==
  /\ Refused
  /\ config' = saved

Veto(i) ==
  /\ tx = Idle
  /\ i \in Pending
  /\ Name(i) \in Vetoable
  /\ "nopeDAO" \in config.roles["POD_VETO_ADMIN"]
  /\ vetoed' = vetoed \cup {i}
  /\ UNCHANGED <<config, saved, tx, proposed, executed, failed, last, faults>>

Progress ==
  \/ Propose
  \/ \E i \in Proposals : Begin(i)
  \/ Execute
  \/ Commit
  \/ Revert

Next ==
  \/ Progress
  \/ Fault
  \/ \E i \in Proposals : Veto(i)

(* The coordinator goes on to the next step, and whoever waits for a passed *)
(* proposal may execute it.                                                 *)
Fairness == WF_vars(Progress)

Spec     == Init /\ [][Next]_vars
FairSpec == Spec /\ Fairness

-----------------------------------------------------------------------------
(* Transactions run within a proposal that is waiting.                      *)
TypeOK ==
  /\ config \in Configurations /\ saved \in Configurations
  /\ \/ tx = Idle
     \/ /\ tx \in [proposal : Proposals, next : Nat \ {0}]
        /\ tx.proposal \in Pending
        /\ tx.next <= Len(Commands) + 1
  /\ proposed \in 0 .. Len(History)
  /\ executed \subseteq 1 .. proposed /\ vetoed \subseteq 1 .. proposed
  /\ failed \subseteq 1 .. proposed
  /\ last \in 0 .. proposed
  /\ faults \in 0 .. MaxFaults

Between == tx = Idle
Done    == Between /\ Settled = Proposals

(* Who a command gives a role to.                                           *)
Receivers(i, k) == IF k.op = "becomeAdmin" THEN {History[i].by} ELSE k.who

Gives(i, r, a) ==
  \E n \in DOMAIN History[i].commands :
    LET k == History[i].commands[n] IN
    k.op \in {"grantMajor", "grant", "becomeAdmin"} /\ k.arg = r /\ a \in Receivers(i, k)

Grants == [i \in Proposals |-> {g \in Roles \X Accounts : Gives(i, g[1], g[2])}]

(* Whoever holds a role between two transactions held it at the beginning   *)
(* or was given it by a proposal that was executed: neither a proposal that *)
(* was vetoed nor one that was undone leaves a holder behind                *)
(* (simulateTimelockProposal executes a batch as one transaction).          *)
NoPowerFromNowhere ==
  Between => \A r \in Roles : \A a \in config.roles[r] \ Genesis.roles[r] :
    \E i \in executed : <<r, a>> \in Grants[i]

(* Every proposal is executed or vetoed in the end: none waits for ever for *)
(* a role, a pause or a deposit that nothing restores.                      *)
EverythingExecuted == <>[]Done
=============================================================================
