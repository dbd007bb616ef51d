-------------------------- MODULE UpgradeCommands --------------------------
(***************************************************************************)
(* The commands a governance proposal is made of (src/types/types.ts and    *)
(* src/proposals/description), and what each does to the configuration of   *)
(* the protocol when a timelock executes it: who holds which role, which    *)
(* deposits the collateralization oracle counts, which addresses a guardian *)
(* holds as safe, what is paused.  Amounts, prices and texts are left out.  *)
(***************************************************************************)
EXTENDS Naturals, FiniteSets, Sequences

(* on: the contract called; arg and to: the role, method or accounts of a   *)
(* call that takes one; who: the accounts it is about.                      *)
Command(op, on, arg, to, who) ==
  [op |-> op, on |-> on, arg |-> arg, to |-> to, who |-> who]

Times(n, command) == [i \in 1 .. n |-> command]

-----------------------------------------------------------------------------
(* Roles: the calls of Core named for a role, those for any role, and those *)
(* on another contract that keeps roles of its own.                         *)
GrantMajor(r, a)  == Command("grantMajor", "core", r, "", {a})
RevokeMajor(r, a) == Command("revokeMajor", "core", r, "", {a})

GrantMinter(a)         == GrantMajor("MINTER_ROLE", a)
GrantPCVController(a)  == GrantMajor("PCV_CONTROLLER_ROLE", a)
GrantGuardian(a)       == GrantMajor("GUARDIAN_ROLE", a)
RevokeMinter(a)        == RevokeMajor("MINTER_ROLE", a)
RevokeBurner(a)        == RevokeMajor("BURNER_ROLE", a)
RevokePCVController(a) == RevokeMajor("PCV_CONTROLLER_ROLE", a)
RevokeGovernor(a)      == RevokeMajor("GOVERN_ROLE", a)

GrantAt(t, r, a)    == Command("grant", t, r, "", {a})
RevokeAt(t, r, a)   == Command("revoke", t, r, "", {a})
Grant(r, a)         == GrantAt("core", r, a)
Revoke(r, a)        == RevokeAt("core", r, a)
Renounce(r, a)      == Command("renounce", "core", r, "", {a})
BecomeAdmin(t, r)   == Command("becomeAdmin", t, r, "", {})
CreateRole(r, admin)   == Command("createRole", "core", r, admin, {})
SetContractAdmin(t, r) == Command("setContractAdminRole", t, r, "", {})

(* CollateralizationOracle                                                  *)
AddDeposits(S)         == Command("addDeposits", "collateralizationOracle", "", "", S)
RemoveDeposits(S)      == Command("removeDeposits", "collateralizationOracle", "", "", S)
SwapDeposit(old, new)  == Command("swapDeposit", "collateralizationOracle", old, new, {})

(* PCVGuardian                                                              *)
SetSafe(g, S)         == Command("setSafeAddresses", g, "", "", S)
UnsetSafe(g, S)       == Command("unsetSafeAddresses", g, "", "", S)
SafeMove(g, from, to) == Command("withdrawToSafeAddress", g, from, to, {})

(* CoreRef and PegStabilityModule                                           *)
Pause(t)       == Command("pause", t, "all", "", {})
Unpause(t)     == Command("unpause", t, "all", "", {})
PauseMint(t)   == Command("pauseOne", t, "mint", "", {})
PauseRedeem(t) == Command("pauseOne", t, "redeem", "", {})

(* Movements of reserves, by a controller and directly.                     *)
MoveBy(controller, from, to) == Command("withdrawRatio", controller, from, to, {})
Move(from, to)               == MoveBy("ratioPCVControllerV2", from, to)
Withdraw(from, to)           == Command("withdraw", from, "withdraw", to, {})
MoverWithdraw(t)             == Command("moverWithdrawRatio", t, "PCV_CONTROLLER_ROLE", "", {})

(* Calls that change nothing of the configuration but that its state can    *)
(* refuse, named for the modifier of the method.                            *)
Mint(to)                    == Command("mint", "fei", "mint", to, {})
WhenNotPaused(t, method)    == Command("whenNotPaused", t, method, "", {})
Swap(t)                     == Command("adminWhenNotPaused", t, "swap", "", {})
ForceSwap(t)                == Command("governorWhenNotPaused", t, "forceSwap", "", {})
ByGovernor(t, method)       == Command("onlyGovernor", t, method, "", {})
ByGovernorOrAdmin(t, method) == Command("onlyGovernorOrAdmin", t, method, "", {})
ByAnyGuardian(t, method)    == Command("isGovernorOrGuardianOrAdmin", t, method, "", {})
ByController(t, method)     == Command("onlyPCVController", t, method, "", {})
ByRole(R, t, method)        == Command("hasAnyOfRoles", t, method, "", R)

SafeMovers == {"GOVERN_ROLE", "PCV_SAFE_MOVER_ROLE", "GUARDIAN_ROLE"}
PodAdmins  == {"GOVERN_ROLE", "POD_ADMIN"}

(* A call that nothing of the configuration decides.                        *)
Call(t, method) == Command("call", t, method, "", {})

-----------------------------------------------------------------------------
NamesAccounts == {"withdrawRatio", "withdrawToSafeAddress", "swapDeposit"}

(* The contracts a command names, all of which must exist.                  *)
Mentions(k) ==
  {k.on} \cup (IF k.op = "hasAnyOfRoles" THEN {} ELSE k.who)
         \cup (IF k.op \in NamesAccounts THEN {k.arg, k.to} ELSE {})
         \cup (IF k.op \in {"withdraw", "mint"} THEN {k.to} ELSE {})

(* The modifiers of CoreRef and Permissions: c is the configuration, x the  *)
(* timelock that calls.                                                     *)
HasRole(c, r, x) == x \in c.roles[r]

IsGovernor(c, x) == HasRole(c, "GOVERN_ROLE", x)

GuardianOrGovernor(c, x) == IsGovernor(c, x) \/ HasRole(c, "GUARDIAN_ROLE", x)

(* The role a contract gives the powers of its admin: that of the governor  *)
(* unless its constructor or a proposal chose another.                      *)
AdminRole(c, t) == IF t \in DOMAIN c.contractAdmin THEN c.contractAdmin[t] ELSE "GOVERN_ROLE"

GovernorOrAdmin(c, t, x) == IsGovernor(c, x) \/ HasRole(c, AdminRole(c, t), x)

IsPaused(c, t) == <<t, "all">> \in c.paused

(* A role that was not created yet has the default admin, whom nobody is.   *)
AdministersRole(c, r, x) ==
  c.roleAdmin[r] \in DOMAIN c.roles /\ HasRole(c, c.roleAdmin[r], x)

-----------------------------------------------------------------------------
(* Whether x may execute command k: the modifiers and requires of its       *)
(* method.                                                                  *)
MayChangeRoles(c, x, k) ==
  \/ k.op \in {"grantMajor", "revokeMajor"} /\ IsGovernor(c, x) /\ AdministersRole(c, k.arg, x)
  \/ k.op \in {"grant", "revoke"} /\ AdministersRole(c, k.arg, x)
  \/ k.op = "renounce" /\ k.who = {x}
  \/ k.op \in {"createRole", "setContractAdminRole"} /\ IsGovernor(c, x)
  \/ k.op = "becomeAdmin" /\ k.on = "optimisticTimelock" /\ GuardianOrGovernor(c, x)
  \/ k.op = "becomeAdmin" /\ k.on # "optimisticTimelock" /\ GovernorOrAdmin(c, k.on, x)

MayChangeDeposits(c, x, k) ==
  /\ GovernorOrAdmin(c, "collateralizationOracle", x)
  /\ \/ k.op = "addDeposits" /\ k.who \cap c.oracle = {}
     \/ k.op = "removeDeposits" /\ k.who \subseteq c.oracle
     \/ k.op = "swapDeposit" /\ k.arg \in c.oracle /\ k.to \notin c.oracle \ {k.arg}

MayChangeSafe(c, x, k) ==
  \/ /\ k.op = "setSafeAddresses"
     /\ IsGovernor(c, x) \/ HasRole(c, "PCV_GUARDIAN_ADMIN_ROLE", x)
     /\ k.who \cap c.safe[k.on] = {}
  \/ /\ k.op = "unsetSafeAddresses"
     /\ GuardianOrGovernor(c, x) \/ HasRole(c, "PCV_GUARDIAN_ADMIN_ROLE", x)
     /\ k.who \subseteq c.safe[k.on]

MayPause(c, x, k) ==
  \/ k.op = "pause" /\ GuardianOrGovernor(c, x) /\ ~IsPaused(c, k.on)
  \/ k.op = "unpause" /\ GuardianOrGovernor(c, x) /\ IsPaused(c, k.on)
  \/ k.op = "pauseOne" /\ (GuardianOrGovernor(c, x) \/ GovernorOrAdmin(c, k.on, x))

(* A controller withdraws as itself; the guardian also unpauses the source. *)
MayMove(c, x, k) ==
  \/ /\ k.op = "withdrawRatio"
     /\ HasRole(c, "PCV_CONTROLLER_ROLE", x)
     /\ HasRole(c, "PCV_CONTROLLER_ROLE", k.on)
     /\ ~IsPaused(c, k.on)
  \/ k.op = "withdraw" /\ HasRole(c, "PCV_CONTROLLER_ROLE", x)
  \/ /\ k.op = "moverWithdrawRatio"
     /\ ~IsPaused(c, k.on)
     /\ HasRole(c, "PCV_CONTROLLER_ROLE", k.on)
     /\ HasRole(c, "PCV_CONTROLLER_ROLE", "ratioPCVControllerV2")
     /\ ~IsPaused(c, "ratioPCVControllerV2")
  \/ /\ k.op = "withdrawToSafeAddress"
     /\ \E r \in SafeMovers : HasRole(c, r, x)
     /\ k.to \in c.safe[k.on]
     /\ HasRole(c, "PCV_CONTROLLER_ROLE", k.on)
     /\ IsPaused(c, k.arg) => GuardianOrGovernor(c, k.on)

MayCall(c, x, k) ==
  \/ k.op = "call"
  \/ k.op = "mint" /\ HasRole(c, "MINTER_ROLE", x)
  \/ k.op = "whenNotPaused" /\ ~IsPaused(c, k.on)
  \/ k.op = "adminWhenNotPaused" /\ GovernorOrAdmin(c, k.on, x) /\ ~IsPaused(c, k.on)
  \/ k.op = "governorWhenNotPaused" /\ IsGovernor(c, x) /\ ~IsPaused(c, k.on)
  \/ k.op = "onlyGovernor" /\ IsGovernor(c, x)
  \/ k.op = "onlyGovernorOrAdmin" /\ GovernorOrAdmin(c, k.on, x)
  \/ k.op = "isGovernorOrGuardianOrAdmin" /\ (GuardianOrGovernor(c, x) \/ GovernorOrAdmin(c, k.on, x))
  \/ k.op = "onlyPCVController" /\ HasRole(c, "PCV_CONTROLLER_ROLE", x)
  \/ k.op = "hasAnyOfRoles" /\ \E r \in k.who : HasRole(c, r, x)

Permitted(c, x, k) ==
  \/ MayChangeRoles(c, x, k)
  \/ MayChangeDeposits(c, x, k)
  \/ MayChangeSafe(c, x, k)
  \/ MayPause(c, x, k)
  \/ MayMove(c, x, k)
  \/ MayCall(c, x, k)

-----------------------------------------------------------------------------
(* What validations ask of a configuration.                                 *)
HoldersOf(c, r, S)       == S \subseteq c.roles[r]
NoneHolds(c, r, S)       == S \cap c.roles[r] = {}
AdministeredBy(c, r, S)  == \A t \in S : AdminRole(c, t) = r
Counted(c, S)            == S \subseteq c.oracle
NotCounted(c, S)         == S \cap c.oracle = {}
AllPaused(c, kind, S)     == \A t \in S : <<t, kind>> \in c.paused
NothingPaused(c, kind, S) == \A t \in S : <<t, kind>> \notin c.paused
=============================================================================
