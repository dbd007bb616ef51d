---------------------------- MODULE UpgradeFacts ----------------------------
(***************************************************************************)
(* The configuration of the protocol as a set of facts, what every command  *)
(* and every proposal adds to them and takes from them, and the promise     *)
(* that a proposal does so in one step.                                     *)
(***************************************************************************)
EXTENDS ProtocolUpgrades

(* Who holds a role, which role administers a role or a contract, which     *)
(* deposits count, which addresses are safe, what is paused.                *)
Facts(c) ==
  (UNION {{<<"role", r, a>> : a \in c.roles[r]} : r \in Roles})
  \cup {<<"roleAdmin", r, c.roleAdmin[r]>> : r \in Roles}
  \cup {<<"contractAdmin", t, c.contractAdmin[t]>> : t \in Administered}
  \cup {<<"deposit", "counted", a>> : a \in c.oracle}
  \cup (UNION {{<<"safe", g, a>> : a \in c.safe[g]} : g \in Guardians})
  \cup {<<"paused", p[1], p[2]>> : p \in c.paused}

(* The facts command k of executor x adds,                                  *)
Adds(x, k) ==
  CASE k.op \in {"grantMajor", "grant"} -> {<<"role", k.arg, a>> : a \in k.who}
    [] k.op = "becomeAdmin"             -> {<<"role", k.arg, x>>}
    [] k.op = "createRole"              -> {<<"roleAdmin", k.arg, k.to>>}
    [] k.op = "setContractAdminRole"    -> {<<"contractAdmin", k.on, k.arg>>}
    [] k.op = "addDeposits"             -> {<<"deposit", "counted", a>> : a \in k.who}
    [] k.op = "swapDeposit"             -> {<<"deposit", "counted", k.to>>}
    [] k.op = "setSafeAddresses"        -> {<<"safe", k.on, a>> : a \in k.who}
    [] k.op \in {"pause", "pauseOne"}   -> {<<"paused", k.on, k.arg>>}
    [] OTHER -> {}

(* the facts it removes,                                                    *)
Drops(k) ==
  CASE k.op \in {"revokeMajor", "revoke", "renounce"} -> {<<"role", k.arg, a>> : a \in k.who}
    [] k.op = "moverWithdrawRatio"    -> {<<"role", k.arg, k.on>>}
    [] k.op = "createRole" ->
         {<<"roleAdmin", k.arg, r>> : r \in (Roles \cup {NoRole}) \ {k.to}}
    [] k.op = "setContractAdminRole" -> {<<"contractAdmin", k.on, r>> : r \in Roles \ {k.arg}}
    [] k.op = "removeDeposits"        -> {<<"deposit", "counted", a>> : a \in k.who}
    [] k.op = "swapDeposit"           -> {<<"deposit", "counted", a>> : a \in {k.arg} \ {k.to}}
    [] k.op = "unsetSafeAddresses"    -> {<<"safe", k.on, a>> : a \in k.who}
    [] k.op = "unpause"               -> {<<"paused", k.on, k.arg>>}
    [] k.op = "withdrawToSafeAddress" -> {<<"paused", k.arg, "all">>}
    [] OTHER -> {}

(* those its contract requires,                                             *)
Needs(k) ==
  CASE k.op \in {"removeDeposits", "unsetSafeAddresses", "unpause"} -> Drops(k)
    [] k.op = "swapDeposit" -> {<<"deposit", "counted", k.arg>>}
    [] OTHER -> {}

(* and those it refuses.                                                    *)
Bars(k) ==
  CASE k.op \in {"addDeposits", "setSafeAddresses", "pause"} -> Adds("", k)
    [] k.op = "swapDeposit" -> {<<"deposit", "counted", a>> : a \in {k.to} \ {k.arg}}
    [] OTHER -> {}

Touches(x, k) == Adds(x, k) \cup Drops(k)

-----------------------------------------------------------------------------
(* What the first n commands of proposal i do together.                     *)
By(i)    == History[i].by
Cmd(i, n) == History[i].commands[n]

GivenUpTo(i, n) ==
  UNION {{f \in Adds(By(i), Cmd(i, m)) : \A l \in (m + 1) .. n : f \notin Drops(Cmd(i, l))} :
         m \in 1 .. n}

TakenUpTo(i, n) ==
  UNION {{f \in Drops(Cmd(i, m)) : \A l \in (m + 1) .. n : f \notin Adds(By(i), Cmd(i, l))} :
         m \in 1 .. n}

NeededUpTo(i, n) ==
  UNION {{f \in Needs(Cmd(i, m)) : \A l \in 1 .. (m - 1) : f \notin Touches(By(i), Cmd(i, l))} :
         m \in 1 .. n}

BarredUpTo(i, n) ==
  UNION {{f \in Bars(Cmd(i, m)) : \A l \in 1 .. (m - 1) : f \notin Touches(By(i), Cmd(i, l))} :
         m \in 1 .. n}

Size(i) == Len(History[i].commands)

Given  == [i \in Proposals |-> GivenUpTo(i, Size(i))]
Taken  == [i \in Proposals |-> TakenUpTo(i, Size(i))]
Needed == [i \in Proposals |-> NeededUpTo(i, Size(i))]
Barred == [i \in Proposals |-> BarredUpTo(i, Size(i))]

(* A guardian deployed with the list of another copies its safe addresses.  *)
Copies ==
  [i \in Proposals |->
    UNION {{<< <<"safe", CopiedFrom[g], a>>, <<"safe", g, a>> >> : a \in Accounts} :
           g \in DOMAIN CopiedFrom \cap History[i].deploys}]

(* j is not made before i is settled.                                       *)
Before(i, j) == i < j /\ (i + Window <= j \/ <<Name(i), Name(j)>> \in Awaited)

Order == {p \in Proposals \X Proposals : Before(p[1], p[2])}

VetoableProposal == {i \in Proposals : Name(i) \in Vetoable}

(* A proposal is executed as a whole or leaves no trace.                    *)
Atomic == INSTANCE AtomicUpgrades WITH
  Count <- Len(History), Start <- Facts(Genesis), Vetoable <- VetoableProposal,
  facts <- Facts(saved)

(* The configuration between transactions changes only by a deployment and  *)
(* by whole proposals, each of which finds the deposits, safe addresses and *)
(* pauses it expects: a refused command, one of an external contract too,   *)
(* undoes those before it (simulateTimelockProposal).                       *)
ExecutedAsWholes == Atomic!Spec
=============================================================================
