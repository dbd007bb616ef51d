---------------------------- MODULE UpgradeOrder ----------------------------
(***************************************************************************)
(* What can be said of a history of proposals before any of them is         *)
(* executed: which must be executed before which, which may be the last to  *)
(* have changed a fact, and so which facts hold for sure, and which may     *)
(* hold, when one was just executed and when all were.                      *)
(***************************************************************************)
EXTENDS MainnetUpgrades, UpgradeFacts

AtFirst == Facts(Genesis)

Unavoidable == Proposals \ VetoableProposal

Changes == UNION {{<<i, f>> : f \in Given[i] \cup Taken[i]} : i \in Proposals}

Changers(f) == {i \in Proposals : <<i, f>> \in Changes}

Leaves(s) == IF s = 0 THEN AtFirst ELSE Given[s]

(* What may have changed f last when all of a set of proposals were         *)
(* executed: not what one of these came after for sure.                     *)
Lasts(f, past, order) ==
  LET changed == Changers(f) IN
  {s \in {0} \cup changed :
     \A k \in changed \cap past : k # s => s # 0 /\ <<s, k>> \notin order}

Copied(f) == f[1] = "safe" /\ f[2] \in DOMAIN CopiedFrom

Original(f) == <<"safe", CopiedFrom[f[2]], f[3]>>

-----------------------------------------------------------------------------
Earlier(j, order) == {k \in Unavoidable : <<k, j>> \in order}

Candidates(f, j) == Lasts(f, Earlier(j, Order), Order) \ {j}

(* j needs or refuses a fact that i alone can have left as it wants it, so  *)
(* that it reverts until i is executed.                                     *)
Prerequisites(j) ==
  {i \in Proposals :
     \/ \E f \in Needed[j] : ~Copied(f) /\ {s \in Candidates(f, j) : f \in Leaves(s)} = {i}
     \/ \E f \in Barred[j] : ~Copied(f) /\ {s \in Candidates(f, j) : f \notin Leaves(s)} = {i}}

Forced == UNION {{<<i, j>> : i \in Prerequisites(j)} : j \in Proposals}

Ordered == Order \cup Forced

-----------------------------------------------------------------------------
(* The proposal that deploys the guardian of a copied fact, and what may    *)
(* have changed the original last when it does.                             *)
Deployer(f) == CHOOSE d \in Proposals : f[2] \in History[d].deploys

AtDeployment(f) ==
  LET d == Deployer(f) IN
  {s \in Lasts(Original(f), Earlier(d, Order), Ordered) : s < d}

(* Whether f may hold, and whether it may not, when s changed it last; a    *)
(* copied fact that nothing changed is what the original was at the         *)
(* deployment.                                                              *)
MayHold(f, s, deployed) ==
  IF s = 0 /\ Copied(f)
  THEN (~deployed /\ f \in AtFirst) \/ \E t \in AtDeployment(f) : Original(f) \in Leaves(t)
  ELSE f \in Leaves(s)

MayLack(f, s, deployed) ==
  IF s = 0 /\ Copied(f)
  THEN (~deployed /\ f \notin AtFirst) \/ \E t \in AtDeployment(f) : Original(f) \notin Leaves(t)
  ELSE f \notin Leaves(s)

EverHeld ==
  LET H == AtFirst \cup UNION {Given[i] : i \in Proposals} IN
  H \cup {p[2] : p \in {q \in UNION {Copies[i] : i \in Proposals} : q[1] \in H}}

(* What may have changed f last when j was just executed; the guardian of f *)
(* was deployed for sure if j is the one that deploys it or comes after it. *)
LastsAfter(f, j) ==
  IF j \in Changers(f) THEN {j}
  ELSE {s \in Lasts(f, Earlier(j, Ordered), Ordered) : <<j, s>> \notin Ordered}

DeployedBy(f, j) == Copied(f) /\ (Deployer(f) = j \/ <<Deployer(f), j>> \in Order)

Possible(j) ==
  {f \in EverHeld : \E s \in LastsAfter(f, j) : MayHold(f, s, DeployedBy(f, j))}

Sure(j) ==
  {f \in EverHeld : \A s \in LastsAfter(f, j) : ~MayLack(f, s, DeployedBy(f, j))}

(* And when all proposals are settled and those of V were vetoed.           *)
LastsAtTheEnd(f, V) == Lasts(f, Proposals \ V, Ordered) \ V

FactsAtTheEnd(V) ==
  {f \in EverHeld : \E s \in LastsAtTheEnd(f, V) : MayHold(f, s, TRUE)}

OpenAtTheEnd(V) ==
  {f \in FactsAtTheEnd(V) : \E s \in LastsAtTheEnd(f, V) : MayLack(f, s, TRUE)}

-----------------------------------------------------------------------------
(* The configuration in which the facts F hold, and for the admins those    *)
(* of A.                                                                    *)
Third(F, part, key) == {f[3] : f \in {g \in F : g[1] = part /\ g[2] = key}}

Only(S) == IF \E x \in S : S = {x} THEN CHOOSE x \in S : TRUE ELSE "unknown"

Shown(F, A) ==
  [roles         |-> [r \in Roles |-> Third(F, "role", r)],
   roleAdmin     |-> [r \in Roles |-> Only(Third(A, "roleAdmin", r))],
   contractAdmin |-> [t \in Administered |-> Only(Third(A, "contractAdmin", t))],
   oracle        |-> Third(F, "deposit", "counted"),
   safe          |-> [g \in Guardians |-> Third(F, "safe", g)],
   paused        |-> {<<f[2], f[3]>> : f \in {g \in F : g[1] = "paused"}}]

AtLeast(j)  == LET A == Sure(j) IN Shown(A, A)
AtMost(j)   == LET F == Possible(j)  A == Sure(j) IN Shown(F, A)
AtTheEnd(V) == LET F == FactsAtTheEnd(V) IN Shown(F, F)

-----------------------------------------------------------------------------
(* Of deposits that report the same reserves, those a proposal adds and     *)
(* those it replaces or removes.                                            *)
Gains(i, S) == {a \in S : <<"deposit", "counted", a>> \in Given[i] \ Needed[i]}
Loses(i, S) == {a \in S : <<"deposit", "counted", a>> \in (Taken[i] \cap Needed[i]) \ Given[i]}

Adders(S)   == {i \in Proposals : Gains(i, S) # {} /\ Loses(i, S) = {}}
Removers(S) == {i \in Proposals : Loses(i, S) # {} /\ Gains(i, S) = {}}

AtMostOne(S) == \A x, y \in S : x = y

(* Holders that no proposal takes a role from and that have it when s, or   *)
(* the beginning, makes it the admin of another.                            *)
Kept(f) == \A i \in Proposals : f \notin Taken[i]

KeepsHolder(q, s) ==
  \E a \in Accounts \ {"core"} : \E k \in {0, s} \cup Earlier(s, Ordered) :
    <<"role", q, a>> \in Leaves(k) /\ Kept(<<"role", q, a>>)

NeverHeld(r) == \A f \in EverHeld : ~(f[1] = "role" /\ f[2] = r)

-----------------------------------------------------------------------------
(* What the theorems ask of a history; each is evaluated for mainnet's.     *)

(* The roles and guardians the scripts name are there; neither "none" nor   *)
(* "unknown" is a role.                                                     *)
ASSUME NamesAssumption ==
  /\ CoreRoles \cup {"optimisticTimelock.EXECUTOR_ROLE", "tribalCouncilTimelock.EXECUTOR_ROLE",
                     "AUTO_REWARDS_DISTRIBUTOR_ROLE"} \subseteq Roles
  /\ {"pcvGuardianV1", "pcvGuardian"} \subseteq Guardians
  /\ {NoRole, "unknown"} \cap Roles = {}
  /\ IsFiniteSet(Accounts)

(* A list that is copied is no copy itself; one proposal deploys the copy,  *)
(* and none before it changes it.                                           *)
ASSUME CopiesAssumption ==
  \A g \in DOMAIN CopiedFrom :
    /\ CopiedFrom[g] \notin DOMAIN CopiedFrom
    /\ \E d \in Proposals :
         /\ \A i \in Proposals : g \in History[i].deploys <=> i = d
         /\ \A k \in 1 .. (d - 1) : \A f \in Given[k] \cup Taken[k] : ~(f[1] = "safe" /\ f[2] = g)

(* A proposal validates with no more than what holds for sure after it, and *)
(* with everything that may hold.                                           *)
ASSUME ValidationAssumption ==
  \A j \in Proposals : Expected(Name(j), AtLeast(j)) /\ Expected(Name(j), AtMost(j))

(* At the end the order of execution leaves nothing open, and what holds is *)
(* what the integration tests expect.                                       *)
ASSUME EndAssumption ==
  \A V \in SUBSET VetoableProposal :
    OpenAtTheEnd(V) = {} /\ AsConfigured(AtTheEnd(V), LeftSafe(Proposals \ V))

(* At most one deposit of the same reserves is counted at first, at most    *)
(* one proposal adds one without replacing another, and that one comes      *)
(* after the first was removed.                                             *)
ASSUME ReservesAssumption ==
  \A S \in SameReserves :
    /\ AtMostOne(S \cap Genesis.oracle)
    /\ AtMostOne(Adders(S))
    /\ \A i \in Proposals : AtMostOne(Gains(i, S))
    /\ \A i \in Adders(S) :
         S \cap Genesis.oracle = {} \/ Earlier(i, Ordered) \cap Removers(S) # {}

(* A role of Core that is held has an admin at first, no timelock takes one *)
(* for itself, and whatever is made the admin of one keeps a holder.        *)
ASSUME AdminsAssumption ==
  /\ \A r \in CoreRoles : Genesis.roles[r] # {} => Genesis.roleAdmin[r] \in Roles
  /\ \A i \in Proposals : \A n \in 1 .. Size(i) :
       Cmd(i, n).op = "becomeAdmin" => Cmd(i, n).arg \notin CoreRoles
  /\ \A r \in CoreRoles : \A q \in Roles : \A s \in {0} \cup Proposals :
       <<"roleAdmin", r, q>> \in Leaves(s) =>
         \/ NeverHeld(r)
         \/ r = "MINTER_ROLE" /\ s # 0 /\ Name(s) = "tip_121c"
         \/ KeepsHolder(q, s)
=============================================================================
