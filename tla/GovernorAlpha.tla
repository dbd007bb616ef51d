--------------------------- MODULE GovernorAlpha ---------------------------
(***************************************************************************)
(* contracts/dao/governor/GovernorAlpha.sol as an admin of FeiDAOTimelock:  *)
(* proposals, votes weighed by the TRIBE held when voting starts, queueing, *)
(* execution and cancellation, and what its guardian may do.                *)
(* One clock stands for the block numbers and for the timestamps.           *)
(***************************************************************************)
EXTENDS FeiDAOTimelock, Sequences, FiniteSetsExt

CONSTANTS
  Governor,       \* the contract, an admin of the timelock
  Guardians,      \* accounts that can be its guardian
  NoGuardian,     \* address(0)
  Voters,         \* holders of TRIBE
  InitialVotes,   \* their votes
  GuardianEtas,   \* times that the guardian queues transactions for
  ActionSets,     \* the sets of transactions that are proposed
  QuorumVotes, ProposalThreshold, VotingDelay, VotingPeriod,
  MaxProposals,   \* bound of the proposals
  MaxMoves        \* bound of the moves of votes, governors and guardians

ASSUME GovernorAssumption ==
  /\ Governor \in Admins \ {Burner}
  /\ NoGuardian \notin Guardians
  /\ IsFiniteSet(Voters) /\ InitialVotes \in [Voters -> Nat]
  /\ GuardianEtas \subseteq Nat
  /\ ActionSets \subseteq SUBSET Transactions
  /\ QuorumVotes \in Nat \ {0} /\ ProposalThreshold \in Nat
  /\ VotingDelay \in Nat \ {0} /\ VotingPeriod \in Nat \ {0}
  /\ GracePeriod > 0 /\ {} \notin ActionSets
  /\ MaxProposals \in Nat \ {0} /\ MaxMoves \in Nat

VARIABLES
  votes,             \* votes in the current block
  prior,             \* votes at the end of the blocks before
  moves,             \* moves of votes, governors and guardians so far
  guardian,
  proposals,         \* the proposals, by their number
  latestProposalIds,
  guardianRan        \* history: what the guardian had executed

tribeVars == <<votes, prior>>
alphaVars == <<guardian, proposals, latestProposalIds, guardianRan>>
vars == <<timelockVars, tribeVars, alphaVars, moves>>

Proposals ==
  [proposer : Voters, actions : SUBSET Transactions, eta : Nat,
   startBlock : Nat, endBlock : Nat, forVotes : Nat, againstVotes : Nat,
   canceled : BOOLEAN, executed : BOOLEAN, voters : SUBSET Voters]

Proposal(proposer, actions, startBlock, endBlock) ==
  [proposer |-> proposer, actions |-> actions, eta |-> 0,
   startBlock |-> startBlock, endBlock |-> endBlock,
   forVotes |-> 0, againstVotes |-> 0,
   canceled |-> FALSE, executed |-> FALSE, voters |-> {}]

Init ==
  /\ TimelockInit
  /\ votes = InitialVotes /\ prior = << >> /\ moves = 0
  /\ guardian \in Guardians
  /\ proposals = << >>
  /\ latestProposalIds = [v \in Voters |-> 0]
  /\ guardianRan = {}

-----------------------------------------------------------------------------
(* getPriorVotes: the votes at the end of a block that has passed.          *)
PriorVotes(voter, block) == prior[block + 1][voter]

Passed(p) == p.forVotes > p.againstVotes /\ p.forVotes >= QuorumVotes

(* state() of a proposal that exists.                                       *)
StateOf(p) ==
  IF p.canceled THEN "Canceled"
  ELSE IF now <= p.startBlock THEN "Pending"
  ELSE IF now <= p.endBlock THEN "Active"
  ELSE IF ~Passed(p) THEN "Defeated"
  ELSE IF p.eta = 0 THEN "Succeeded"
  ELSE IF p.executed THEN "Executed"
  ELSE IF now >= p.eta + GracePeriod THEN "Expired"
  ELSE "Queued"

State(id) == StateOf(proposals[id])
Live(id)  == State(id) \in {"Pending", "Active"}
Existing  == 1 .. Len(proposals)

ProposeMore(v, actions) ==   \* mutant: pending proposals are forgotten
  /\ now > 0 /\ PriorVotes(v, now - 1) > ProposalThreshold
  /\ latestProposalIds[v] # 0 => State(latestProposalIds[v]) # "Active"
  /\ Len(proposals) < MaxProposals
  /\ proposals' = Append(proposals,
       Proposal(v, actions, now + VotingDelay, now + VotingDelay + VotingPeriod))
  /\ latestProposalIds' = [latestProposalIds EXCEPT ![v] = Len(proposals')]
  /\ UNCHANGED <<timelockVars, tribeVars, guardian, guardianRan>>

Propose(v, actions) ==
  /\ now > 0 /\ PriorVotes(v, now - 1) > ProposalThreshold
  /\ latestProposalIds[v] # 0 => ~Live(latestProposalIds[v])
  /\ Len(proposals) < MaxProposals
  /\ proposals' = Append(proposals,
       Proposal(v, actions, now + VotingDelay, now + VotingDelay + VotingPeriod))
  /\ latestProposalIds' = [latestProposalIds EXCEPT ![v] = Len(proposals')]
  /\ UNCHANGED <<timelockVars, tribeVars, guardian, guardianRan>>

Counted(p, v, support, amount) ==
  [p EXCEPT !.forVotes     = IF support THEN @ + amount ELSE @,
            !.againstVotes = IF support THEN @ ELSE @ + amount,
            !.voters       = @ \cup {v}]

CastVotePresent(v, id, support) ==   \* mutant: the votes of the present block
  /\ State(id) = "Active"
  /\ v \notin proposals[id].voters
  /\ proposals' = [proposals EXCEPT ![id] = Counted(@, v, support, votes[v])]
  /\ UNCHANGED <<timelockVars, tribeVars, guardian, latestProposalIds, guardianRan>>

CastVoteLate(v, id, support) ==   \* mutant: votes after the end
  /\ State(id) \notin {"Canceled", "Pending"}
  /\ v \notin proposals[id].voters
  /\ proposals' = [proposals EXCEPT ![id] =
       Counted(@, v, support, PriorVotes(v, proposals[id].startBlock))]
  /\ UNCHANGED <<timelockVars, tribeVars, guardian, latestProposalIds, guardianRan>>

(* castVote, castVoteBySig                                                  *)
CastVote(v, id, support) ==
  /\ State(id) = "Active"
  /\ v \notin proposals[id].voters
  /\ proposals' = [proposals EXCEPT ![id] =
       Counted(@, v, support, PriorVotes(v, proposals[id].startBlock))]
  /\ UNCHANGED <<timelockVars, tribeVars, guardian, latestProposalIds, guardianRan>>

QueueOver(id) ==   \* mutant: over transactions queued with the same eta
  /\ State(id) = "Succeeded"
  /\ QueueTransactions(Governor, proposals[id].actions, now + delay)
  /\ proposals' = [proposals EXCEPT ![id].eta = now + delay]
  /\ UNCHANGED <<tribeVars, guardian, latestProposalIds, guardianRan>>

(* queue, with _queueOrRevert for each action.                              *)
Queue(id) ==
  /\ State(id) = "Succeeded"
  /\ \A tx \in proposals[id].actions : Entry(tx, now + delay) \notin queued
  /\ QueueTransactions(Governor, proposals[id].actions, now + delay)
  /\ proposals' = [proposals EXCEPT ![id].eta = now + delay]
  /\ UNCHANGED <<tribeVars, guardian, latestProposalIds, guardianRan>>

Execute(id) ==
  /\ State(id) = "Queued"
  /\ ExecuteTransactions(Governor, proposals[id].actions, proposals[id].eta)
  /\ proposals' = [proposals EXCEPT ![id].executed = TRUE]
  /\ UNCHANGED <<tribeVars, guardian, latestProposalIds, guardianRan>>

CancelAnytime(by, id) ==   \* mutant: whatever the state
  /\ \/ by = guardian
     \/ PriorVotes(proposals[id].proposer, now - 1) < ProposalThreshold
  /\ CancelTransactions(Governor, proposals[id].actions, proposals[id].eta)
  /\ proposals' = [proposals EXCEPT ![id].canceled = TRUE]
  /\ UNCHANGED <<tribeVars, guardian, latestProposalIds, guardianRan>>

(* cancel, by the guardian or once the proposer has lost its votes.         *)
Cancel(by, id) ==
  /\ Live(id)
  /\ \/ by = guardian
     \/ PriorVotes(proposals[id].proposer, now - 1) < ProposalThreshold
  /\ CancelTransactions(Governor, proposals[id].actions, proposals[id].eta)
  /\ proposals' = [proposals EXCEPT ![id].canceled = TRUE]
  /\ UNCHANGED <<tribeVars, guardian, latestProposalIds, guardianRan>>

(* __abdicate and __transferGuardian                                        *)
SetGuardian(new) ==
  /\ guardian # NoGuardian
  /\ guardian' = new
  /\ UNCHANGED <<timelockVars, tribeVars, proposals, latestProposalIds, guardianRan>>

PendingAdminTx(new) == [fn |-> "setPendingAdmin", arg |-> new]

(* __queueSetTimelockPendingAdmin                                           *)
GuardianQueue(new, eta) ==
  /\ guardian # NoGuardian
  /\ QueueTransactions(Governor, {PendingAdminTx(new)}, eta)
  /\ UNCHANGED <<tribeVars, alphaVars>>

(* __executeSetTimelockPendingAdmin                                         *)
GuardianExecute(new, eta) ==
  /\ guardian # NoGuardian
  /\ ExecuteTransactions(Governor, {PendingAdminTx(new)}, eta)
  /\ guardianRan' = guardianRan \cup {Entry(PendingAdminTx(new), eta)}
  /\ UNCHANGED <<tribeVars, guardian, proposals, latestProposalIds>>

(* TRIBE is transferred or delegated: the votes follow.                     *)
MoveVotes(v, w, n) ==
  /\ n <= votes[v]
  /\ votes' = [votes EXCEPT ![v] = @ - n, ![w] = @ + n]
  /\ UNCHANGED <<timelockVars, prior, alphaVars>>

(* The next block.                                                          *)
Tick ==
  /\ now < MaxTime
  /\ now' = now + 1
  /\ prior' = Append(prior, votes)
  /\ UNCHANGED <<votes, moves, alphaVars, adminVars, delay, queued, paused, governed, history>>

(* What holders of TRIBE, the guardian and the governors of Core do to      *)
(* intervene; the number of these moves is bounded.                         *)
Intervene ==
  /\ moves < MaxMoves
  /\ moves' = moves + 1
  /\ \/ \E v \in Voters : \E w \in Voters \ {v}, n \in 1 .. votes[v] : MoveVotes(v, w, n)
     \/ \E by \in Guardians \cup Voters, id \in Existing : Cancel(by, id)
     \/ \E new \in Guardians \cup {NoGuardian} : SetGuardian(new)
     \/ \E new \in Admins, eta \in GuardianEtas : GuardianQueue(new, eta)
     \/ /\ \/ \E e \in queued : VetoTransactions({e})
           \/ \E new \in Admins : GovernorSetPendingAdmin(new)
           \/ Pause
           \/ GiveUpGovernance
        /\ UNCHANGED <<tribeVars, alphaVars>>

Call ==
  \/ \E v \in Voters, actions \in ActionSets : Propose(v, actions)
  \/ \E v \in Voters, id \in Existing, support \in BOOLEAN : CastVote(v, id, support)
  \/ \E id \in Existing : Queue(id)
  \/ \E id \in Existing : Execute(id)
  \/ \E new \in Admins, eta \in GuardianEtas : GuardianExecute(new, eta)
  \/ \E by \in {Governor, Burner} : AcceptAdmin(by) /\ UNCHANGED <<tribeVars, alphaVars>>
  \/ Unpause /\ UNCHANGED <<tribeVars, alphaVars>>
  \/ Tick

Next == Intervene \/ (Call /\ UNCHANGED moves)

Spec == Init /\ [][Next]_vars

-----------------------------------------------------------------------------
TypeOK ==
  /\ TimelockTypeOK
  /\ votes \in [Voters -> Nat]
  /\ prior \in Seq([Voters -> Nat]) /\ Len(prior) = now
  /\ moves \in Nat
  /\ guardian \in Guardians \cup {NoGuardian}
  /\ proposals \in Seq(Proposals)
  /\ latestProposalIds \in [Voters -> 0 .. Len(proposals)]
  /\ guardianRan \subseteq Entries

(* No proposer has two proposals pending or active at a time.               *)
OneLiveProposal ==
  \A i, j \in Existing :
    Live(i) /\ Live(j) /\ proposals[i].proposer = proposals[j].proposer => i = j

(* No TRIBE votes twice on a proposal, however it moves between holders     *)
(* while the vote is open.                                                  *)
NoVoteTwice ==
  \A id \in Existing :
    proposals[id].forVotes + proposals[id].againstVotes
      <= MapThenSumSet(LAMBDA v : InitialVotes[v], Voters)

(* What the timelock has executed the guardian asked for, as a new pending  *)
(* admin, or a vote has decided; and the decision still stands.             *)
OnlyThePassed ==
  \A e \in ran \ guardianRan :
    \E id \in Existing :
      /\ e.tx \in proposals[id].actions /\ e.eta = proposals[id].eta
      /\ State(id) = "Executed"

(* A queued proposal can be executed as a whole: it is not stale to the     *)
(* timelock, which compares with the same deadline, and none of its actions *)
(* was taken out of the timelock by another proposal, even one that has the *)
(* same action, unless it was vetoed or the guardian ran it before.         *)
QueuedIsExecutable ==
  \A id \in Existing : State(id) = "Queued" =>
    /\ Fresh(proposals[id].eta)
    /\ \A tx \in proposals[id].actions :
         Entry(tx, proposals[id].eta) \in queued \cup vetoed \cup guardianRan

(* The life of a proposal: no state is skipped, and none comes back.        *)
Successors ==
  [Pending   |-> {"Active", "Canceled"},
   Active    |-> {"Canceled", "Defeated", "Succeeded"},
   Succeeded |-> {"Queued"},
   Queued    |-> {"Executed", "Expired"},
   Canceled  |-> {}, Defeated |-> {}, Executed |-> {}, Expired |-> {}]

LifeCycle ==
  [][\A id \in Existing :
       State(id)' # State(id) => State(id)' \in Successors[State(id)]]_vars
=============================================================================
