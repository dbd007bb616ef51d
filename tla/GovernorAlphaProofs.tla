------------------------ MODULE GovernorAlphaProofs ------------------------
(***************************************************************************)
(* Theorems about GovernorAlpha on FeiDAOTimelock, for any voters, votes,   *)
(* proposals, delays and periods.  Each action is shown to keep the         *)
(* invariant and to be one of the steps that the action properties allow,   *)
(* first for the timelock and then for the proposals.                       *)
(***************************************************************************)
EXTENDS GovernorAlpha, SequenceTheorems, Arithmetic

(* Whatever is queued was queued in time for the delay.                     *)
Noticed ==
  \A e \in queued : \E s \in since : s.entry = e /\ s.at + MinimumDelay <= e.eta

(* The steps that NoticeGiven and BurnIsFinal allow.                        *)
NoticeStep ==
  \A e \in ran' \ ran : \E s \in since : s.entry = e /\ now - s.at >= MinimumDelay

BurnStep == Burned => Burned' /\ UNCHANGED <<delay, queued, paused, ran>>

TimelockInv  == TimelockTypeOK /\ Noticed
TimelockGood == TimelockInv' /\ NoticeStep /\ BurnStep

-----------------------------------------------------------------------------
LEMMA TransactionTypes ==
  /\ \A tx \in SetDelayTxs : tx.arg \in Nat /\ tx \in Transactions
  /\ \A tx \in SetPendingAdminTxs : tx.arg \in Admins /\ tx \in Transactions
  BY TimelockAssumption DEF SetDelayTxs, SetPendingAdminTxs, Transactions

LEMMA EntryType ==
  ASSUME NEW txs \in SUBSET Transactions, NEW eta \in Nat
  PROVE  {Entry(tx, eta) : tx \in txs} \subseteq Entries
  BY DEF Entry, Entries

LEMMA CallsMadeType ==
  ASSUME TimelockTypeOK, NEW txs \in SUBSET Transactions, CallsMade(txs)
  PROVE  /\ delay' \in MinimumDelay .. MaximumDelay
         /\ pendingAdmin' \in Admins \cup {NoAdmin}
  BY TransactionTypes DEF TimelockTypeOK, CallsMade

(* Calls of an admin do not happen once the burner is the admin.            *)
LEMMA QueueGood ==
  ASSUME TimelockInv, NEW txs \in SUBSET Transactions, NEW eta \in Nat,
         QueueTransactions(Governor, txs, eta)
  PROVE  TimelockGood
  <1> USE DEF TimelockInv
  <1>1. paused' \in BOOLEAN /\ governed' \in BOOLEAN
    BY Zenon DEF QueueTransactions, TimelockTypeOK
  <1>2. {Entry(tx, eta) : tx \in txs} \subseteq Entries
    BY EntryType
  <1>3. {[entry |-> Entry(tx, eta), at |-> now] : tx \in txs}
          \subseteq [entry : Entries, at : Nat]
    BY <1>2 DEF TimelockTypeOK
  <1>4. TimelockTypeOK'
    BY <1>1, <1>2, <1>3 DEF QueueTransactions, TimelockTypeOK, adminVars
  <1>5. ASSUME NEW e \in queued'
        PROVE  \E s \in since' : s.entry = e /\ s.at + MinimumDelay <= e.eta
    <2>1. CASE e \in queued
      BY <2>1 DEF Noticed, QueueTransactions
    <2>2. CASE e \notin queued
      <3>1. PICK tx \in txs : e = Entry(tx, eta)
        BY <1>5, <2>2 DEF QueueTransactions
      <3>2. [entry |-> e, at |-> now] \in since'
        BY <3>1 DEF QueueTransactions
      <3>3. now + MinimumDelay <= eta
        BY TimelockAssumption DEF QueueTransactions, TimelockTypeOK
      <3> QED
        BY <3>1, <3>2, <3>3 DEF Entry
    <2> QED
      BY <2>1, <2>2
  <1>6. NoticeStep /\ ~Burned
    BY GovernorAssumption DEF QueueTransactions, NoticeStep, Burned
  <1> QED
    BY <1>4, <1>5, <1>6 DEF TimelockGood, Noticed, BurnStep

LEMMA ExecuteGood ==
  ASSUME TimelockInv, NEW txs \in SUBSET Transactions, NEW eta \in Nat,
         ExecuteTransactions(Governor, txs, eta)
  PROVE  TimelockGood
  <1> USE DEF TimelockInv
  <1>1. paused' \in BOOLEAN /\ governed' \in BOOLEAN
    BY Zenon DEF ExecuteTransactions, TimelockTypeOK
  <1>2. {Entry(tx, eta) : tx \in txs} \subseteq Entries
    BY EntryType
  <1>3. TimelockTypeOK'
    BY <1>1, <1>2, CallsMadeType DEF ExecuteTransactions, TimelockTypeOK
  <1>4. Noticed'
    BY DEF Noticed, ExecuteTransactions
  <1>5. ASSUME NEW e \in ran' \ ran
        PROVE  \E s \in since : s.entry = e /\ now - s.at >= MinimumDelay
    <2>1. e \in queued /\ e.eta = eta /\ eta <= now
      BY <1>5 DEF ExecuteTransactions, Entry
    <2>2. PICK s \in since : s.entry = e /\ s.at + MinimumDelay <= e.eta
      BY <2>1 DEF Noticed
    <2>3. s.at \in Nat /\ now \in Nat /\ MinimumDelay \in Nat
      BY TimelockAssumption DEF TimelockTypeOK
    <2> QED
      BY <2>1, <2>2, <2>3
  <1>6. ~Burned
    BY GovernorAssumption DEF ExecuteTransactions, Burned
  <1> QED
    BY <1>3, <1>4, <1>5, <1>6 DEF TimelockGood, NoticeStep, BurnStep

LEMMA CancelGood ==
  ASSUME TimelockInv, NEW txs, NEW eta, CancelTransactions(Governor, txs, eta)
  PROVE  TimelockGood
  <1> USE DEF TimelockInv
  <1>1. paused' \in BOOLEAN /\ governed' \in BOOLEAN
    BY Zenon DEF CancelTransactions, TimelockTypeOK
  <1>2. TimelockTypeOK'
    BY <1>1 DEF CancelTransactions, TimelockTypeOK, adminVars, history
  <1>3. Noticed' /\ NoticeStep
    BY DEF Noticed, NoticeStep, CancelTransactions, history
  <1>4. ~Burned
    BY GovernorAssumption DEF CancelTransactions, Burned
  <1> QED
    BY <1>2, <1>3, <1>4 DEF TimelockGood, BurnStep

LEMMA AcceptGood ==
  ASSUME TimelockInv, NEW by \in {Governor, Burner}, AcceptAdmin(by)
  PROVE  TimelockGood
  <1> USE DEF TimelockInv
  <1>1. paused' \in BOOLEAN /\ governed' \in BOOLEAN
    BY Zenon DEF AcceptAdmin, TimelockTypeOK
  <1>2. by \in Admins /\ by # NoAdmin
    BY TimelockAssumption, GovernorAssumption
  <1>3. TimelockTypeOK'
    BY <1>1, <1>2 DEF AcceptAdmin, TimelockTypeOK, history
  <1>4. Noticed' /\ NoticeStep
    BY DEF Noticed, NoticeStep, AcceptAdmin, history
  <1>5. ~Burned
    BY <1>2 DEF AcceptAdmin, Burned
  <1> QED
    BY <1>3, <1>4, <1>5 DEF TimelockGood, BurnStep

(* The calls of the guardian and the governors of Core, and unpause.        *)
CoreCall ==
  \/ \E e \in queued : VetoTransactions({e})
  \/ \E new \in Admins : GovernorSetPendingAdmin(new)
  \/ Pause
  \/ Unpause
  \/ GiveUpGovernance

LEMMA CoreGood ==
  ASSUME TimelockInv, CoreCall
  PROVE  TimelockGood /\ UNCHANGED <<now, ran>>
  <1> USE DEF TimelockInv
  <1> DEFINE Keeps ==
        TimelockTypeOK' /\ governed /\ queued' \subseteq queued /\ UNCHANGED <<now, since, ran>>
  <1>1. ASSUME NEW e \in queued, VetoTransactions({e}) PROVE Keeps
    <2>1. paused' \in BOOLEAN /\ governed' \in BOOLEAN
      BY <1>1, Zenon DEF VetoTransactions, TimelockTypeOK
    <2> QED
      BY <1>1, <2>1 DEF VetoTransactions, TimelockTypeOK, adminVars
  <1>2. ASSUME NEW new \in Admins, GovernorSetPendingAdmin(new) PROVE Keeps
    <2>1. paused' \in BOOLEAN /\ governed' \in BOOLEAN
      BY <1>2, Zenon DEF GovernorSetPendingAdmin, TimelockTypeOK
    <2> QED
      BY <1>2, <2>1 DEF GovernorSetPendingAdmin, TimelockTypeOK, history
  <1>3. ASSUME Pause PROVE Keeps
    <2>1. paused' \in BOOLEAN /\ governed' \in BOOLEAN
      BY <1>3, Zenon DEF Pause, TimelockTypeOK
    <2> QED
      BY <1>3, <2>1 DEF Pause, TimelockTypeOK, adminVars, history
  <1>4. ASSUME Unpause PROVE Keeps
    <2>1. paused' \in BOOLEAN /\ governed' \in BOOLEAN
      BY <1>4, Zenon DEF Unpause, TimelockTypeOK
    <2> QED
      BY <1>4, <2>1 DEF Unpause, TimelockTypeOK, adminVars, history
  <1>5. ASSUME GiveUpGovernance PROVE Keeps
    <2>1. paused' \in BOOLEAN /\ governed' \in BOOLEAN
      BY <1>5, Zenon DEF GiveUpGovernance, TimelockTypeOK
    <2> QED
      BY <1>5, <2>1 DEF GiveUpGovernance, TimelockTypeOK, adminVars, history
  <1>6. Keeps
    BY <1>1, <1>2, <1>3, <1>4, <1>5 DEF CoreCall
  <1> QED
    BY <1>6 DEF TimelockGood, Noticed, NoticeStep, BurnStep, Burned

(* A step that does not call the timelock, but for the clock.               *)
LEMMA NoCallGood ==
  ASSUME TimelockInv, UNCHANGED <<adminVars, delay, queued, paused, governed, history>>,
         now' \in Nat
  PROVE  TimelockGood
  <1> USE DEF TimelockInv
  <1>1. paused' \in BOOLEAN /\ governed' \in BOOLEAN
    BY Zenon DEF TimelockTypeOK
  <1>2. TimelockTypeOK'
    BY <1>1 DEF TimelockTypeOK, adminVars, history
  <1>3. Noticed' /\ NoticeStep /\ BurnStep
    BY DEF Noticed, NoticeStep, BurnStep, Burned, adminVars, history
  <1> QED
    BY <1>2, <1>3 DEF TimelockGood

-----------------------------------------------------------------------------
(* The state of a proposal at a time.                                       *)
StateAt(p, t) ==
  IF p.canceled THEN "Canceled"
  ELSE IF t <= p.startBlock THEN "Pending"
  ELSE IF t <= p.endBlock THEN "Active"
  ELSE IF ~(p.forVotes > p.againstVotes /\ p.forVotes >= QuorumVotes) THEN "Defeated"
  ELSE IF p.eta = 0 THEN "Succeeded"
  ELSE IF p.executed THEN "Executed"
  ELSE IF t >= p.eta + GracePeriod THEN "Expired"
  ELSE "Queued"

LiveAt(p, t) == StateAt(p, t) \in {"Pending", "Active"}

(* A proposal has an eta only after the vote, and is executed only then.    *)
WellFormed(p, t) ==
  /\ p.startBlock < p.endBlock
  /\ p.eta # 0 => t > p.endBlock
  /\ p.executed => p.eta # 0

AllWellFormed == \A id \in Existing : WellFormed(proposals[id], now)

(* latestProposalIds knows the live proposal of each proposer.              *)
LatestKnown ==
  \A id \in Existing :
    LiveAt(proposals[id], now) => latestProposalIds[proposals[id].proposer] = id

Voted ==
  \A e \in ran \ guardianRan :
    \E id \in Existing :
      /\ e.tx \in proposals[id].actions /\ e.eta = proposals[id].eta
      /\ StateAt(proposals[id], now) = "Executed"

GovernorTypeOK ==
  /\ proposals \in Seq(Proposals)
  /\ latestProposalIds \in [Voters -> 0 .. Len(proposals)]

(* What one step may do to the state of a proposal.                         *)
Succeeds(s, t) == t = s \/ t \in Successors[s]

LifeStep ==
  \A id \in Existing : Succeeds(StateAt(proposals[id], now), StateAt(proposals'[id], now'))

GovernorInv  == GovernorTypeOK /\ AllWellFormed /\ LatestKnown /\ Voted
GovernorGood == GovernorInv' /\ LifeStep

LEMMA StateIsStateAt ==
  /\ \A id \in Existing : State(id) = StateAt(proposals[id], now)
  /\ \A id \in Existing' : State(id)' = StateAt(proposals'[id], now')
  BY DEF State, StateOf, StateAt, Passed

(* A step that leaves the proposals alone, and of which the guardian, if    *)
(* anybody, had something executed.                                         *)
LEMMA QuietGood ==
  ASSUME GovernorInv, UNCHANGED <<now, proposals, latestProposalIds>>,
         ran' \ guardianRan' \subseteq ran \ guardianRan
  PROVE  GovernorGood
  BY DEF GovernorInv, GovernorGood, GovernorTypeOK, AllWellFormed, LatestKnown, Voted,
         LifeStep, Succeeds, Existing

(* A step that changes one proposal, and executes nothing else.             *)
LEMMA ReplaceGood ==
  ASSUME GovernorInv, NEW id \in Existing, NEW q \in Proposals,
         proposals' = [proposals EXCEPT ![id] = q],
         UNCHANGED <<now, latestProposalIds, guardianRan>>,
         WellFormed(q, now),
         q.proposer = proposals[id].proposer,
         LiveAt(q, now) => LiveAt(proposals[id], now),
         Succeeds(StateAt(proposals[id], now), StateAt(q, now)),
         StateAt(proposals[id], now) # "Executed",
         \A e \in ran' \ ran :
           e.tx \in q.actions /\ e.eta = q.eta /\ StateAt(q, now) = "Executed"
  PROVE  GovernorGood
  <1>1. proposals \in Seq(Proposals) /\ id \in 1 .. Len(proposals)
    BY DEF GovernorInv, GovernorTypeOK, Existing
  <1>2. /\ proposals' \in Seq(Proposals) /\ Len(proposals') = Len(proposals)
        /\ \A j \in 1 .. Len(proposals) :
             proposals'[j] = IF j = id THEN q ELSE proposals[j]
    BY <1>1, ExceptSeq
  <1>3. Existing' = Existing
    BY <1>2 DEF Existing
  <1>4. GovernorTypeOK' /\ AllWellFormed'
    BY <1>2, <1>3 DEF GovernorInv, GovernorTypeOK, AllWellFormed, Existing
  <1>5. LatestKnown'
    BY <1>2, <1>3 DEF GovernorInv, LatestKnown, Existing
  <1>6. Voted'
    <2>1. SUFFICES ASSUME NEW e \in ran' \ guardianRan'
                   PROVE  \E j \in Existing :
                            /\ e.tx \in proposals'[j].actions /\ e.eta = proposals'[j].eta
                            /\ StateAt(proposals'[j], now) = "Executed"
      BY <1>3 DEF Voted
    <2>2. CASE e \in ran
      <3>1. PICK j \in Existing :
              /\ e.tx \in proposals[j].actions /\ e.eta = proposals[j].eta
              /\ StateAt(proposals[j], now) = "Executed"
        BY <2>2 DEF GovernorInv, Voted
      <3>2. proposals'[j] = proposals[j]
        BY <1>2, <3>1 DEF Existing
      <3> QED
        BY <3>1, <3>2
    <2>3. CASE e \notin ran
      <3>1. proposals'[id] = q
        BY <1>1, <1>2
      <3> QED
        BY <2>3, <3>1
    <2> QED
      BY <2>2, <2>3
  <1>7. LifeStep
    BY <1>2 DEF LifeStep, Succeeds, Existing
  <1> QED
    BY <1>4, <1>5, <1>6, <1>7 DEF GovernorGood, GovernorInv

(* Time passes.                                                             *)
LEMMA Aging ==
  ASSUME NEW p \in Proposals, NEW t \in Nat, WellFormed(p, t)
  PROVE  /\ Succeeds(StateAt(p, t), StateAt(p, t + 1))
         /\ WellFormed(p, t + 1)
         /\ LiveAt(p, t + 1) => LiveAt(p, t)
         /\ StateAt(p, t) = "Executed" => StateAt(p, t + 1) = "Executed"
  <1>1. /\ p.startBlock \in Nat /\ p.endBlock \in Nat /\ p.eta \in Nat
        /\ GracePeriod \in Nat
    BY TimelockAssumption DEF Proposals
  <1>2. WellFormed(p, t + 1) /\ (LiveAt(p, t + 1) => LiveAt(p, t))
    BY <1>1 DEF WellFormed, LiveAt, StateAt
  <1>3. StateAt(p, t) = "Executed" => StateAt(p, t + 1) = "Executed"
    BY <1>1 DEF WellFormed, StateAt
  <1>4. Succeeds(StateAt(p, t), StateAt(p, t + 1))
    BY <1>1 DEF WellFormed, StateAt, Succeeds, Successors
  <1> QED
    BY <1>2, <1>3, <1>4

LEMMA TickGood ==
  ASSUME GovernorInv, now \in Nat, now' = now + 1,
         UNCHANGED <<proposals, latestProposalIds, ran, guardianRan>>
  PROVE  GovernorGood
  <1>1. \A id \in Existing : proposals[id] \in Proposals
    BY DEF GovernorInv, GovernorTypeOK, Existing
  <1>2. \A id \in Existing :
          /\ Succeeds(StateAt(proposals[id], now), StateAt(proposals[id], now + 1))
          /\ WellFormed(proposals[id], now + 1)
          /\ LiveAt(proposals[id], now + 1) => LiveAt(proposals[id], now)
          /\ StateAt(proposals[id], now) = "Executed"
               => StateAt(proposals[id], now + 1) = "Executed"
    BY <1>1, Aging DEF GovernorInv, AllWellFormed
  <1>3. LifeStep
    BY <1>2 DEF LifeStep
  <1>4. AllWellFormed' /\ LatestKnown' /\ Voted'
    BY <1>2 DEF GovernorInv, AllWellFormed, LatestKnown, Voted, Existing
  <1>5. GovernorTypeOK'
    BY DEF GovernorInv, GovernorTypeOK
  <1> QED
    BY <1>3, <1>4, <1>5 DEF GovernorGood, GovernorInv

-----------------------------------------------------------------------------
TribeTypeOK ==
  /\ votes \in [Voters -> Nat]
  /\ prior \in Seq([Voters -> Nat]) /\ Len(prior) = now
  /\ moves \in Nat
  /\ guardian \in Guardians \cup {NoGuardian}
  /\ guardianRan \subseteq Entries

IInv == TimelockInv /\ GovernorInv /\ TribeTypeOK

Good == IInv' /\ NoticeStep /\ BurnStep /\ LifeStep

LEMMA TypeParts == TypeOK <=> TimelockTypeOK /\ GovernorTypeOK /\ TribeTypeOK
  BY DEF TypeOK, GovernorTypeOK, TribeTypeOK

LEMMA GoodParts ==
  ASSUME TimelockGood, GovernorGood, TribeTypeOK'
  PROVE  Good
  BY DEF Good, IInv, TimelockGood, GovernorGood

LEMMA ExistingType ==
  ASSUME GovernorInv, NEW id \in Existing
  PROVE  /\ proposals[id] \in Proposals /\ WellFormed(proposals[id], now)
         /\ State(id) = StateAt(proposals[id], now)
         /\ proposals[id].actions \in SUBSET Transactions
         /\ proposals[id].eta \in Nat
  <1>1. proposals[id] \in Proposals
    BY DEF GovernorInv, GovernorTypeOK, Existing
  <1> QED
    BY <1>1, StateIsStateAt DEF GovernorInv, AllWellFormed, Proposals

LEMMA ProposeGood ==
  ASSUME IInv, NEW v \in Voters, NEW actions \in ActionSets, Propose(v, actions), moves' = moves
  PROVE  Good
  <1> DEFINE new == Proposal(v, actions, now + VotingDelay, now + VotingDelay + VotingPeriod)
  <1>1. now \in Nat /\ VotingDelay \in Nat \ {0} /\ VotingPeriod \in Nat \ {0}
    BY GovernorAssumption DEF IInv, TimelockInv, TimelockTypeOK
  <1>2. new \in Proposals /\ WellFormed(new, now)
    BY <1>1, GovernorAssumption DEF Proposal, Proposals, WellFormed
  <1>3. new.proposer = v
    BY DEF Proposal
  <1> HIDE DEF new
  <1>4. /\ proposals \in Seq(Proposals) /\ proposals' = Append(proposals, new)
        /\ latestProposalIds \in [Voters -> 0 .. Len(proposals)]
        /\ latestProposalIds' = [latestProposalIds EXCEPT ![v] = Len(proposals')]
    BY DEF Propose, IInv, GovernorInv, GovernorTypeOK, new
  <1>5. /\ proposals' \in Seq(Proposals) /\ Len(proposals') = Len(proposals) + 1
        /\ Len(proposals) \in Nat
        /\ \A j \in 1 .. Len(proposals) : proposals'[j] = proposals[j]
        /\ proposals'[Len(proposals) + 1] = new
    BY <1>2, <1>4
  <1>6. /\ Existing' = Existing \cup {Len(proposals) + 1}
        /\ \A id \in Existing : proposals'[id] = proposals[id] /\ id # 0
    BY <1>5 DEF Existing
  <1>7. UNCHANGED <<timelockVars, tribeVars, guardian, guardianRan>>
    BY DEF Propose
  <1>8. TimelockGood
    BY <1>1, <1>7, NoCallGood DEF IInv, timelockVars
  <1>9. GovernorTypeOK'
    BY <1>4, <1>5 DEF GovernorTypeOK
  <1>10. now' = now /\ ran' = ran /\ guardianRan' = guardianRan
    BY <1>7 DEF timelockVars, history
  <1>11. AllWellFormed'
    BY <1>2, <1>5, <1>6, <1>10 DEF IInv, GovernorInv, AllWellFormed
  <1>12. LatestKnown'
    <2>1. SUFFICES ASSUME NEW id \in Existing', LiveAt(proposals'[id], now)
                   PROVE  latestProposalIds'[proposals'[id].proposer] = id
      BY <1>10 DEF LatestKnown
    <2>2. CASE id = Len(proposals) + 1
      BY <1>3, <1>4, <1>5, <2>2
    <2>3. CASE id \in Existing
      <3>1. /\ latestProposalIds[proposals[id].proposer] = id /\ id # 0
            /\ LiveAt(proposals[id], now) /\ proposals[id] \in Proposals
        BY <1>6, <2>1, <2>3, ExistingType DEF IInv, GovernorInv, LatestKnown
      <3>2. proposals[id].proposer # v
        BY <3>1, <2>3, StateIsStateAt DEF Propose, Live, LiveAt
      <3> QED
        BY <1>4, <1>6, <2>3, <3>1, <3>2 DEF Proposals
    <2> QED
      BY <1>6, <2>2, <2>3
  <1>13. Voted'
    BY <1>6, <1>10 DEF Voted, IInv, GovernorInv
  <1>14. LifeStep
    BY <1>6, <1>10 DEF LifeStep, Succeeds
  <1>15. TribeTypeOK'
    BY <1>7 DEF timelockVars, tribeVars, TribeTypeOK, IInv
  <1> QED
    BY <1>8, <1>9, <1>11, <1>12, <1>13, <1>14, <1>15, GoodParts
       DEF GovernorGood, GovernorInv

(* What a vote leaves of a proposal.                                        *)
SameTerms(q, p) ==
  /\ q.proposer = p.proposer /\ q.startBlock = p.startBlock
  /\ q.endBlock = p.endBlock /\ q.eta = p.eta /\ q.executed = p.executed
  /\ q.canceled = p.canceled

LEMMA CountedType ==
  ASSUME NEW p \in Proposals, NEW v \in Voters, NEW support \in BOOLEAN, NEW amount \in Nat
  PROVE  /\ Counted(p, v, support, amount) \in Proposals
         /\ SameTerms(Counted(p, v, support, amount), p)
  <1> DEFINE Recount(f, a, w) ==
               [p EXCEPT !.forVotes = f, !.againstVotes = a, !.voters = w]
  <1>1. /\ p.forVotes \in Nat /\ p.againstVotes \in Nat
        /\ p.forVotes + amount \in Nat /\ p.againstVotes + amount \in Nat
        /\ p.voters \cup {v} \in SUBSET Voters
    BY DEF Proposals
  <1>2. \A f \in Nat, a \in Nat, w \in SUBSET Voters :
          Recount(f, a, w) \in Proposals /\ SameTerms(Recount(f, a, w), p)
    <2> SUFFICES ASSUME NEW f \in Nat, NEW a \in Nat, NEW w \in SUBSET Voters
                 PROVE  Recount(f, a, w) \in Proposals /\ SameTerms(Recount(f, a, w), p)
      OBVIOUS
    <2>1. Recount(f, a, w) \in Proposals
      BY DEF Proposals
    <2>2. SameTerms(Recount(f, a, w), p)
      BY DEF Proposals, SameTerms
    <2> QED
      BY <2>1, <2>2
  <1>3. CASE support
    <2>1. Counted(p, v, support, amount)
            = Recount(p.forVotes + amount, p.againstVotes, p.voters \cup {v})
      BY <1>3 DEF Counted, Proposals
    <2> HIDE DEF Recount
    <2> QED
      BY <1>1, <1>2, <2>1
  <1>4. CASE ~support
    <2>1. Counted(p, v, support, amount)
            = Recount(p.forVotes, p.againstVotes + amount, p.voters \cup {v})
      BY <1>4 DEF Counted, Proposals
    <2> HIDE DEF Recount
    <2> QED
      BY <1>1, <1>2, <2>1
  <1> QED
    BY <1>3, <1>4

LEMMA CastVoteGood ==
  ASSUME IInv, NEW v \in Voters, NEW id \in Existing, NEW support \in BOOLEAN,
         CastVote(v, id, support), moves' = moves
  PROVE  Good
  <1> DEFINE p == proposals[id]
             amount == PriorVotes(v, p.startBlock)
             q == Counted(p, v, support, amount)
  <1>1. /\ p \in Proposals /\ WellFormed(p, now) /\ StateAt(p, now) = "Active"
    BY ExistingType DEF IInv, CastVote
  <1>2. now \in Nat /\ p.startBlock \in Nat /\ p.startBlock < now
    BY <1>1 DEF IInv, TimelockInv, TimelockTypeOK, Proposals, StateAt
  <1>3. amount \in Nat
    BY <1>2 DEF PriorVotes, IInv, TribeTypeOK
  <1>4. /\ q \in Proposals
        /\ q.proposer = p.proposer /\ q.startBlock = p.startBlock
        /\ q.endBlock = p.endBlock /\ q.eta = p.eta /\ q.executed = p.executed
        /\ q.canceled = p.canceled
    <2> HIDE DEF amount, p
    <2> QED
      BY <1>1, <1>3, CountedType DEF SameTerms
  <1>5. proposals' = [proposals EXCEPT ![id] = q]
    BY DEF CastVote
  <1>6. UNCHANGED <<timelockVars, tribeVars, guardian, latestProposalIds, guardianRan>>
    BY DEF CastVote
  <1>7. UNCHANGED <<now, ran, guardianRan, latestProposalIds>>
    BY <1>6 DEF timelockVars, history
  <1> HIDE DEF q
  <1>8. WellFormed(q, now) /\ StateAt(q, now) = "Active"
    BY <1>1, <1>4 DEF WellFormed, StateAt
  <1>9. /\ LiveAt(q, now) => LiveAt(p, now)
        /\ Succeeds(StateAt(p, now), StateAt(q, now))
        /\ StateAt(p, now) # "Executed"
    BY <1>1, <1>8 DEF LiveAt, Succeeds
  <1>10. GovernorGood
    BY <1>4, <1>5, <1>7, <1>8, <1>9, ReplaceGood DEF IInv
  <1>11. TimelockGood
    BY <1>2, <1>6, NoCallGood DEF IInv, timelockVars
  <1>12. TribeTypeOK'
    BY <1>6 DEF timelockVars, tribeVars, TribeTypeOK, IInv
  <1> QED
    BY <1>10, <1>11, <1>12, GoodParts

LEMMA QueueProposalGood ==
  ASSUME IInv, NEW id \in Existing, Queue(id), moves' = moves
  PROVE  Good
  <1> DEFINE p == proposals[id]
             q == [p EXCEPT !.eta = now + delay]
  <1>1. /\ p \in Proposals /\ WellFormed(p, now) /\ StateAt(p, now) = "Succeeded"
        /\ p.actions \in SUBSET Transactions
    BY ExistingType DEF IInv, Queue
  <1>2. now \in Nat /\ delay \in Nat /\ GracePeriod \in Nat /\ GracePeriod > 0
    BY TimelockAssumption, GovernorAssumption DEF IInv, TimelockInv, TimelockTypeOK
  <1>3. TimelockGood
    BY <1>1, <1>2, QueueGood DEF IInv, Queue
  <1>4. /\ q \in Proposals
        /\ q.proposer = p.proposer /\ q.startBlock = p.startBlock
        /\ q.endBlock = p.endBlock /\ q.eta = now + delay /\ q.executed = p.executed
        /\ q.canceled = p.canceled /\ q.forVotes = p.forVotes
        /\ q.againstVotes = p.againstVotes
    <2> HIDE DEF p
    <2> QED
      BY <1>1, <1>2 DEF Proposals
  <1>5. proposals' = [proposals EXCEPT ![id] = q]
    BY DEF Queue
  <1>6. UNCHANGED <<now, ran, guardianRan, latestProposalIds, tribeVars, guardian>>
    BY DEF Queue, QueueTransactions
  <1> HIDE DEF q
  <1>7. /\ p.endBlock \in Nat /\ now > p.endBlock /\ ~p.canceled /\ ~p.executed
        /\ p.startBlock < p.endBlock /\ p.startBlock \in Nat
    BY <1>1, <1>2 DEF WellFormed, StateAt, Proposals
  <1>8. WellFormed(q, now)
    BY <1>2, <1>4, <1>7 DEF WellFormed
  <1>9. StateAt(q, now) = "Queued"
    BY <1>1, <1>2, <1>4, <1>7 DEF StateAt
  <1>10. /\ LiveAt(q, now) => LiveAt(p, now)
         /\ Succeeds(StateAt(p, now), StateAt(q, now))
         /\ StateAt(p, now) # "Executed"
    BY <1>1, <1>9 DEF LiveAt, Succeeds, Successors
  <1>11. GovernorGood
    BY <1>4, <1>5, <1>6, <1>8, <1>10, ReplaceGood DEF IInv
  <1>12. TribeTypeOK'
    BY <1>6 DEF tribeVars, TribeTypeOK, IInv
  <1> QED
    BY <1>3, <1>11, <1>12, GoodParts

LEMMA ExecuteProposalGood ==
  ASSUME IInv, NEW id \in Existing, Execute(id), moves' = moves
  PROVE  Good
  <1> DEFINE p == proposals[id]
             q == [p EXCEPT !.executed = TRUE]
  <1>1. /\ p \in Proposals /\ WellFormed(p, now) /\ StateAt(p, now) = "Queued"
        /\ p.actions \in SUBSET Transactions /\ p.eta \in Nat
    BY ExistingType DEF IInv, Execute
  <1>2. TimelockGood
    BY <1>1, ExecuteGood DEF IInv, Execute
  <1>3. /\ q \in Proposals
        /\ q.proposer = p.proposer /\ q.startBlock = p.startBlock
        /\ q.endBlock = p.endBlock /\ q.eta = p.eta /\ q.executed
        /\ q.canceled = p.canceled /\ q.forVotes = p.forVotes
        /\ q.againstVotes = p.againstVotes /\ q.actions = p.actions
    <2> HIDE DEF p
    <2> QED
      BY <1>1 DEF Proposals
  <1>4. proposals' = [proposals EXCEPT ![id] = q]
    BY DEF Execute
  <1>5. UNCHANGED <<now, guardianRan, latestProposalIds, tribeVars, guardian>>
    BY DEF Execute, ExecuteTransactions
  <1>6. \A e \in ran' \ ran : e.tx \in p.actions /\ e.eta = p.eta
    BY DEF Execute, ExecuteTransactions, Entry
  <1> HIDE DEF q
  <1>7. p.eta # 0
    BY <1>1 DEF StateAt
  <1>8. WellFormed(q, now) /\ StateAt(q, now) = "Executed"
    BY <1>1, <1>3, <1>7 DEF WellFormed, StateAt
  <1>9. /\ LiveAt(q, now) => LiveAt(p, now)
        /\ Succeeds(StateAt(p, now), StateAt(q, now))
        /\ StateAt(p, now) # "Executed"
    BY <1>1, <1>8 DEF LiveAt, Succeeds, Successors
  <1>10. GovernorGood
    BY <1>3, <1>4, <1>5, <1>6, <1>8, <1>9, ReplaceGood DEF IInv
  <1>11. TribeTypeOK'
    BY <1>5 DEF tribeVars, TribeTypeOK, IInv
  <1> QED
    BY <1>2, <1>10, <1>11, GoodParts

LEMMA CancelProposalGood ==
  ASSUME IInv, NEW by, NEW id \in Existing, Cancel(by, id), moves' \in Nat
  PROVE  Good
  <1> DEFINE p == proposals[id]
             q == [p EXCEPT !.canceled = TRUE]
  <1>1. p \in Proposals /\ WellFormed(p, now) /\ LiveAt(p, now)
    BY ExistingType DEF IInv, Cancel, Live, LiveAt
  <1>2. TimelockGood
    BY CancelGood DEF IInv, Cancel
  <1>3. /\ q \in Proposals
        /\ q.proposer = p.proposer /\ q.startBlock = p.startBlock
        /\ q.endBlock = p.endBlock /\ q.eta = p.eta /\ q.executed = p.executed
        /\ q.canceled
    <2> HIDE DEF p
    <2> QED
      BY <1>1 DEF Proposals
  <1>4. proposals' = [proposals EXCEPT ![id] = q]
    BY DEF Cancel
  <1>5. UNCHANGED <<now, ran, guardianRan, latestProposalIds, tribeVars, guardian>>
    BY DEF Cancel, CancelTransactions, history
  <1> HIDE DEF q
  <1>6. WellFormed(q, now) /\ StateAt(q, now) = "Canceled"
    BY <1>1, <1>3 DEF WellFormed, StateAt
  <1>7. /\ LiveAt(q, now) => LiveAt(p, now)
        /\ Succeeds(StateAt(p, now), StateAt(q, now))
        /\ StateAt(p, now) # "Executed"
    BY <1>1, <1>6 DEF LiveAt, Succeeds, Successors
  <1>8. GovernorGood
    BY <1>3, <1>4, <1>5, <1>6, <1>7, ReplaceGood DEF IInv
  <1>9. TribeTypeOK'
    BY <1>5 DEF tribeVars, TribeTypeOK, IInv
  <1> QED
    BY <1>2, <1>8, <1>9, GoodParts

LEMMA SetGuardianGood ==
  ASSUME IInv, NEW new \in Guardians \cup {NoGuardian}, SetGuardian(new), moves' \in Nat
  PROVE  Good
  <1>1. UNCHANGED <<timelockVars, tribeVars, proposals, latestProposalIds, guardianRan>>
    BY DEF SetGuardian
  <1>2. TimelockGood /\ UNCHANGED <<now, ran>>
    BY <1>1, NoCallGood DEF IInv, TimelockInv, TimelockTypeOK, timelockVars, history
  <1>3. GovernorGood
    BY <1>1, <1>2, QuietGood DEF IInv
  <1>4. TribeTypeOK'
    BY <1>1, <1>2 DEF SetGuardian, TribeTypeOK, tribeVars, IInv
  <1> QED
    BY <1>2, <1>3, <1>4, GoodParts

LEMMA PendingAdminType ==
  \A new \in Admins : {PendingAdminTx(new)} \in SUBSET Transactions
  BY DEF PendingAdminTx, Transactions, SetPendingAdminTxs

LEMMA GuardianQueueGood ==
  ASSUME IInv, NEW new \in Admins, NEW eta \in GuardianEtas, GuardianQueue(new, eta),
         moves' \in Nat
  PROVE  Good
  <1>1. UNCHANGED <<tribeVars, alphaVars, now, ran>>
    BY DEF GuardianQueue, QueueTransactions
  <1>2. TimelockGood
    BY PendingAdminType, GovernorAssumption, QueueGood DEF IInv, GuardianQueue
  <1>3. GovernorGood
    BY <1>1, QuietGood DEF IInv, alphaVars
  <1>4. TribeTypeOK'
    BY <1>1 DEF TribeTypeOK, tribeVars, alphaVars, IInv
  <1> QED
    BY <1>2, <1>3, <1>4, GoodParts

LEMMA GuardianExecuteGood ==
  ASSUME IInv, NEW new \in Admins, NEW eta \in GuardianEtas, GuardianExecute(new, eta),
         moves' = moves
  PROVE  Good
  <1> DEFINE e == Entry(PendingAdminTx(new), eta)
  <1>1. UNCHANGED <<tribeVars, guardian, proposals, latestProposalIds, now>>
    BY DEF GuardianExecute, ExecuteTransactions
  <1>2. TimelockGood
    BY PendingAdminType, GovernorAssumption, ExecuteGood DEF IInv, GuardianExecute
  <1>3. ran' = ran \cup {e} /\ guardianRan' = guardianRan \cup {e}
    BY DEF GuardianExecute, ExecuteTransactions
  <1>4. GovernorGood
    BY <1>1, <1>3, QuietGood DEF IInv
  <1>5. e \in Entries
    BY PendingAdminType, GovernorAssumption, EntryType
  <1>6. TribeTypeOK'
    BY <1>1, <1>3, <1>5 DEF TribeTypeOK, tribeVars, IInv
  <1> QED
    BY <1>2, <1>4, <1>6, GoodParts

LEMMA MoveVotesGood ==
  ASSUME IInv, NEW v \in Voters, NEW w \in Voters \ {v}, NEW n \in 1 .. votes[v],
         MoveVotes(v, w, n), moves' \in Nat
  PROVE  Good
  <1>1. UNCHANGED <<timelockVars, prior, alphaVars>>
    BY DEF MoveVotes
  <1>2. TimelockGood /\ UNCHANGED <<now, ran>>
    BY <1>1, NoCallGood DEF IInv, TimelockInv, TimelockTypeOK, timelockVars, history
  <1>3. GovernorGood
    BY <1>1, <1>2, QuietGood DEF IInv, alphaVars
  <1>4. votes' \in [Voters -> Nat]
    <2>1. votes \in [Voters -> Nat] /\ n \in Nat /\ n <= votes[v]
      BY DEF MoveVotes, IInv, TribeTypeOK
    <2>2. votes' = [votes EXCEPT ![v] = @ - n, ![w] = @ + n]
      BY DEF MoveVotes
    <2> QED
      BY <2>1, <2>2
  <1>5. TribeTypeOK'
    BY <1>1, <1>2, <1>4 DEF TribeTypeOK, alphaVars, IInv
  <1> QED
    BY <1>2, <1>3, <1>5, GoodParts

LEMMA TimelockCallGood ==
  ASSUME IInv, UNCHANGED <<tribeVars, alphaVars>>, moves' \in Nat,
         CoreCall \/ \E by \in {Governor, Burner} : AcceptAdmin(by)
  PROVE  Good
  <1>1. TimelockGood /\ UNCHANGED <<now, ran>>
    <2>1. CASE CoreCall
      BY <2>1, CoreGood DEF IInv
    <2>2. CASE \E by \in {Governor, Burner} : AcceptAdmin(by)
      BY <2>2, AcceptGood DEF IInv, AcceptAdmin, history
    <2> QED
      BY <2>1, <2>2
  <1>2. GovernorGood
    BY <1>1, QuietGood DEF IInv, alphaVars
  <1>3. TribeTypeOK'
    BY <1>1 DEF TribeTypeOK, tribeVars, alphaVars, IInv
  <1> QED
    BY <1>1, <1>2, <1>3, GoodParts

LEMMA NextBlockGood ==
  ASSUME IInv, Tick
  PROVE  Good
  <1>1. now \in Nat /\ now' = now + 1 /\ now' \in Nat
    BY DEF Tick, IInv, TimelockInv, TimelockTypeOK
  <1>2. TimelockGood
    BY <1>1, NoCallGood DEF IInv, Tick
  <1>3. GovernorGood
    BY <1>1, TickGood DEF IInv, Tick, alphaVars, history
  <1>4. prior' \in Seq([Voters -> Nat]) /\ Len(prior') = now'
    BY <1>1 DEF Tick, IInv, TribeTypeOK
  <1>5. TribeTypeOK'
    BY <1>4 DEF Tick, IInv, TribeTypeOK, alphaVars
  <1> QED
    BY <1>2, <1>3, <1>5, GoodParts

LEMMA StutterGood ==
  ASSUME IInv, UNCHANGED vars
  PROVE  Good
  <1>1. UNCHANGED <<timelockVars, tribeVars, alphaVars, moves>>
    BY DEF vars
  <1>2. TimelockGood /\ UNCHANGED <<now, ran>>
    BY <1>1, NoCallGood DEF IInv, TimelockInv, TimelockTypeOK, timelockVars, history
  <1>3. GovernorGood
    BY <1>1, <1>2, QuietGood DEF IInv, alphaVars
  <1>4. TribeTypeOK'
    BY <1>1, <1>2 DEF TribeTypeOK, tribeVars, alphaVars, IInv
  <1> QED
    BY <1>2, <1>3, <1>4, GoodParts

-----------------------------------------------------------------------------
LEMMA InterveneGood ==
  ASSUME IInv, Intervene
  PROVE  Good
  <1>1. moves' \in Nat
    BY DEF Intervene, IInv, TribeTypeOK
  <1>2. CASE \E v \in Voters : \E w \in Voters \ {v}, n \in 1 .. votes[v] : MoveVotes(v, w, n)
    BY <1>1, <1>2, MoveVotesGood
  <1>3. CASE \E by \in Guardians \cup Voters, id \in Existing : Cancel(by, id)
    BY <1>1, <1>3, CancelProposalGood
  <1>4. CASE \E new \in Guardians \cup {NoGuardian} : SetGuardian(new)
    BY <1>1, <1>4, SetGuardianGood
  <1>5. CASE \E new \in Admins, eta \in GuardianEtas : GuardianQueue(new, eta)
    BY <1>1, <1>5, GuardianQueueGood
  <1>6. CASE /\ \/ \E e \in queued : VetoTransactions({e})
                \/ \E new \in Admins : GovernorSetPendingAdmin(new)
                \/ Pause
                \/ GiveUpGovernance
             /\ UNCHANGED <<tribeVars, alphaVars>>
    BY <1>1, <1>6, TimelockCallGood DEF CoreCall
  <1> QED
    BY <1>2, <1>3, <1>4, <1>5, <1>6 DEF Intervene

LEMMA CallGood ==
  ASSUME IInv, Call, UNCHANGED moves
  PROVE  Good
  <1>1. moves' \in Nat
    BY DEF IInv, TribeTypeOK
  <1>2. CASE \E v \in Voters, actions \in ActionSets : Propose(v, actions)
    BY <1>2, ProposeGood
  <1>3. CASE \E v \in Voters, id \in Existing, support \in BOOLEAN : CastVote(v, id, support)
    BY <1>3, CastVoteGood
  <1>4. CASE \E id \in Existing : Queue(id)
    BY <1>4, QueueProposalGood
  <1>5. CASE \E id \in Existing : Execute(id)
    BY <1>5, ExecuteProposalGood
  <1>6. CASE \E new \in Admins, eta \in GuardianEtas : GuardianExecute(new, eta)
    BY <1>6, GuardianExecuteGood
  <1>7. CASE \E by \in {Governor, Burner} : AcceptAdmin(by) /\ UNCHANGED <<tribeVars, alphaVars>>
    BY <1>1, <1>7, TimelockCallGood
  <1>8. CASE Unpause /\ UNCHANGED <<tribeVars, alphaVars>>
    BY <1>1, <1>8, TimelockCallGood DEF CoreCall
  <1>9. CASE Tick
    BY <1>9, NextBlockGood
  <1> QED
    BY <1>2, <1>3, <1>4, <1>5, <1>6, <1>7, <1>8, <1>9 DEF Call

LEMMA StepGood == IInv /\ [Next]_vars => Good
  BY InterveneGood, CallGood, StutterGood DEF Next

LEMMA InitIInv == Init => IInv
  <1> SUFFICES ASSUME Init PROVE IInv
    OBVIOUS
  <1>1. paused \in BOOLEAN /\ governed \in BOOLEAN
    BY Zenon DEF Init, TimelockInit
  <1>2. TimelockInv
    BY <1>1, TimelockAssumption DEF Init, TimelockInit, TimelockInv, TimelockTypeOK, Noticed
  <1>3. Existing = {} /\ GovernorTypeOK
    BY DEF Init, Existing, GovernorTypeOK
  <1>4. GovernorInv
    BY <1>3 DEF Init, TimelockInit, GovernorInv, AllWellFormed, LatestKnown, Voted
  <1>5. TribeTypeOK
    BY GovernorAssumption DEF Init, TimelockInit, TribeTypeOK
  <1> QED
    BY <1>2, <1>4, <1>5 DEF IInv

LEMMA Invariance == Spec => []IInv
  <1>1. IInv /\ [Next]_vars => IInv'
    BY StepGood DEF Good
  <1> QED
    BY <1>1, InitIInv, PTL DEF Spec

-----------------------------------------------------------------------------
(***************************************************************************)
(* What was counted and what was queued.  Two more parts of an invariant:   *)
(* the votes of every block add up to the supply, of which those counted    *)
(* on a proposal are the part of its voters in the block of its start; and  *)
(* an entry that two queued proposals share was taken out of the timelock,  *)
(* because queue refuses a transaction that is queued for the same time.    *)
(***************************************************************************)
Supply == SumOf(InitialVotes, Voters)

Tallied(p) ==
  \/ p.voters = {} /\ p.forVotes + p.againstVotes = 0
  \/ /\ p.startBlock < now
     /\ p.forVotes + p.againstVotes = SumOf(prior[p.startBlock + 1], p.voters)

TallyInv ==
  /\ SumOf(votes, Voters) = Supply
  /\ \A b \in 1 .. Len(prior) : SumOf(prior[b], Voters) = Supply
  /\ \A id \in Existing : Tallied(proposals[id])

Intercepted == vetoed \cup guardianRan

IsQueued(id) == id \in Existing /\ StateAt(proposals[id], now) = "Queued"

PromiseInv ==
  /\ \A id \in Existing : IsQueued(id) =>
       \A tx \in proposals[id].actions :
         Entry(tx, proposals[id].eta) \in queued \cup Intercepted
  /\ \A i, j \in Existing :
       i # j /\ IsQueued(i) /\ IsQueued(j) /\ proposals[i].eta = proposals[j].eta =>
         \A tx \in proposals[i].actions \cap proposals[j].actions :
           Entry(tx, proposals[i].eta) \in Intercepted

SameTally(q, p) ==
  /\ q.voters = p.voters /\ q.startBlock = p.startBlock
  /\ q.forVotes = p.forVotes /\ q.againstVotes = p.againstVotes

(* A proposal changes in place; a new one comes behind the others.          *)
LEMMA ReplacedProposals ==
  ASSUME GovernorTypeOK, NEW id \in Existing, NEW q,
         proposals' = [proposals EXCEPT ![id] = q]
  PROVE  /\ Existing' = Existing
         /\ \A j \in Existing : proposals'[j] = IF j = id THEN q ELSE proposals[j]
  BY DEF GovernorTypeOK, Existing

LEMMA AppendedProposals ==
  ASSUME GovernorTypeOK, NEW q, proposals' = Append(proposals, q)
  PROVE  /\ Existing' = Existing \cup {Len(proposals) + 1}
         /\ Len(proposals) + 1 \notin Existing
         /\ \A j \in Existing : proposals'[j] = proposals[j]
         /\ proposals'[Len(proposals) + 1] = q
  BY DEF GovernorTypeOK, Existing

(* Steps that count nothing: votes stay, or move to the next block.         *)
LEMMA TallyQuiet ==
  ASSUME TallyInv, UNCHANGED <<now, prior, votes>>,
         \A id \in Existing' :
           \/ id \in Existing /\ SameTally(proposals'[id], proposals[id])
           \/ Tallied(proposals'[id])
  PROVE  TallyInv'
  <1>1. \A id \in Existing' : Tallied(proposals'[id])
    BY DEF TallyInv, Tallied, SameTally
  <1> QED
    BY <1>1 DEF TallyInv, Tallied, Supply

LEMMA TallyTick ==
  ASSUME IInv, TallyInv, Tick
  PROVE  TallyInv'
  <1>1. /\ now \in Nat /\ now' = now + 1 /\ votes' = votes
        /\ proposals' = proposals /\ prior' = Append(prior, votes)
        /\ prior \in Seq([Voters -> Nat]) /\ Len(prior) = now
    BY DEF Tick, alphaVars, IInv, TimelockInv, TimelockTypeOK, TribeTypeOK
  <1>2. /\ Len(prior') = Len(prior) + 1 /\ prior'[Len(prior) + 1] = votes
        /\ \A b \in 1 .. Len(prior) : prior'[b] = prior[b]
    BY <1>1
  <1>3. \A b \in 1 .. Len(prior') : SumOf(prior'[b], Voters) = Supply
    BY <1>1, <1>2 DEF TallyInv
  <1>4. ASSUME NEW id \in Existing PROVE Tallied(proposals[id])'
    <2>1. Tallied(proposals[id]) /\ proposals[id] \in Proposals
      BY ExistingType DEF TallyInv, IInv
    <2>2. proposals[id].startBlock \in Nat
      BY <2>1 DEF Proposals
    <2>3. ASSUME proposals[id].startBlock < now
          PROVE  /\ proposals[id].startBlock < now'
                 /\ prior'[proposals[id].startBlock + 1] = prior[proposals[id].startBlock + 1]
      BY <1>1, <1>2, <2>2, <2>3
    <2> QED
      BY <1>1, <2>1, <2>3 DEF Tallied
  <1>5. Existing' = Existing
    BY <1>1 DEF Existing
  <1> QED
    BY <1>1, <1>3, <1>4, <1>5 DEF TallyInv, Supply

LEMMA TallyMove ==
  ASSUME IInv, TallyInv, NEW v \in Voters, NEW w \in Voters \ {v}, NEW n \in 1 .. votes[v],
         MoveVotes(v, w, n)
  PROVE  TallyInv'
  <1>1. /\ UNCHANGED <<now, prior, proposals>>
        /\ votes' = [votes EXCEPT ![v] = @ - n, ![w] = @ + n]
        /\ votes \in [Voters -> Int] /\ n \in Int /\ w \in Voters
    BY DEF MoveVotes, timelockVars, alphaVars, IInv, TribeTypeOK
  <1>2. votes' = Move(votes, v, w, n)
    BY <1>1 DEF Move
  <1>3. IsFiniteSet(Voters)
    BY GovernorAssumption
  <1>4. /\ SumOf(votes, Voters) \in Int
        /\ SumOf(Move(votes, v, w, n), Voters) =
             SumOf(votes, Voters) - (IF v \in Voters THEN n ELSE 0)
                                  + (IF w \in Voters THEN n ELSE 0)
    BY <1>1, <1>3, SumMove
  <1>5. SumOf(votes', Voters) = SumOf(votes, Voters)
    <2>1. SumOf(votes', Voters) = SumOf(Move(votes, v, w, n), Voters)
      BY <1>2, Zenon
    <2>2. SumOf(Move(votes, v, w, n), Voters) = SumOf(votes, Voters) - n + n
      BY <1>1, <1>4
    <2> QED
      BY <1>1, <1>4, <2>1, <2>2
  <1> QED
    BY <1>1, <1>5 DEF TallyInv, Tallied, Supply, Existing

(* castVote adds a voter that had not voted, with its votes of the block.   *)
LEMMA TallyVote ==
  ASSUME IInv, TallyInv, NEW v \in Voters, NEW id \in Existing, NEW support \in BOOLEAN,
         CastVote(v, id, support)
  PROVE  TallyInv'
  <1> DEFINE p == proposals[id]
             f == prior[p.startBlock + 1]
             q == Counted(p, v, support, f[v])
  <1>1. /\ p \in Proposals /\ StateAt(p, now) = "Active" /\ v \notin p.voters
        /\ proposals' = [proposals EXCEPT ![id] = q]
        /\ UNCHANGED <<now, prior, votes>>
    BY ExistingType DEF IInv, CastVote, PriorVotes, timelockVars, tribeVars
  <1>2. /\ p.startBlock \in Nat /\ now \in Nat /\ p.startBlock < now
        /\ p.voters \subseteq Voters /\ p.forVotes \in Nat /\ p.againstVotes \in Nat
    BY <1>1 DEF Proposals, StateAt, IInv, TimelockInv, TimelockTypeOK
  <1>3. f \in [Voters -> Nat]
    <2>1. prior \in Seq([Voters -> Nat]) /\ Len(prior) = now
      BY DEF IInv, TribeTypeOK
    <2>2. p.startBlock + 1 \in 1 .. Len(prior)
      BY <1>2, <2>1
    <2> QED
      BY <2>1, <2>2, ElementOfSeq
  <1> HIDE DEF f
  <1>4. /\ q.startBlock = p.startBlock /\ q.voters = p.voters \cup {v}
        /\ q.forVotes + q.againstVotes = p.forVotes + p.againstVotes + f[v]
    <2> DEFINE Recount(a, b, s) ==
          [p EXCEPT !.forVotes = a, !.againstVotes = b, !.voters = s]
    <2>1. \A a \in Nat, b \in Nat, s \in SUBSET Voters :
            /\ Recount(a, b, s).startBlock = p.startBlock
            /\ Recount(a, b, s).voters = s
            /\ Recount(a, b, s).forVotes = a /\ Recount(a, b, s).againstVotes = b
      <3> HIDE DEF p
      <3> QED
        BY <1>1 DEF Proposals
    <2>2. f[v] \in Nat /\ p.forVotes + f[v] \in Nat /\ p.againstVotes + f[v] \in Nat
      BY <1>2, <1>3
    <2>3. q = IF support THEN Recount(p.forVotes + f[v], p.againstVotes, p.voters \cup {v})
              ELSE Recount(p.forVotes, p.againstVotes + f[v], p.voters \cup {v})
      <3> HIDE DEF p
      <3> QED
        BY <1>1 DEF Counted, Proposals
    <2>4. p.voters \cup {v} \in SUBSET Voters
      BY <1>2
    <2> HIDE DEF Recount, p, q
    <2>5. CASE support
      BY <1>2, <2>1, <2>2, <2>3, <2>4, <2>5
    <2>6. CASE ~support
      BY <1>2, <2>1, <2>2, <2>3, <2>4, <2>6
    <2> QED
      BY <2>5, <2>6
  <1>5. p.forVotes + p.againstVotes = SumOf(f, p.voters)
    <2>1. Tallied(p)
      BY DEF TallyInv
    <2>2. SumOf(f, {}) = 0
      BY SumEmpty
    <2>3. CASE p.voters = {} /\ p.forVotes + p.againstVotes = 0
      <3>1. SumOf(f, p.voters) = SumOf(f, {})
        BY <2>3, Zenon
      <3> QED
        BY <2>2, <2>3, <3>1
    <2> QED
      BY <2>1, <2>3 DEF Tallied, f
  <1>6. SumOf(f, p.voters \cup {v}) = f[v] + SumOf(f, p.voters)
    <2> DEFINE s == p.voters \cup {v}
    <2>1. IsFiniteSet(s) /\ v \in s /\ \A x \in s : f[x] \in Int
      BY <1>2, <1>3, GovernorAssumption, FS_Subset
    <2>2. s \ {v} = p.voters
      BY <1>1
    <2>3. SumOf(f, s) = f[v] + SumOf(f, s \ {v})
      <3> HIDE DEF s
      <3> QED
        BY <2>1, SumTake
    <2> QED
      BY <2>2, <2>3, Zenon
  <1>7. Tallied(q)
    <2>1. SumOf(f, p.voters) \in Nat /\ f[v] \in Nat
      BY <1>2, <1>3, <1>5
    <2>2. SumOf(f, q.voters) = SumOf(f, p.voters \cup {v})
      BY <1>4, Zenon
    <2>3. q.forVotes + q.againstVotes = SumOf(f, q.voters)
      <3> HIDE DEF p, q
      <3> QED
        BY <1>4, <1>5, <1>6, <2>1, <2>2
    <2>4. q.startBlock < now /\ f = prior[q.startBlock + 1]
      BY <1>2, <1>4 DEF f
    <2> QED
      BY <2>3, <2>4 DEF Tallied
  <1>8. /\ Existing' = Existing
        /\ \A j \in Existing : proposals'[j] = IF j = id THEN q ELSE proposals[j]
    <2> HIDE DEF q
    <2> QED
      BY <1>1, ReplacedProposals DEF IInv, GovernorInv
  <1> HIDE DEF q
  <1> QED
    BY <1>1, <1>7, <1>8, TallyQuiet DEF SameTally

(* A proposal queued after a step that was queued before, with the same     *)
(* terms, and of which the step took nothing out of the timelock but what   *)
(* it vetoed or the guardian ran.                                           *)
Kept(id) ==
  /\ IsQueued(id)
  /\ proposals'[id].actions = proposals[id].actions
  /\ proposals'[id].eta = proposals[id].eta
  /\ \A tx \in proposals[id].actions :
       Entry(tx, proposals[id].eta) \in queued =>
         Entry(tx, proposals[id].eta) \in queued' \cup Intercepted'

LEMMA PromiseKept ==
  ASSUME PromiseInv, Intercepted \subseteq Intercepted',
         \A id \in Existing' : IsQueued(id)' => Kept(id)
  PROVE  PromiseInv'
  <1>1. ASSUME NEW id \in Existing', IsQueued(id)', NEW tx \in proposals'[id].actions
        PROVE  Entry(tx, proposals'[id].eta) \in queued' \cup Intercepted'
    BY <1>1 DEF PromiseInv, Kept, IsQueued
  <1>2. ASSUME NEW i \in Existing', NEW j \in Existing', i # j, IsQueued(i)', IsQueued(j)',
               proposals'[i].eta = proposals'[j].eta,
               NEW tx \in proposals'[i].actions \cap proposals'[j].actions
        PROVE  Entry(tx, proposals'[i].eta) \in Intercepted'
    <2>1. /\ IsQueued(i) /\ IsQueued(j) /\ proposals[i].eta = proposals[j].eta
          /\ proposals'[i].eta = proposals[i].eta
          /\ tx \in proposals[i].actions \cap proposals[j].actions
      BY <1>2 DEF Kept
    <2>2. Entry(tx, proposals[i].eta) \in Intercepted
      BY <1>2, <2>1 DEF PromiseInv, IsQueued
    <2> QED
      BY <2>1, <2>2
  <1> QED
    BY <1>1, <1>2 DEF PromiseInv

(* Calls of the timelock that leave the proposals alone.                    *)
LEMMA PromiseCall ==
  ASSUME PromiseInv, UNCHANGED <<now, proposals>>, Intercepted \subseteq Intercepted',
         queued \subseteq queued' \cup Intercepted'
  PROVE  PromiseInv'
  <1>1. ASSUME NEW id \in Existing', IsQueued(id)' PROVE Kept(id)
    BY <1>1 DEF Kept, IsQueued, Existing
  <1> QED
    BY <1>1, PromiseKept

(* One proposal changes, and is not queued after that.                      *)
LEMMA PromiseReplace ==
  ASSUME IInv, PromiseInv, NEW id \in Existing, NEW q,
         proposals' = [proposals EXCEPT ![id] = q],
         UNCHANGED <<now, vetoed, guardianRan>>,
         StateAt(q, now) # "Queued",
         \A j \in Existing \ {id} : IsQueued(j) =>
           \A tx \in proposals[j].actions :
             Entry(tx, proposals[j].eta) \in queued =>
               Entry(tx, proposals[j].eta) \in queued' \cup Intercepted
  PROVE  PromiseInv'
  <1>1. /\ Existing' = Existing
        /\ \A j \in Existing : proposals'[j] = IF j = id THEN q ELSE proposals[j]
    BY ReplacedProposals DEF IInv, GovernorInv
  <1>2. Intercepted' = Intercepted
    BY DEF Intercepted
  <1>3. ASSUME NEW j \in Existing', IsQueued(j)' PROVE Kept(j)
    <2>1. j # id /\ j \in Existing /\ proposals'[j] = proposals[j]
      BY <1>1, <1>3 DEF IsQueued
    <2>2. IsQueued(j)
      BY <1>3, <2>1 DEF IsQueued
    <2> QED
      BY <1>2, <2>1, <2>2 DEF Kept
  <1> QED
    BY <1>2, <1>3, PromiseKept

LEMMA PromisePropose ==
  ASSUME IInv, PromiseInv, NEW v \in Voters, NEW actions \in ActionSets, Propose(v, actions)
  PROVE  PromiseInv'
  <1> DEFINE new == Proposal(v, actions, now + VotingDelay, now + VotingDelay + VotingPeriod)
  <1>1. /\ UNCHANGED <<now, queued, vetoed, guardianRan>>
        /\ proposals' = Append(proposals, new)
    BY DEF Propose, timelockVars, history
  <1>2. /\ Existing' = Existing \cup {Len(proposals) + 1}
        /\ \A j \in Existing : proposals'[j] = proposals[j]
        /\ proposals'[Len(proposals) + 1] = new
    <2> HIDE DEF new
    <2> QED
      BY <1>1, AppendedProposals DEF IInv, GovernorInv
  <1>3. StateAt(new, now) = "Pending"
    <2>1. now \in Nat /\ VotingDelay \in Nat
      BY GovernorAssumption DEF IInv, TimelockInv, TimelockTypeOK
    <2> QED
      BY <2>1 DEF StateAt, Proposal
  <1> HIDE DEF new
  <1>4. ASSUME NEW j \in Existing', IsQueued(j)' PROVE Kept(j)
    <2>1. j \in Existing /\ proposals'[j] = proposals[j]
      BY <1>1, <1>2, <1>3, <1>4 DEF IsQueued
    <2> QED
      BY <1>1, <1>4, <2>1 DEF Kept, IsQueued
  <1> QED
    BY <1>1, <1>4, PromiseKept DEF Intercepted

(* queue refuses a transaction that is queued for the same time: one that   *)
(* another queued proposal has too was taken out before.                    *)
LEMMA PromiseQueue ==
  ASSUME IInv, PromiseInv, NEW id \in Existing, Queue(id)
  PROVE  PromiseInv'
  <1> DEFINE p == proposals[id]
             q == [p EXCEPT !.eta = now + delay]
  <1>1. /\ UNCHANGED <<now, vetoed, guardianRan>>
        /\ proposals' = [proposals EXCEPT ![id] = q]
        /\ queued' = queued \cup {Entry(tx, now + delay) : tx \in p.actions}
        /\ \A tx \in p.actions : Entry(tx, now + delay) \notin queued
    BY DEF Queue, QueueTransactions
  <1>2. p \in Proposals
    BY ExistingType DEF IInv
  <1>3. q.actions = p.actions /\ q.eta = now + delay
    <2> HIDE DEF p
    <2> QED
      BY <1>2 DEF Proposals
  <1> HIDE DEF q, p
  <1>4. /\ Existing' = Existing
        /\ \A j \in Existing : proposals'[j] = IF j = id THEN q ELSE proposals[j]
    BY <1>1, ReplacedProposals DEF IInv, GovernorInv
  <1>5. ASSUME NEW j \in Existing \ {id}
        PROVE  proposals'[j] = proposals[j] /\ (IsQueued(j)' => IsQueued(j))
    BY <1>1, <1>4 DEF IsQueued
  <1>6. proposals'[id] = q /\ Intercepted' = Intercepted
    BY <1>1, <1>4 DEF Intercepted
  <1>7. ASSUME NEW j \in Existing, IsQueued(j)', NEW tx \in proposals'[j].actions
        PROVE  Entry(tx, proposals'[j].eta) \in queued' \cup Intercepted'
    <2>1. CASE j = id
      BY <1>1, <1>3, <1>6, <1>7, <2>1
    <2>2. CASE j # id
      BY <1>1, <1>5, <1>6, <1>7, <2>2 DEF PromiseInv
    <2> QED
      BY <2>1, <2>2
  <1>8. ASSUME NEW j \in Existing \ {id}, IsQueued(j)', proposals'[j].eta = q.eta,
               NEW tx \in proposals'[j].actions \cap q.actions
        PROVE  Entry(tx, q.eta) \in Intercepted'
    <2>1. Entry(tx, q.eta) \in queued \cup Intercepted
      BY <1>5, <1>8 DEF PromiseInv
    <2> QED
      BY <1>1, <1>3, <1>6, <1>8, <2>1
  <1>9. ASSUME NEW i \in Existing, NEW j \in Existing, i # j, IsQueued(i)', IsQueued(j)',
               proposals'[i].eta = proposals'[j].eta,
               NEW tx \in proposals'[i].actions \cap proposals'[j].actions
        PROVE  Entry(tx, proposals'[i].eta) \in Intercepted'
    <2>1. CASE i = id
      BY <1>6, <1>8, <1>9, <2>1
    <2>2. CASE j = id
      BY <1>6, <1>8, <1>9, <2>2
    <2>3. CASE i # id /\ j # id
      BY <1>5, <1>6, <1>9, <2>3 DEF PromiseInv
    <2> QED
      BY <2>1, <2>2, <2>3
  <1> QED
    BY <1>4, <1>7, <1>9 DEF PromiseInv

(* execute takes out its own entries; another queued proposal that has one  *)
(* of them had lost it before.                                              *)
LEMMA PromiseExecute ==
  ASSUME IInv, PromiseInv, NEW id \in Existing, Execute(id)
  PROVE  PromiseInv'
  <1> DEFINE p == proposals[id]
             q == [p EXCEPT !.executed = TRUE]
  <1>1. /\ UNCHANGED <<now, vetoed, guardianRan>>
        /\ proposals' = [proposals EXCEPT ![id] = q]
        /\ queued' = queued \ {Entry(tx, p.eta) : tx \in p.actions}
        /\ p \in Proposals /\ StateAt(p, now) = "Queued"
    BY ExistingType DEF Execute, ExecuteTransactions, IInv
  <1>2. StateAt(q, now) # "Queued"
    <2>1. q.executed
      <3> HIDE DEF p
      <3> QED
        BY <1>1 DEF Proposals
    <2> HIDE DEF q
    <2> QED
      BY <2>1 DEF StateAt
  <1>3. IsQueued(id)
    BY <1>1 DEF IsQueued
  <1>4. ASSUME NEW j \in Existing \ {id}, IsQueued(j), NEW tx \in proposals[j].actions,
               Entry(tx, proposals[j].eta) \in queued
        PROVE  Entry(tx, proposals[j].eta) \in queued' \cup Intercepted
    <2>1. ASSUME Entry(tx, proposals[j].eta) \notin queued'
          PROVE  Entry(tx, proposals[j].eta) \in Intercepted
      <3>1. tx \in p.actions /\ proposals[j].eta = p.eta
        BY <1>1, <1>4, <2>1 DEF Entry
      <3> QED
        BY <1>3, <1>4, <3>1 DEF PromiseInv
    <2> QED
      BY <2>1
  <1> HIDE DEF q, p
  <1> QED
    BY <1>1, <1>2, <1>4, PromiseReplace

(* A live proposal has no eta: what cancel takes out, nobody has queued.    *)
LEMMA PromiseCancel ==
  ASSUME IInv, PromiseInv, NEW by, NEW id \in Existing, Cancel(by, id)
  PROVE  PromiseInv'
  <1> DEFINE p == proposals[id]
             q == [p EXCEPT !.canceled = TRUE]
  <1>1. /\ UNCHANGED <<now, vetoed, guardianRan>>
        /\ proposals' = [proposals EXCEPT ![id] = q]
        /\ queued' = queued \ {Entry(tx, p.eta) : tx \in p.actions}
        /\ p \in Proposals /\ LiveAt(p, now) /\ WellFormed(p, now)
    BY ExistingType DEF Cancel, CancelTransactions, IInv, history, Live, LiveAt
  <1>2. StateAt(q, now) # "Queued"
    <2>1. q.canceled
      <3> HIDE DEF p
      <3> QED
        BY <1>1 DEF Proposals
    <2> HIDE DEF q
    <2> QED
      BY <2>1 DEF StateAt
  <1>3. p.eta = 0
    <2>1. now \in Nat /\ p.endBlock \in Nat /\ p.startBlock \in Nat
      BY <1>1 DEF IInv, TimelockInv, TimelockTypeOK, Proposals
    <2> QED
      BY <1>1, <2>1 DEF LiveAt, StateAt, WellFormed
  <1>4. ASSUME NEW j \in Existing \ {id}, IsQueued(j), NEW tx \in proposals[j].actions,
               Entry(tx, proposals[j].eta) \in queued
        PROVE  Entry(tx, proposals[j].eta) \in queued' \cup Intercepted
    <2>1. proposals[j].eta # 0
      BY <1>4 DEF IsQueued, StateAt
    <2>2. Entry(tx, proposals[j].eta) \in queued'
      BY <1>1, <1>3, <1>4, <2>1 DEF Entry
    <2> QED
      BY <2>2
  <1> HIDE DEF q, p
  <1> QED
    BY <1>1, <1>2, <1>4, PromiseReplace

LEMMA PromiseVote ==
  ASSUME IInv, PromiseInv, NEW v \in Voters, NEW id \in Existing, NEW support \in BOOLEAN,
         CastVote(v, id, support)
  PROVE  PromiseInv'
  <1> DEFINE p == proposals[id]
             amount == PriorVotes(v, p.startBlock)
             q == Counted(p, v, support, amount)
  <1>1. /\ proposals' = [proposals EXCEPT ![id] = q]
        /\ UNCHANGED <<now, queued, vetoed, guardianRan>>
        /\ p \in Proposals /\ StateAt(p, now) = "Active"
    BY ExistingType DEF IInv, CastVote, timelockVars, history
  <1>2. now \in Nat /\ p.startBlock \in Nat /\ p.startBlock < now
    BY <1>1 DEF IInv, TimelockInv, TimelockTypeOK, Proposals, StateAt
  <1>3. amount \in Nat
    BY <1>2 DEF PriorVotes, IInv, TribeTypeOK
  <1>4. SameTerms(q, p)
    <2> HIDE DEF amount, p
    <2> QED
      BY <1>1, <1>3, CountedType
  <1> HIDE DEF q, p
  <1>5. StateAt(q, now) # "Queued"
    BY <1>1, <1>4 DEF StateAt, SameTerms
  <1> QED
    BY <1>1, <1>5, PromiseReplace

LEMMA PromiseTick ==
  ASSUME IInv, PromiseInv, Tick
  PROVE  PromiseInv'
  <1>1. /\ now \in Nat /\ now' = now + 1
        /\ UNCHANGED <<proposals, queued, vetoed, guardianRan>>
    BY DEF Tick, alphaVars, history, IInv, TimelockInv, TimelockTypeOK
  <1>2. ASSUME NEW id \in Existing', IsQueued(id)' PROVE Kept(id)
    <2>1. id \in Existing /\ StateAt(proposals[id], now + 1) = "Queued"
      BY <1>1, <1>2 DEF IsQueued, Existing
    <2>2. proposals[id] \in Proposals /\ WellFormed(proposals[id], now)
      BY <2>1, ExistingType DEF IInv
    <2>3. /\ proposals[id].startBlock \in Nat /\ proposals[id].endBlock \in Nat
          /\ proposals[id].eta \in Nat /\ GracePeriod \in Nat
      BY <2>2, TimelockAssumption DEF Proposals
    <2>4. StateAt(proposals[id], now) = "Queued"
      BY <1>1, <2>1, <2>2, <2>3 DEF StateAt, WellFormed
    <2> QED
      BY <1>1, <2>1, <2>4 DEF Kept, IsQueued
  <1> QED
    BY <1>1, <1>2, PromiseKept DEF Intercepted

FullInv == IInv /\ TallyInv /\ PromiseInv

SideGood == TallyInv' /\ PromiseInv'

(* Calls of the timelock do not count, and what counts is not queued.       *)
LEMMA SideTimelock ==
  ASSUME FullInv, UNCHANGED <<tribeVars, proposals, now>>,
         Intercepted \subseteq Intercepted', queued \subseteq queued' \cup Intercepted'
  PROVE  SideGood
  <1>1. TallyInv'
    BY TallyQuiet DEF FullInv, tribeVars, SameTally, Existing
  <1> QED
    BY <1>1, PromiseCall DEF FullInv, SideGood

(* queue, execute and cancel leave the count of their proposal alone.       *)
LEMMA SideReplace ==
  ASSUME FullInv, NEW id \in Existing, NEW q, proposals' = [proposals EXCEPT ![id] = q],
         SameTally(q, proposals[id]), UNCHANGED <<tribeVars, now>>
  PROVE  TallyInv'
  <1>1. /\ Existing' = Existing
        /\ \A j \in Existing : proposals'[j] = IF j = id THEN q ELSE proposals[j]
    BY ReplacedProposals DEF FullInv, IInv, GovernorInv
  <1> QED
    BY <1>1, TallyQuiet DEF FullInv, tribeVars, SameTally

LEMMA SideIntervene == ASSUME FullInv, Intervene PROVE SideGood
  <1>1. ASSUME NEW v \in Voters, NEW w \in Voters \ {v}, NEW n \in 1 .. votes[v],
               MoveVotes(v, w, n)
        PROVE  SideGood
    <2>1. TallyInv'
      BY <1>1, TallyMove DEF FullInv
    <2>2. /\ UNCHANGED <<now, proposals, queued>>
          /\ UNCHANGED <<vetoed, guardianRan>>
      BY <1>1 DEF MoveVotes, timelockVars, alphaVars, history
    <2>3. PromiseInv'
      BY <2>2, PromiseCall DEF FullInv, Intercepted
    <2> QED
      BY <2>1, <2>3 DEF SideGood
  <1>2. ASSUME NEW by, NEW id \in Existing, Cancel(by, id) PROVE SideGood
    <2> DEFINE q == [proposals[id] EXCEPT !.canceled = TRUE]
    <2>1. proposals[id] \in Proposals
      BY ExistingType DEF FullInv, IInv
    <2>2. SameTally(q, proposals[id])
      BY <2>1 DEF SameTally, Proposals
    <2>3. proposals' = [proposals EXCEPT ![id] = q] /\ UNCHANGED <<tribeVars, now>>
      BY <1>2 DEF Cancel, CancelTransactions
    <2> HIDE DEF q
    <2>4. TallyInv'
      BY <2>2, <2>3, SideReplace
    <2> QED
      BY <1>2, <2>4, PromiseCancel DEF FullInv, SideGood
  <1>3. ASSUME NEW new, SetGuardian(new) PROVE SideGood
    BY <1>3, SideTimelock DEF SetGuardian, timelockVars, history, Intercepted
  <1>4. ASSUME NEW new, NEW eta, GuardianQueue(new, eta) PROVE SideGood
    BY <1>4, SideTimelock DEF GuardianQueue, QueueTransactions, alphaVars, Intercepted
  <1>5. ASSUME UNCHANGED <<tribeVars, alphaVars>>, CoreCall PROVE SideGood
    BY <1>5, SideTimelock DEF CoreCall, VetoTransactions, GovernorSetPendingAdmin, Pause,
         Unpause, GiveUpGovernance, alphaVars, history, Intercepted
  <1> QED
    BY <1>1, <1>2, <1>3, <1>4, <1>5 DEF Intervene, CoreCall

LEMMA SideCall == ASSUME FullInv, Call PROVE SideGood
  <1>1. ASSUME NEW v \in Voters, NEW actions \in ActionSets, Propose(v, actions)
        PROVE  SideGood
    <2> DEFINE new == Proposal(v, actions, now + VotingDelay, now + VotingDelay + VotingPeriod)
    <2>1. proposals' = Append(proposals, new) /\ UNCHANGED <<now, prior, votes>>
      BY <1>1 DEF Propose, timelockVars, tribeVars
    <2>2. new.voters = {} /\ new.forVotes + new.againstVotes = 0
      BY DEF Proposal
    <2> HIDE DEF new
    <2>3. /\ Existing' = Existing \cup {Len(proposals) + 1}
          /\ \A j \in Existing : proposals'[j] = proposals[j]
          /\ proposals'[Len(proposals) + 1] = new
      BY <2>1, AppendedProposals DEF FullInv, IInv, GovernorInv
    <2>4. TallyInv'
      BY <2>1, <2>2, <2>3, TallyQuiet DEF FullInv, SameTally, Tallied
    <2> QED
      BY <1>1, <2>4, PromisePropose DEF FullInv, SideGood
  <1>2. ASSUME NEW v \in Voters, NEW id \in Existing, NEW support \in BOOLEAN,
               CastVote(v, id, support)
        PROVE  SideGood
    BY <1>2, TallyVote, PromiseVote DEF FullInv, SideGood
  <1>3. ASSUME NEW id \in Existing, Queue(id) PROVE SideGood
    <2> DEFINE q == [proposals[id] EXCEPT !.eta = now + delay]
    <2>1. proposals[id] \in Proposals
      BY ExistingType DEF FullInv, IInv
    <2>2. SameTally(q, proposals[id])
      BY <2>1 DEF SameTally, Proposals
    <2>3. proposals' = [proposals EXCEPT ![id] = q] /\ UNCHANGED <<tribeVars, now>>
      BY <1>3 DEF Queue, QueueTransactions
    <2> HIDE DEF q
    <2>4. TallyInv'
      BY <2>2, <2>3, SideReplace
    <2> QED
      BY <1>3, <2>4, PromiseQueue DEF FullInv, SideGood
  <1>4. ASSUME NEW id \in Existing, Execute(id) PROVE SideGood
    <2> DEFINE q == [proposals[id] EXCEPT !.executed = TRUE]
    <2>1. proposals[id] \in Proposals
      BY ExistingType DEF FullInv, IInv
    <2>2. SameTally(q, proposals[id])
      BY <2>1 DEF SameTally, Proposals
    <2>3. proposals' = [proposals EXCEPT ![id] = q] /\ UNCHANGED <<tribeVars, now>>
      BY <1>4 DEF Execute, ExecuteTransactions
    <2> HIDE DEF q
    <2>4. TallyInv'
      BY <2>2, <2>3, SideReplace
    <2> QED
      BY <1>4, <2>4, PromiseExecute DEF FullInv, SideGood
  <1>5. ASSUME NEW new, NEW eta, GuardianExecute(new, eta) PROVE SideGood
    BY <1>5, SideTimelock DEF GuardianExecute, ExecuteTransactions, Intercepted
  <1>6. ASSUME UNCHANGED <<tribeVars, alphaVars>>, Unpause \/ \E by : AcceptAdmin(by)
        PROVE  SideGood
    BY <1>6, SideTimelock DEF Unpause, AcceptAdmin, alphaVars, history, Intercepted
  <1>7. ASSUME Tick PROVE SideGood
    BY <1>7, TallyTick, PromiseTick DEF FullInv, SideGood
  <1> QED
    BY <1>1, <1>2, <1>3, <1>4, <1>5, <1>6, <1>7 DEF Call

LEMMA FullInvariance == Spec => []FullInv
  <1>1. Init => FullInv
    <2> SUFFICES ASSUME Init PROVE FullInv
      OBVIOUS
    <2>1. IInv /\ Existing = {} /\ Len(prior) = 0
      BY InitIInv DEF Init, Existing
    <2>2. SumOf(votes, Voters) = Supply
      BY DEF Init, Supply
    <2> QED
      BY <2>1, <2>2 DEF FullInv, TallyInv, PromiseInv
  <1>2. FullInv /\ [Next]_vars => FullInv'
    <2> SUFFICES ASSUME FullInv, [Next]_vars PROVE FullInv'
      OBVIOUS
    <2>1. IInv'
      BY StepGood DEF FullInv, Good
    <2>2. ASSUME UNCHANGED vars PROVE SideGood
      BY <2>2, SideTimelock DEF vars, timelockVars, alphaVars, history, Intercepted
    <2>3. ASSUME Next PROVE SideGood
      BY <2>3, SideIntervene, SideCall DEF Next
    <2>4. SideGood
      BY <2>2, <2>3
    <2> QED
      BY <2>1, <2>4 DEF FullInv, SideGood
  <1> QED
    BY <1>1, <1>2, PTL DEF Spec

-----------------------------------------------------------------------------
(* No call breaks the types: no vote, delay or entry is out of range, and   *)
(* there is always an admin.                                                *)
THEOREM TypeCorrect == Spec => []TypeOK
  <1>1. IInv => TypeOK
    BY TypeParts DEF IInv, TimelockInv, GovernorInv
  <1> QED
    BY <1>1, Invariance, PTL

(* However a proposer's votes come and go, no two of the proposals it made  *)
(* are pending or active at a time.                                         *)
THEOREM OneAtATime == Spec => []OneLiveProposal
  <1>1. IInv => OneLiveProposal
    BY StateIsStateAt DEF IInv, GovernorInv, LatestKnown, OneLiveProposal, Live, LiveAt
  <1> QED
    BY <1>1, Invariance, PTL

(* All that the timelock ever executes was decided by a vote, which still   *)
(* stands, or is a hand-over that the guardian asked for.                   *)
THEOREM ExecutedByVote == Spec => []OnlyThePassed
  <1>1. IInv => OnlyThePassed
    BY StateIsStateAt DEF IInv, GovernorInv, Voted, OnlyThePassed
  <1> QED
    BY <1>1, Invariance, PTL

(* Proposals go through their states in order, and none comes back.         *)
THEOREM ProposalsAgeInOrder == Spec => LifeCycle
  <1>1. IInv /\ [Next]_vars =>
          [\A id \in Existing :
             State(id)' # State(id) => State(id)' \in Successors[State(id)]]_vars
    <2>1. SUFFICES ASSUME IInv, Next, NEW id \in Existing
                   PROVE  State(id)' # State(id) => State(id)' \in Successors[State(id)]
      BY DEF vars
    <2>2. LifeStep
      BY <2>1, StepGood DEF Good
    <2>3. State(id) = StateAt(proposals[id], now)
      BY StateIsStateAt
    <2>4. State(id)' = StateAt(proposals'[id], now')
      BY DEF State, StateOf, StateAt, Passed
    <2> QED
      BY <2>2, <2>3, <2>4 DEF LifeStep, Succeeds
  <1> QED
    BY <1>1, Invariance, PTL DEF Spec, LifeCycle

(* Whatever runs was queued at least the minimum delay ago.                 *)
THEOREM AlwaysNoticed == Spec => NoticeGiven
  <1>1. IInv /\ [Next]_vars => [NoticeStep]_timelockVars
    BY StepGood DEF Good
  <1> QED
    BY <1>1, Invariance, PTL DEF Spec, NoticeGiven, NoticeStep

(* Once the burner is the admin, no other is pending and Core has nobody    *)
(* left to name one, the timelock is out of use for ever.                   *)
THEOREM BurningIsFinal == Spec => BurnIsFinal
  <1>1. IInv /\ [Next]_vars => [BurnStep]_timelockVars
    BY StepGood DEF Good
  <1> QED
    BY <1>1, Invariance, PTL DEF Spec, BurnIsFinal, BurnStep

(* Whatever TRIBE moves between holders while a vote is open, what is       *)
(* counted on a proposal never exceeds the supply.                          *)
THEOREM VotesCountOnce == Spec => []NoVoteTwice
  <1>1. FullInv => NoVoteTwice
    <2>1. SUFFICES ASSUME FullInv, NEW id \in Existing
                   PROVE  proposals[id].forVotes + proposals[id].againstVotes <= Supply
      BY DEF NoVoteTwice, Supply, SumOf
    <2> DEFINE p == proposals[id]
               f == prior[p.startBlock + 1]
    <2>2. p \in Proposals /\ Tallied(p)
      BY <2>1, ExistingType DEF FullInv, IInv, TallyInv
    <2>3. IsFiniteSet(Voters) /\ \A v \in Voters : InitialVotes[v] \in Nat
      BY GovernorAssumption
    <2>4. CASE p.voters = {} /\ p.forVotes + p.againstVotes = 0
      <3>1. Supply \in Nat
        BY <2>3, SumNat DEF Supply
      <3> QED
        BY <2>4, <3>1
    <2>5. CASE /\ p.startBlock < now
               /\ p.forVotes + p.againstVotes = SumOf(f, p.voters)
      <3>1. p.startBlock \in Nat /\ now \in Nat /\ p.voters \in SUBSET Voters
        BY <2>1, <2>2 DEF Proposals, FullInv, IInv, TimelockInv, TimelockTypeOK
      <3>2. prior \in Seq([Voters -> Nat]) /\ Len(prior) = now
        BY <2>1 DEF FullInv, IInv, TribeTypeOK
      <3>3. p.startBlock + 1 \in 1 .. Len(prior)
        BY <2>5, <3>1, <3>2
      <3>4. f \in [Voters -> Nat] /\ SumOf(f, Voters) = Supply
        BY <2>1, <3>2, <3>3, ElementOfSeq DEF FullInv, TallyInv
      <3> HIDE DEF f
      <3>5. SumOf(f, p.voters) <= SumOf(f, Voters)
        BY <2>3, <3>1, <3>4, SumSubset
      <3> QED
        BY <2>5, <3>4, <3>5
    <2> QED
      BY <2>2, <2>4, <2>5 DEF Tallied
  <1> QED
    BY <1>1, FullInvariance, PTL

(* A queued proposal is in time for the timelock and finds all its          *)
(* transactions there when it is executed, or the guardian or a veto took   *)
(* them out: no other proposal did.                                         *)
THEOREM QueuedStaysExecutable == Spec => []QueuedIsExecutable
  <1>1. ASSUME FullInv, NEW id \in Existing, State(id) = "Queued"
        PROVE  Fresh(proposals[id].eta)
    <2>1. proposals[id].eta \in Nat /\ now \in Nat /\ GracePeriod \in Nat
      BY <1>1, ExistingType, TimelockAssumption
         DEF FullInv, IInv, TimelockInv, TimelockTypeOK, Proposals
    <2>2. ~(now >= proposals[id].eta + GracePeriod)
      BY <1>1 DEF State, StateOf
    <2> QED
      BY <2>1, <2>2 DEF Fresh
  <1>2. ASSUME FullInv, NEW id \in Existing, State(id) = "Queued"
        PROVE  \A tx \in proposals[id].actions :
                 Entry(tx, proposals[id].eta) \in queued \cup vetoed \cup guardianRan
    BY <1>2, StateIsStateAt DEF FullInv, PromiseInv, IsQueued, Intercepted
  <1>3. FullInv => QueuedIsExecutable
    BY <1>1, <1>2 DEF QueuedIsExecutable
  <1> QED
    BY <1>3, FullInvariance, PTL
=============================================================================
