\* Voting opens one block after the proposal and lasts one block.
CONSTANTS
  alice = alice
  bob = bob
  call = call
  Governor = governor
  Burner = burner
  Admins = {governor, burner}
  FirstAdmin = governor
  NoAdmin = none
  Guardians = {multisig}
  NoGuardian = none
  Voters = {alice, bob}
  InitialVotes <- MCInitialVotes
  ActionSets <- MCActionSets
  Calls = {call}
  Delays = {2}
  MinimumDelay = 1
  MaximumDelay = 2
  FirstDelay = 1
  GracePeriod = 1
  QuorumVotes = 2
  ProposalThreshold = 1
  VotingDelay = 1
  VotingPeriod = 1
  MaxTime = 6
  MaxProposals = 2
  GuardianEtas = {4}
  MaxMoves = 1
SYMMETRY Symmetric
SPECIFICATION Spec
INVARIANTS OneLiveProposal NoVoteTwice OnlyThePassed QueuedIsExecutable
PROPERTIES LifeCycle NoticeGiven BurnIsFinal
CHECK_DEADLOCK FALSE
