-------------------------- MODULE FeiDAOTimelock --------------------------
(***************************************************************************)
(* contracts/dao/timelock/Timelock.sol and FeiDAOTimelock.sol: the admin    *)
(* queues transactions, and executes them once their delay has passed; the  *)
(* guardian and the governors of Core veto and pause.  With it the contract *)
(* that burns the admin, shutdown/timelocks/DAOTimelockBurner.sol.          *)
(***************************************************************************)
EXTENDS Integers, FiniteSets

CONSTANTS
  Admins,         \* accounts that can become the admin
  Burner,         \* the DAOTimelockBurner, one of them
  FirstAdmin,
  NoAdmin,        \* address(0)
  Calls,          \* transactions that change nothing here
  Delays,         \* values that setDelay is called with
  MinimumDelay, MaximumDelay, FirstDelay,
  GracePeriod,
  MaxTime         \* bound of the clock

ASSUME TimelockAssumption ==
  /\ Burner \in Admins /\ FirstAdmin \in Admins /\ NoAdmin \notin Admins
  /\ Delays \subseteq Nat
  /\ MinimumDelay \in Nat /\ MaximumDelay \in Nat /\ GracePeriod \in Nat
  /\ FirstDelay \in MinimumDelay .. MaximumDelay
  /\ MaxTime \in Nat

(* What a transaction does to the timelock; most call other contracts.      *)
SetDelayTxs        == [fn : {"setDelay"}, arg : Delays]
SetPendingAdminTxs == [fn : {"setPendingAdmin"}, arg : Admins]
Transactions == SetDelayTxs \cup SetPendingAdminTxs \cup [fn : {"call"}, arg : Calls]

Entry(tx, eta) == [tx |-> tx, eta |-> eta]
Entries == [tx : Transactions, eta : Nat]

VARIABLES
  now,           \* block.timestamp, and block.number
  admin, pendingAdmin, delay,
  queued,        \* queuedTransactions
  paused,
  governed,      \* Core still has a governor or a guardian
  since,         \* history: the entries queued, with the time of it
  ran, vetoed    \* history: the entries executed, and those vetoed

adminVars == <<admin, pendingAdmin>>
history   == <<since, ran, vetoed>>
timelockVars == <<now, adminVars, delay, queued, paused, governed, history>>

TimelockInit ==
  /\ now = 0
  /\ admin = FirstAdmin /\ pendingAdmin = NoAdmin
  /\ delay = FirstDelay
  /\ queued = {}
  /\ paused = FALSE /\ governed = TRUE
  /\ since = {} /\ ran = {} /\ vetoed = {}

-----------------------------------------------------------------------------
QueueUndelayed(by, txs, eta) ==   \* mutant: without the check of the delay
  /\ by = admin
  /\ ~paused
  /\ queued' = queued \cup {Entry(tx, eta) : tx \in txs}
  /\ since' = since \cup {[entry |-> Entry(tx, eta), at |-> now] : tx \in txs}
  /\ UNCHANGED <<now, adminVars, delay, paused, governed, ran, vetoed>>

(* queueTransaction, of several transactions with one eta.                  *)
QueueTransactions(by, txs, eta) ==
  /\ by = admin
  /\ ~paused
  /\ eta >= now + delay
  /\ queued' = queued \cup {Entry(tx, eta) : tx \in txs}
  /\ since' = since \cup {[entry |-> Entry(tx, eta), at |-> now] : tx \in txs}
  /\ UNCHANGED <<now, adminVars, delay, paused, governed, ran, vetoed>>

(* cancelTransaction, of several transactions.                              *)
CancelTransactions(by, txs, eta) ==
  /\ by = admin
  /\ queued' = queued \ {Entry(tx, eta) : tx \in txs}
  /\ UNCHANGED <<now, adminVars, delay, paused, governed, history>>

(* The calls that the transactions make; if one reverts, none happens.  Of  *)
(* two calls of a setter the last one counts, whichever it is.              *)
CallsMade(txs) ==
  /\ \A tx \in txs \cap SetDelayTxs : tx.arg \in MinimumDelay .. MaximumDelay
  /\ IF txs \cap SetDelayTxs = {} THEN delay' = delay
     ELSE \E tx \in txs \cap SetDelayTxs : delay' = tx.arg
  /\ IF txs \cap SetPendingAdminTxs = {} THEN pendingAdmin' = pendingAdmin
     ELSE \E tx \in txs \cap SetPendingAdminTxs : pendingAdmin' = tx.arg

(* What is not executed within the grace period is stale.                   *)
Fresh(eta) == now <= eta + GracePeriod

ExecuteByAnyone(by, txs, eta) ==   \* mutant: without the check of the caller
  /\ ~paused
  /\ \A tx \in txs : Entry(tx, eta) \in queued
  /\ eta <= now /\ Fresh(eta)
  /\ queued' = queued \ {Entry(tx, eta) : tx \in txs}
  /\ CallsMade(txs)
  /\ ran' = ran \cup {Entry(tx, eta) : tx \in txs}
  /\ UNCHANGED <<now, admin, paused, governed, since, vetoed>>

(* executeTransaction, of several transactions with one eta.                *)
ExecuteTransactions(by, txs, eta) ==
  /\ by = admin
  /\ ~paused
  /\ \A tx \in txs : Entry(tx, eta) \in queued
  /\ eta <= now /\ Fresh(eta)
  /\ queued' = queued \ {Entry(tx, eta) : tx \in txs}
  /\ CallsMade(txs)
  /\ ran' = ran \cup {Entry(tx, eta) : tx \in txs}
  /\ UNCHANGED <<now, admin, paused, governed, since, vetoed>>

(* acceptAdmin.  Anybody makes the burner, or GovernorAlpha, call it.       *)
AcceptAdmin(by) ==
  /\ by = pendingAdmin
  /\ admin' = by
  /\ pendingAdmin' = NoAdmin
  /\ UNCHANGED <<now, delay, queued, paused, governed, history>>

(* vetoTransactions: onlyGuardianOrGovernor                                 *)
VetoTransactions(entries) ==
  /\ governed
  /\ queued' = queued \ entries
  /\ vetoed' = vetoed \cup entries
  /\ UNCHANGED <<now, adminVars, delay, paused, governed, since, ran>>

(* governorSetPendingAdmin: onlyGovernor                                    *)
GovernorSetPendingAdmin(new) ==
  /\ governed
  /\ pendingAdmin' = new
  /\ UNCHANGED <<now, admin, delay, queued, paused, governed, history>>

Pause ==
  /\ governed /\ ~paused
  /\ paused' = TRUE
  /\ UNCHANGED <<now, adminVars, delay, queued, governed, history>>

Unpause ==
  /\ governed /\ paused
  /\ paused' = FALSE
  /\ UNCHANGED <<now, adminVars, delay, queued, governed, history>>

(* Core revokes its governors and guardians, for good.                      *)
GiveUpGovernance ==
  /\ governed
  /\ governed' = FALSE
  /\ UNCHANGED <<now, adminVars, delay, queued, paused, history>>

-----------------------------------------------------------------------------
TimelockTypeOK ==
  /\ now \in Nat
  /\ admin \in Admins /\ pendingAdmin \in Admins \cup {NoAdmin}
  /\ delay \in MinimumDelay .. MaximumDelay
  /\ queued \subseteq Entries
  /\ paused \in BOOLEAN /\ governed \in BOOLEAN
  /\ since \subseteq [entry : Entries, at : Nat]
  /\ ran \subseteq Entries /\ vetoed \subseteq Entries

(* "in order to burn them and prevent the admin being transferred"          *)
(* (DAOTimelockBurner.sol:7).  It takes that Core has no governor left and  *)
(* that no other admin is pending: then nothing is queued, executed or      *)
(* changed in the timelock again.                                           *)
Burned == admin = Burner /\ pendingAdmin = NoAdmin /\ ~governed

BurnIsFinal ==
  [][Burned => Burned' /\ UNCHANGED <<delay, queued, paused, ran>>]_timelockVars

(* Whatever runs was queued at least the minimum delay ago, through every   *)
(* change of the delay and of the admin: there is always time for a veto.   *)
NoticeGiven ==
  [][\A e \in ran' \ ran :
       \E s \in since : s.entry = e /\ now - s.at >= MinimumDelay]_timelockVars
=============================================================================
