--------------------------- MODULE AtomicUpgrades ---------------------------
(***************************************************************************)
(* What executing proposals in one transaction each promises: the           *)
(* configuration is a set of facts, and a proposal finds the facts it needs *)
(* and changes everything it changes at once, or leaves no trace.           *)
(***************************************************************************)
EXTENDS Naturals

CONSTANTS
  Count,     \* how many proposals there are
  Start,     \* the facts before the first of them
  Given,     \* what each proposal adds to the facts
  Taken,     \* what each proposal takes from them
  Needed,    \* what it must find
  Barred,    \* what it must not find
  Copies,    \* pairs of facts: a deployment copies the first to the second
  Order,     \* pairs: the second is not made before the first is settled
  Vetoable   \* the proposals that may be vetoed

VARIABLES facts, proposed, executed, vetoed

vars == <<proposed, executed, vetoed, facts>>

Init ==
  /\ facts = Start
  /\ proposed = 0
  /\ executed = {} /\ vetoed = {}

Pending == (1 .. proposed) \ (executed \cup vetoed)

AfterCopies(pairs) ==
  (facts \ {p[2] : p \in pairs}) \cup {p[2] : p \in {q \in pairs : q[1] \in facts}}

Propose ==
  /\ proposed < Count
  /\ \A i \in Pending : <<i, proposed + 1>> \notin Order
  /\ proposed' = proposed + 1
  /\ facts' = AfterCopies(Copies[proposed + 1])
  /\ UNCHANGED <<executed, vetoed>>

Execute(i) ==
  /\ i \in Pending
  /\ executed' = executed \cup {i}
  /\ UNCHANGED <<proposed, vetoed>>
  /\ Needed[i] \subseteq facts
  /\ Barred[i] \cap facts = {}
  /\ facts' = (facts \ Taken[i]) \cup Given[i]

Veto(i) ==
  /\ i \in Pending
  /\ i \in Vetoable
  /\ vetoed' = vetoed \cup {i}
  /\ UNCHANGED <<facts, proposed, executed>>

Next == Propose \/ \E i \in 1 .. Count : Execute(i) \/ Veto(i)

Spec == Init /\ [][Next]_vars
=============================================================================
