----------------------- MODULE SimpleFeiDaiPSMProofs -----------------------
(***************************************************************************)
(* Theorems about SimpleFeiDaiPSM on Fei, for any holders, amounts, minters *)
(* and burners.  CirculationCovered is inductive together with TypeOK: each *)
(* call moves both of its sides alike.                                      *)
(***************************************************************************)
EXTENDS SimpleFeiDaiPSM, Arithmetic

IInv == TypeOK /\ CirculationCovered

(* What one step may do: keep the invariant, and create FEI only for DAI.   *)
Created ==
  minters \subseteq {PSM} /\ totalSupply' > totalSupply =>
    dai'[PSM] - dai[PSM] >= totalSupply' - totalSupply

LEMMA PSMIsAccount == PSM \in Accounts /\ PSM \notin Users
  BY PSMAssumption, FeiAssumption DEF Accounts

LEMMA MoveType ==
  ASSUME NEW balance \in [Accounts -> Nat], NEW from \in Accounts,
         NEW to \in Accounts, NEW amount \in Nat, amount <= balance[from]
  PROVE  /\ Move(balance, from, to, amount) \in [Accounts -> Nat]
         /\ \A a \in Accounts :
              Move(balance, from, to, amount)[a]
                = IF a = from THEN IF to = from THEN balance[a] ELSE balance[a] - amount
                  ELSE IF a = to THEN balance[a] + amount ELSE balance[a]
  <1>1. ASSUME NEW a \in Accounts
        PROVE  /\ Move(balance, from, to, amount)[a] \in Nat
               /\ Move(balance, from, to, amount)[a]
                    = IF a = from THEN IF to = from THEN balance[a] ELSE balance[a] - amount
                      ELSE IF a = to THEN balance[a] + amount ELSE balance[a]
    BY DEF Move
  <1> QED
    BY <1>1 DEF Move

(* Steps of the allowances, roles and the clock leave the balances alone.   *)
LEMMA QuietStep ==
  ASSUME IInv, FeiTypeOK', UNCHANGED <<balanceVars, dai, unbacked>>
  PROVE  IInv' /\ Created
  BY PSMIsAccount
     DEF IInv, TypeOK, FeiTypeOK, CirculationCovered, Uncovered, Created, balanceVars

LEMMA SpendStep ==
  ASSUME FeiTypeOK, NEW owner \in Users, NEW spender \in Spenders,
         NEW amount \in Nat, Spend(owner, spender, amount)
  PROVE  /\ allowance' \in [Users -> [Spenders -> Nat]]
         /\ spent' \in [Users -> [Spenders -> Nat]]
         /\ nonces' \in [Users -> Nat]
         /\ approved' \in [Users -> [Spenders -> Nat]]
         /\ used' \in [Users -> SUBSET Nat]
  BY DEF FeiTypeOK, Spend

(* A permit counts once as approved.                                        *)
LEMMA PermitApproved ==
  ASSUME FeiTypeOK, NEW p \in Permits, Permit(p),
         p.owner \in Users, p.spender \in Spenders, p.value \in Nat, p.nonce \in Nat
  PROVE  /\ approved' \in [Users -> [Spenders -> Nat]]
         /\ used' \in [Users -> SUBSET Nat]
         /\ allowance' \in [Users -> [Spenders -> Nat]]
         /\ nonces' \in [Users -> Nat]
  <1> DEFINE counted == IF p.nonce \in used[p.owner] THEN 0 ELSE p.value
  <1>1. counted \in Nat
    OBVIOUS
  <1>2. /\ used' = [used EXCEPT ![p.owner] = @ \cup {p.nonce}]
        /\ approved' = [approved EXCEPT ![p.owner][p.spender] = @ + counted]
    BY DEF Permit, Endorsed
  <1> HIDE DEF counted
  <1>3. approved' \in [Users -> [Spenders -> Nat]]
    BY <1>1, <1>2 DEF FeiTypeOK
  <1>4. used' \in [Users -> SUBSET Nat]
    BY <1>2 DEF FeiTypeOK
  <1>5. allowance' \in [Users -> [Spenders -> Nat]] /\ nonces' \in [Users -> Nat]
    BY DEF Permit, FeiTypeOK
  <1> QED
    BY <1>3, <1>4, <1>5

(* FEI changes hands: the FEI in the PSM can only grow when a user pays.    *)
LEMMA TransferStep ==
  ASSUME FeiTypeOK, NEW owner \in Users, NEW to \in Accounts, NEW amount \in Nat,
         amount <= fei[owner], fei' = Move(fei, owner, to, amount)
  PROVE  /\ fei' \in [Accounts -> Nat]
         /\ fei'[PSM] = IF to = PSM THEN fei[PSM] + amount ELSE fei[PSM]
  <1>1. owner \in Accounts /\ PSM \in Accounts /\ owner # PSM
    BY PSMIsAccount DEF Accounts
  <1>2. fei \in [Accounts -> Nat]
    BY DEF FeiTypeOK
  <1> QED
    BY <1>1, <1>2, MoveType

LEMMA BurnStep ==
  ASSUME IInv, NEW account \in Accounts, NEW amount \in Nat,
         Burn(account, amount), UNCHANGED <<dai, unbacked>>
  PROVE  IInv' /\ Created
  <1>1. fei' \in [Accounts -> Nat]
        /\ fei'[PSM] = (IF account = PSM THEN fei[PSM] - amount ELSE fei[PSM])
    BY PSMIsAccount DEF IInv, TypeOK, FeiTypeOK, Burn, BurnFrom
  <1>2. paused' \in BOOLEAN
    BY Zenon DEF Burn, roleVars, IInv, TypeOK, FeiTypeOK
  <1>3. TypeOK'
    BY <1>1, <1>2 DEF IInv, TypeOK, FeiTypeOK, Burn, allowanceVars, roleVars
  <1>4. CirculationCovered'
    BY <1>1, PSMIsAccount
       DEF IInv, TypeOK, FeiTypeOK, Burn, CirculationCovered, Uncovered
  <1> QED
    BY <1>3, <1>4 DEF IInv, Created, TypeOK, FeiTypeOK, Burn

LEMMA MintStep ==
  ASSUME IInv, NEW minter, NEW to \in Accounts, NEW amount \in Nat,
         Mint(minter, to, amount)
  PROVE  /\ FeiTypeOK'
         /\ minter \in minters
         /\ totalSupply' = totalSupply + amount
         /\ fei'[PSM] = IF to = PSM THEN fei[PSM] + amount ELSE fei[PSM]
  <1>1. /\ fei' \in [Accounts -> Nat]
        /\ fei'[PSM] = IF to = PSM THEN fei[PSM] + amount ELSE fei[PSM]
    BY PSMIsAccount DEF IInv, TypeOK, FeiTypeOK, Mint, MintTo
  <1>2. paused' \in BOOLEAN
    BY Zenon DEF Mint, roleVars, IInv, TypeOK, FeiTypeOK
  <1> QED
    BY <1>1, <1>2 DEF IInv, TypeOK, FeiTypeOK, Mint, allowanceVars, roleVars

(* A deposit of DAI into the PSM, or out of it, by a transfer.              *)
LEMMA DaiStep ==
  ASSUME IInv, NEW from \in Accounts, NEW to \in Accounts, NEW amount \in Nat,
         amount <= dai[from], dai' = Move(dai, from, to, amount)
  PROVE  /\ dai' \in [Accounts -> Nat]
         /\ dai'[PSM] = IF from = PSM
                       THEN IF to = PSM THEN dai[PSM] ELSE dai[PSM] - amount
                       ELSE IF to = PSM THEN dai[PSM] + amount ELSE dai[PSM]
  <1>1. dai \in [Accounts -> Nat]
    BY DEF IInv, TypeOK
  <1> QED
    BY <1>1, MoveType, PSMIsAccount

LEMMA MintForDaiStep ==
  ASSUME IInv, NEW u \in Users, NEW to \in Accounts, NEW n \in Nat,
         MintForDai(u, to, n)
  PROVE  IInv' /\ Created
  <1>1. u \in Accounts /\ PSM \in Accounts /\ u # PSM
    BY PSMIsAccount DEF Accounts
  <1>2. /\ dai' \in [Accounts -> Nat] /\ dai'[PSM] = dai[PSM] + n
    BY <1>1, DaiStep DEF MintForDai
  <1>3. /\ FeiTypeOK' /\ totalSupply' = totalSupply + n
        /\ fei'[PSM] = IF to = PSM THEN fei[PSM] + n ELSE fei[PSM]
    BY MintStep DEF MintForDai
  <1>4. unbacked' = unbacked
    BY DEF MintForDai
  <1>5. /\ totalSupply \in Int /\ fei[PSM] \in Nat /\ dai[PSM] \in Nat
        /\ unbacked \in Nat /\ Uncovered <= unbacked
    BY <1>1 DEF IInv, TypeOK, FeiTypeOK, CirculationCovered
  <1>6. CirculationCovered'
    BY <1>2, <1>3, <1>4, <1>5 DEF CirculationCovered, Uncovered
  <1>7. Created
    BY <1>2, <1>3, <1>5 DEF Created
  <1> QED
    BY <1>2, <1>3, <1>4, <1>5, <1>6, <1>7 DEF IInv, TypeOK

LEMMA RedeemStep ==
  ASSUME IInv, NEW u \in Users, NEW to \in Accounts, NEW n \in Nat,
         Redeem(u, to, n)
  PROVE  IInv' /\ Created
  <1>1. PSM \in Accounts /\ PSM \in Spenders
    BY PSMIsAccount, PSMAssumption
  <1>2. /\ dai' \in [Accounts -> Nat]
        /\ dai'[PSM] = IF to = PSM THEN dai[PSM] ELSE dai[PSM] - n
    BY <1>1, DaiStep DEF Redeem
  <1>3. fei' \in [Accounts -> Nat] /\ fei'[PSM] = fei[PSM] + n
    BY <1>1, TransferStep DEF Redeem, TransferFrom, IInv, TypeOK
  <1>4. unbacked' = unbacked /\ totalSupply' = totalSupply
    BY DEF Redeem, TransferFrom
  <1>5. paused' \in BOOLEAN
    BY Zenon DEF Redeem, TransferFrom, roleVars, IInv, TypeOK, FeiTypeOK
  <1>6. /\ allowance' \in [Users -> [Spenders -> Nat]]
        /\ spent' \in [Users -> [Spenders -> Nat]]
        /\ nonces' \in [Users -> Nat]
        /\ approved' \in [Users -> [Spenders -> Nat]]
        /\ used' \in [Users -> SUBSET Nat]
    BY <1>1, SpendStep DEF Redeem, TransferFrom, IInv, TypeOK
  <1>7. FeiTypeOK'
    BY <1>3, <1>4, <1>5, <1>6
       DEF Redeem, TransferFrom, roleVars, IInv, TypeOK, FeiTypeOK
  <1>8. /\ totalSupply \in Int /\ fei[PSM] \in Nat /\ dai[PSM] \in Nat
        /\ unbacked \in Nat /\ Uncovered <= unbacked
    BY <1>1 DEF IInv, TypeOK, FeiTypeOK, CirculationCovered
  <1>9. CirculationCovered'
    BY <1>2, <1>3, <1>4, <1>8 DEF CirculationCovered, Uncovered
  <1> QED
    BY <1>2, <1>4, <1>7, <1>8, <1>9 DEF IInv, TypeOK, Created

LEMMA OtherMintStep ==
  ASSUME IInv, NEW m \in Minters, NEW to \in Accounts, NEW n \in Nat,
         OtherMint(m, to, n)
  PROVE  IInv' /\ Created
  <1>1. /\ FeiTypeOK' /\ totalSupply' = totalSupply + n /\ m \in minters
        /\ fei'[PSM] = IF to = PSM THEN fei[PSM] + n ELSE fei[PSM]
    BY MintStep DEF OtherMint
  <1>2. m # PSM /\ unbacked' = unbacked + n /\ dai' = dai
    BY DEF OtherMint
  <1>3. /\ totalSupply \in Int /\ fei[PSM] \in Nat /\ dai[PSM] \in Nat
        /\ dai \in [Accounts -> Nat]
        /\ unbacked \in Nat /\ Uncovered <= unbacked
    BY PSMIsAccount DEF IInv, TypeOK, FeiTypeOK, CirculationCovered
  <1>4. CirculationCovered'
    BY <1>1, <1>2, <1>3 DEF CirculationCovered, Uncovered
  <1>5. Created
    BY <1>1, <1>2 DEF Created
  <1> QED
    BY <1>1, <1>2, <1>3, <1>4, <1>5 DEF IInv, TypeOK

LEMMA DaiTransferStep ==
  ASSUME IInv, NEW u \in Users, NEW to \in Accounts, NEW n \in Nat,
         DaiTransfer(u, to, n)
  PROVE  IInv' /\ Created
  <1>1. u \in Accounts /\ u # PSM /\ PSM \in Accounts
    BY PSMIsAccount DEF Accounts
  <1>2. dai' \in [Accounts -> Nat] /\ dai[PSM] <= dai'[PSM]
    BY <1>1, DaiStep DEF DaiTransfer, IInv, TypeOK
  <1>3. UNCHANGED <<feiVars, unbacked>>
    BY DEF DaiTransfer
  <1>4. paused' \in BOOLEAN
    BY <1>3, Zenon DEF feiVars, roleVars, IInv, TypeOK, FeiTypeOK
  <1>5. FeiTypeOK'
    BY <1>3, <1>4
       DEF feiVars, balanceVars, allowanceVars, roleVars, IInv, TypeOK, FeiTypeOK
  <1>6. /\ totalSupply \in Int /\ fei[PSM] \in Nat /\ dai[PSM] \in Nat
        /\ dai'[PSM] \in Nat /\ unbacked \in Nat /\ Uncovered <= unbacked
    BY <1>1, <1>2 DEF IInv, TypeOK, FeiTypeOK, CirculationCovered
  <1>7. CirculationCovered'
    BY <1>2, <1>3, <1>6 DEF CirculationCovered, Uncovered, feiVars, balanceVars
  <1> QED
    BY <1>2, <1>3, <1>5, <1>6, <1>7
       DEF IInv, TypeOK, Created, feiVars, balanceVars

(* The calls of Fei that are not made by the PSM.                           *)
LEMMA FeiStepKeeps ==
  ASSUME IInv, FeiStep, UNCHANGED <<dai, unbacked>>
  PROVE  IInv' /\ Created
  <1> USE DEF IInv, TypeOK
  <1>1. ASSUME NEW u \in Users, NEW to \in Accounts, NEW n \in Nat,
               n <= fei[u], fei' = Move(fei, u, to, n), totalSupply' = totalSupply,
               FeiTypeOK'
        PROVE  IInv' /\ Created
    <2>1. FeiTypeOK /\ fei[PSM] \in Nat
      BY PSMIsAccount DEF FeiTypeOK
    <2>2. fei'[PSM] = IF to = PSM THEN fei[PSM] + n ELSE fei[PSM]
      BY <1>1, <2>1, TransferStep
    <2>3. fei'[PSM] >= fei[PSM] /\ fei'[PSM] \in Nat
      BY <2>1, <2>2
    <2>4. totalSupply \in Int /\ dai[PSM] \in Nat /\ unbacked \in Nat
      BY PSMIsAccount DEF FeiTypeOK
    <2>5. Created
      BY <1>1, <2>4 DEF Created
    <2>6. CirculationCovered'
      BY <1>1, <2>1, <2>3, <2>4 DEF CirculationCovered, Uncovered
    <2> QED
      BY <1>1, <2>5, <2>6
  <1>2. ASSUME NEW u \in Users, NEW to \in Accounts, NEW n \in Nat, Transfer(u, to, n)
        PROVE  IInv' /\ Created
    <2>1. paused' \in BOOLEAN
      BY <1>2, Zenon DEF Transfer, roleVars, FeiTypeOK
    <2>2. FeiTypeOK'
      BY <1>2, <2>1, TransferStep DEF Transfer, allowanceVars, roleVars, FeiTypeOK
    <2> QED
      BY <1>1, <1>2, <2>2 DEF Transfer
  <1>3. ASSUME NEW s \in Spenders, NEW u \in Users, NEW to \in Accounts,
               NEW n \in Nat, TransferFrom(s, u, to, n)
        PROVE  IInv' /\ Created
    <2>1. paused' \in BOOLEAN
      BY <1>3, Zenon DEF TransferFrom, roleVars, FeiTypeOK
    <2>2. FeiTypeOK'
      BY <1>3, <2>1, TransferStep, SpendStep DEF TransferFrom, roleVars, FeiTypeOK
    <2> QED
      BY <1>1, <1>3, <2>2 DEF TransferFrom
  <1>4. ASSUME NEW u \in Users, NEW s \in Spenders, NEW n \in Nat, Approve(u, s, n)
        PROVE  IInv' /\ Created
    <2>1. paused' \in BOOLEAN
      BY <1>4, Zenon DEF Approve, roleVars, FeiTypeOK
    <2>2. FeiTypeOK'
      BY <1>4, <2>1 DEF Approve, balanceVars, roleVars, FeiTypeOK
    <2> QED
      BY <1>4, <2>2, QuietStep DEF Approve
  <1>5. ASSUME NEW p \in Permits, Permit(p)
        PROVE  IInv' /\ Created
    <2>1. paused' \in BOOLEAN
      BY <1>5, Zenon DEF Permit, roleVars, FeiTypeOK
    <2>2. p.owner \in Users /\ p.spender \in Spenders /\ p.value \in Nat /\ p.nonce \in Nat
      BY FeiAssumption
    <2>3. /\ approved' \in [Users -> [Spenders -> Nat]]
          /\ used' \in [Users -> SUBSET Nat]
          /\ allowance' \in [Users -> [Spenders -> Nat]]
          /\ nonces' \in [Users -> Nat]
      BY <1>5, <2>2, PermitApproved DEF FeiTypeOK
    <2>4. FeiTypeOK'
      BY <1>5, <2>1, <2>3 DEF Permit, balanceVars, roleVars, FeiTypeOK
    <2> QED
      BY <1>5, <2>4, QuietStep DEF Permit
  <1>6. ASSUME NEW a \in Accounts, NEW n \in Nat, Burn(a, n)
        PROVE  IInv' /\ Created
    BY <1>6, BurnStep
  <1>7. ASSUME PauseFei \/ UnpauseFei
        PROVE  IInv' /\ Created
    <2>1. paused' \in BOOLEAN
      BY <1>7, Zenon DEF PauseFei, UnpauseFei
    <2>2. FeiTypeOK' /\ UNCHANGED balanceVars
      BY <1>7, <2>1 DEF PauseFei, UnpauseFei, balanceVars, allowanceVars, FeiTypeOK
    <2> QED
      BY <2>2, QuietStep
  <1>8. ASSUME NEW new \in SUBSET Minters, SetMinters(new)
        PROVE  IInv' /\ Created
    <2>1. paused' \in BOOLEAN
      BY <1>8, Zenon DEF SetMinters, FeiTypeOK
    <2>2. FeiTypeOK' /\ UNCHANGED balanceVars
      BY <1>8, <2>1 DEF SetMinters, balanceVars, allowanceVars, FeiTypeOK
    <2> QED
      BY <2>2, QuietStep
  <1>9. ASSUME Tick PROVE IInv' /\ Created
    <2>1. paused' \in BOOLEAN
      BY <1>9, Zenon DEF Tick, roleVars, FeiTypeOK
    <2>2. FeiTypeOK' /\ UNCHANGED balanceVars
      BY <1>9, <2>1 DEF Tick, balanceVars, allowanceVars, roleVars, FeiTypeOK
    <2> QED
      BY <2>2, QuietStep
  <1>10. 1 .. MaxAmount \subseteq Nat /\ 0 .. MaxAmount \subseteq Nat
    OBVIOUS
  <1>11. CASE \E u \in Users, to \in Accounts, n \in 1 .. MaxAmount : Transfer(u, to, n)
    BY <1>2, <1>10, <1>11
  <1>12. CASE \E s \in Spenders \cap Users, u \in Users, to \in Accounts,
                n \in 1 .. MaxAmount : TransferFrom(s, u, to, n)
    BY <1>3, <1>10, <1>12
  <1>13. CASE \E u \in Users : \E s \in Spenders \ {u}, n \in 0 .. MaxAmount :
                Approve(u, s, n)
    BY <1>4, <1>10, <1>13
  <1>14. CASE \E u \in Users, n \in 1 .. MaxAmount : Burn(u, n)
    BY <1>6, <1>10, <1>14 DEF Accounts
  <1>15. CASE \E b \in Burners, a \in Accounts, n \in 1 .. MaxAmount : BurnOf(b, a, n)
    BY <1>6, <1>10, <1>15 DEF BurnOf
  <1>16. CASE \E new \in SUBSET Minters : SetMinters(new)
    BY <1>8, <1>16
  <1> QED
    BY <1>5, <1>7, <1>9, <1>11, <1>12, <1>13, <1>14, <1>15, <1>16 DEF FeiStep

LEMMA StepKeeps == IInv /\ [Next]_vars => IInv' /\ [Created]_vars
  <1>1. 1 .. MaxAmount \subseteq Nat
    OBVIOUS
  <1>2. SUFFICES ASSUME IInv, Next PROVE IInv' /\ Created
    <2>1. CASE Next
      BY <1>2, <2>1
    <2>2. CASE UNCHANGED vars
      <3>1. UNCHANGED <<balanceVars, dai, unbacked>>
        BY <2>2 DEF vars, feiVars
      <3>2. IInv => FeiTypeOK'
        BY <2>2, Zenon
           DEF vars, feiVars, balanceVars, allowanceVars, roleVars, IInv, TypeOK, FeiTypeOK
      <3> QED
        BY <2>2, <3>1, <3>2, QuietStep
    <2> QED
      BY <2>1, <2>2
  <1>3. CASE \E u \in Users, to \in Accounts, n \in 1 .. MaxAmount : MintForDai(u, to, n)
    BY <1>1, <1>2, <1>3, MintForDaiStep
  <1>4. CASE \E u \in Users, to \in Accounts, n \in 1 .. MaxAmount : Redeem(u, to, n)
    BY <1>1, <1>2, <1>4, RedeemStep
  <1>5. CASE BurnFeiHeld
    <2>1. PSM \in Accounts /\ fei[PSM] \in Nat
      BY <1>2, PSMIsAccount DEF IInv, TypeOK, FeiTypeOK
    <2> QED
      BY <1>2, <1>5, <2>1, BurnStep DEF BurnFeiHeld
  <1>6. CASE \E m \in Minters, to \in Accounts, n \in 1 .. MaxAmount : OtherMint(m, to, n)
    BY <1>1, <1>2, <1>6, OtherMintStep
  <1>7. CASE \E u \in Users, to \in Accounts, n \in 1 .. MaxAmount : DaiTransfer(u, to, n)
    BY <1>1, <1>2, <1>7, DaiTransferStep
  <1>8. CASE FeiStep /\ UNCHANGED <<dai, unbacked>>
    BY <1>2, <1>8, FeiStepKeeps
  <1> QED
    BY <1>2, <1>3, <1>4, <1>5, <1>6, <1>7, <1>8 DEF Next

-----------------------------------------------------------------------------
(***************************************************************************)
(* The sums that the calls keep: the supply is what the accounts hold, and  *)
(* what a spender took and may take is within what the owner approved; a    *)
(* nonce that a permit was accepted with is behind the next one.            *)
(***************************************************************************)
SupplyInv == totalSupply = SumOf(fei, Accounts)

ApprovalInv ==
  /\ \A u \in Users, s \in Spenders : spent[u][s] + allowance[u][s] <= approved[u][s]
  /\ \A u \in Users : \A n \in used[u] : n < nonces[u]

LEMMA InitIInv == Init => IInv
  <1> SUFFICES ASSUME Init PROVE IInv
    OBVIOUS
  <1>1. FeiTypeOK
    <2>1. paused \in BOOLEAN
      BY Zenon DEF Init, FeiInit
    <2>2. /\ now \in Nat /\ fei \in [Accounts -> Nat]
          /\ minters \subseteq Minters
      BY FeiAssumption DEF Init, FeiInit
    <2>3. totalSupply \in Int
      <3>1. totalSupply = SumOf(InitialFei, Accounts)
        BY FeiAssumption DEF Init, FeiInit, SumOf
      <3>2. IsFiniteSet(Accounts) /\ \A a \in Accounts : InitialFei[a] \in Int
        BY FeiAssumption
      <3> QED
        BY <3>1, <3>2, SumTake
    <2>4. /\ allowance \in [Users -> [Spenders -> Nat]]
          /\ nonces \in [Users -> Nat]
          /\ approved \in [Users -> [Spenders -> Nat]]
          /\ used \in [Users -> SUBSET Nat]
          /\ spent \in [Users -> [Spenders -> Nat]]
      BY DEF Init, FeiInit
    <2> QED
      BY <2>1, <2>2, <2>3, <2>4 DEF FeiTypeOK
  <1>2. totalSupply \in Int /\ fei[PSM] \in Nat /\ dai[PSM] \in Nat
    BY <1>1, PSMAssumption, PSMIsAccount DEF Init, FeiTypeOK
  <1>3. Uncovered \in Int
    BY <1>2 DEF Uncovered
  <1> QED
    BY <1>1, <1>3, PSMAssumption DEF IInv, TypeOK, CirculationCovered, Init

LEMMA SupplyMoves ==
  ASSUME TypeOK, SupplyInv, NEW u \in Accounts, NEW to \in Accounts, NEW n \in Nat,
         fei' = Move(fei, u, to, n), totalSupply' = totalSupply
  PROVE  SupplyInv'
  <1>1. fei \in [Accounts -> Int]
    BY NaturalBalances DEF TypeOK, FeiTypeOK
  <1>2. /\ SumOf(fei, Accounts) \in Int
        /\ SumOf(Move(fei, u, to, n), Accounts) = SumOf(fei, Accounts) - n + n
    BY <1>1, FeiAssumption, SumMove
  <1>3. SumOf(fei', Accounts) = SumOf(Move(fei, u, to, n), Accounts)
    BY Zenon
  <1> QED
    BY <1>2, <1>3 DEF SupplyInv

LEMMA SupplyChanges ==
  ASSUME TypeOK, SupplyInv, NEW a \in Accounts, NEW n \in Int,
         fei'[a] = fei[a] + n, \A x \in Accounts \ {a} : fei'[x] = fei[x],
         totalSupply' = totalSupply + n
  PROVE  SupplyInv'
  <1>1. \A x \in Accounts : fei[x] \in Int
    BY DEF TypeOK, FeiTypeOK
  <1>2. fei'[a] \in Int /\ IsFiniteSet(Accounts)
    BY <1>1, FeiAssumption
  <1> DEFINE after == fei'
  <1>3. after[a] \in Int /\ \A x \in Accounts \ {a} : after[x] = fei[x]
    BY <1>2
  <1> HIDE DEF after
  <1>4. /\ SumOf(fei, Accounts) \in Int
        /\ SumOf(after, Accounts) = SumOf(fei, Accounts) - fei[a] + after[a]
    BY <1>1, <1>2, <1>3, SumUpdate
  <1> QED
    BY <1>1, <1>4 DEF SupplyInv, after

LEMMA SupplyBurns ==
  ASSUME TypeOK, SupplyInv, NEW a \in Accounts, NEW n \in Nat, Burn(a, n)
  PROVE  SupplyInv'
  <1>1. totalSupply' = totalSupply + (-n)
    BY DEF Burn, TypeOK, FeiTypeOK
  <1>2. fei'[a] = fei[a] + (-n) /\ \A x \in Accounts \ {a} : fei'[x] = fei[x]
    BY DEF Burn, BurnFrom, TypeOK, FeiTypeOK
  <1>3. -n \in Int
    OBVIOUS
  <1> QED
    BY <1>1, <1>2, <1>3, SupplyChanges

LEMMA SupplyMints ==
  ASSUME TypeOK, SupplyInv, NEW m, NEW a \in Accounts, NEW n \in Nat, Mint(m, a, n)
  PROVE  SupplyInv'
  <1>1. totalSupply' = totalSupply + n /\ n \in Int
    BY DEF Mint
  <1>2. fei'[a] = fei[a] + n /\ \A x \in Accounts \ {a} : fei'[x] = fei[x]
    BY DEF Mint, MintTo, TypeOK, FeiTypeOK
  <1> QED
    BY <1>1, <1>2, SupplyChanges

-----------------------------------------------------------------------------
LEMMA ApprovalType ==
  ASSUME TypeOK, NEW u \in Users, NEW s \in Spenders
  PROVE  /\ spent[u][s] \in Nat /\ allowance[u][s] \in Nat /\ approved[u][s] \in Nat
         /\ nonces[u] \in Nat /\ used[u] \subseteq Nat
  BY DEF TypeOK, FeiTypeOK

LEMMA ApprovalQuiet ==
  ASSUME ApprovalInv, UNCHANGED allowanceVars
  PROVE  ApprovalInv'
  BY DEF ApprovalInv, allowanceVars

(* transferFrom moves from the allowance to what was spent.                 *)
LEMMA ApprovalSpend ==
  ASSUME TypeOK, ApprovalInv, NEW owner \in Users, NEW spender \in Spenders, NEW n \in Nat,
         Spend(owner, spender, n)
  PROVE  ApprovalInv'
  <1>1. UNCHANGED <<nonces, approved, used>>
    BY DEF Spend
  <1>2. ASSUME NEW u \in Users, NEW s \in Spenders
        PROVE  spent'[u][s] + allowance'[u][s] = spent[u][s] + allowance[u][s]
    <2>1. /\ allowance \in [Users -> [Spenders -> Nat]] /\ spent \in [Users -> [Spenders -> Nat]]
          /\ allowance' = [allowance EXCEPT ![owner][spender] = @ - n]
          /\ spent' = [spent EXCEPT ![owner][spender] = @ + n]
      BY DEF Spend, TypeOK, FeiTypeOK
    <2>2. /\ allowance[u][s] \in Nat /\ spent[u][s] \in Nat
          /\ allowance'[u][s] =
               IF u = owner /\ s = spender THEN allowance[u][s] - n ELSE allowance[u][s]
          /\ spent'[u][s] = IF u = owner /\ s = spender THEN spent[u][s] + n ELSE spent[u][s]
      BY <2>1
    <2> QED
      BY <2>2
  <1> QED
    BY <1>1, <1>2 DEF ApprovalInv

(* approve replaces the allowance by an amount that counts as approved.     *)
LEMMA ApprovalApprove ==
  ASSUME TypeOK, ApprovalInv, NEW owner \in Users, NEW spender \in Spenders, NEW n \in Nat,
         Approve(owner, spender, n)
  PROVE  ApprovalInv'
  <1>1. UNCHANGED <<nonces, used, spent>>
    BY DEF Approve
  <1>2. ASSUME NEW u \in Users, NEW s \in Spenders
        PROVE  (spent[u][s] + allowance[u][s] <= approved[u][s])'
    <2>1. /\ allowance \in [Users -> [Spenders -> Nat]]
          /\ approved \in [Users -> [Spenders -> Nat]]
          /\ allowance' = [allowance EXCEPT ![owner][spender] = n]
          /\ approved' = [approved EXCEPT ![owner][spender] = @ + n]
      BY DEF Approve, TypeOK, FeiTypeOK
    <2>2. /\ allowance'[u][s] = IF u = owner /\ s = spender THEN n ELSE allowance[u][s]
          /\ approved'[u][s] =
               IF u = owner /\ s = spender THEN approved[u][s] + n ELSE approved[u][s]
      BY <2>1
    <2>3. spent[u][s] + allowance[u][s] <= approved[u][s]
      BY DEF ApprovalInv
    <2> QED
      BY <1>1, <2>2, <2>3, ApprovalType
  <1> QED
    BY <1>1, <1>2 DEF ApprovalInv

(* permit replaces the allowance by the value of a permit whose nonce no    *)
(* permit was accepted with before, so that it counts as approved.          *)
LEMMA ApprovalPermit ==
  ASSUME TypeOK, ApprovalInv, NEW p \in Permits, Permit(p)
  PROVE  ApprovalInv'
  <1>1. p.owner \in Users /\ p.spender \in Spenders /\ p.value \in Nat /\ p.nonce \in Nat
    BY FeiAssumption
  <1>2. /\ spent' = spent /\ p.nonce = nonces[p.owner]
        /\ nonces' = [nonces EXCEPT ![p.owner] = @ + 1]
        /\ allowance' = [allowance EXCEPT ![p.owner][p.spender] = p.value]
        /\ used' = [used EXCEPT ![p.owner] = @ \cup {p.nonce}]
    BY DEF Permit, Endorsed
  <1>3. p.nonce \notin used[p.owner]
    BY <1>1, <1>2 DEF ApprovalInv, TypeOK, FeiTypeOK
  <1>4. approved' = [approved EXCEPT ![p.owner][p.spender] = @ + p.value]
    BY <1>3 DEF Permit, Endorsed
  <1>5. ASSUME NEW u \in Users, NEW s \in Spenders
        PROVE  (spent[u][s] + allowance[u][s] <= approved[u][s])'
    <2>1. /\ allowance'[u][s] =
               IF u = p.owner /\ s = p.spender THEN p.value ELSE allowance[u][s]
          /\ approved'[u][s] =
               IF u = p.owner /\ s = p.spender THEN approved[u][s] + p.value ELSE approved[u][s]
      BY <1>1, <1>2, <1>4 DEF TypeOK, FeiTypeOK
    <2>2. spent[u][s] + allowance[u][s] <= approved[u][s]
      BY DEF ApprovalInv
    <2> QED
      BY <1>1, <1>2, <2>1, <2>2, ApprovalType
  <1>6. ASSUME NEW u \in Users, NEW n \in used'[u] PROVE n < nonces'[u]
    <2>1. /\ nonces \in [Users -> Nat] /\ used \in [Users -> SUBSET Nat]
          /\ nonces[u] \in Nat /\ used[u] \subseteq Nat
      BY DEF TypeOK, FeiTypeOK
    <2>3. nonces'[u] = IF u = p.owner THEN nonces[u] + 1 ELSE nonces[u]
      BY <1>1, <1>2, <2>1
    <2>4. used'[u] = IF u = p.owner THEN used[u] \cup {nonces[u]} ELSE used[u]
      BY <1>1, <1>2, <2>1
    <2>2. \A m \in used[u] : m < nonces[u]
      BY DEF ApprovalInv
    <2> QED
      BY <1>6, <2>1, <2>2, <2>3, <2>4
  <1> QED
    BY <1>5, <1>6 DEF ApprovalInv

-----------------------------------------------------------------------------
Sums     == SupplyInv /\ ApprovalInv
FullInv  == IInv /\ Sums

LEMMA SumsOfFeiStep ==
  ASSUME FullInv, FeiStep
  PROVE  Sums'
  <1> USE DEF FullInv, IInv, Sums
  <1>1. 1 .. MaxAmount \subseteq Nat /\ 0 .. MaxAmount \subseteq Nat /\ Users \subseteq Accounts
    BY DEF Accounts
  <1>2. ASSUME NEW u \in Users, NEW to \in Accounts, NEW n \in Nat, Transfer(u, to, n)
        PROVE  Sums'
    BY <1>1, <1>2, SupplyMoves, ApprovalQuiet DEF Transfer
  <1>3. ASSUME NEW s \in Spenders, NEW u \in Users, NEW to \in Accounts, NEW n \in Nat,
               TransferFrom(s, u, to, n)
        PROVE  Sums'
    BY <1>1, <1>3, SupplyMoves, ApprovalSpend DEF TransferFrom
  <1>4. ASSUME NEW u \in Users, NEW s \in Spenders, NEW n \in Nat, Approve(u, s, n)
        PROVE  Sums'
    BY <1>4, ApprovalApprove DEF Approve, SupplyInv, balanceVars
  <1>5. ASSUME NEW p \in Permits, Permit(p)
        PROVE  Sums'
    BY <1>5, ApprovalPermit DEF Permit, SupplyInv, balanceVars
  <1>6. ASSUME NEW a \in Accounts, NEW n \in Nat, Burn(a, n)
        PROVE  Sums'
    BY <1>6, SupplyBurns, ApprovalQuiet DEF Burn
  <1>7. ASSUME UNCHANGED <<balanceVars, allowanceVars>>
        PROVE  Sums'
    BY <1>7, ApprovalQuiet DEF SupplyInv, balanceVars
  <1>8. CASE \E u \in Users, to \in Accounts, n \in 1 .. MaxAmount : Transfer(u, to, n)
    BY <1>1, <1>2, <1>8
  <1>9. CASE \E s \in Spenders \cap Users, u \in Users, to \in Accounts, n \in 1 .. MaxAmount :
               TransferFrom(s, u, to, n)
    BY <1>1, <1>3, <1>9
  <1>10. CASE \E u \in Users : \E s \in Spenders \ {u}, n \in 0 .. MaxAmount : Approve(u, s, n)
    BY <1>1, <1>4, <1>10
  <1>11. CASE \E u \in Users, n \in 1 .. MaxAmount : Burn(u, n)
    BY <1>1, <1>6, <1>11
  <1>12. CASE \E b \in Burners, a \in Accounts, n \in 1 .. MaxAmount : BurnOf(b, a, n)
    BY <1>1, <1>6, <1>12 DEF BurnOf
  <1>13. CASE PauseFei \/ UnpauseFei \/ Tick \/ \E new \in SUBSET Minters : SetMinters(new)
    BY <1>7, <1>13 DEF PauseFei, UnpauseFei, Tick, SetMinters
  <1> QED
    BY <1>5, <1>8, <1>9, <1>10, <1>11, <1>12, <1>13 DEF FeiStep

LEMMA SumsOfStep ==
  ASSUME FullInv, Next
  PROVE  Sums'
  <1> USE DEF FullInv, IInv, Sums
  <1>1. 1 .. MaxAmount \subseteq Nat /\ PSM \in Accounts /\ PSM \in Spenders
    BY PSMIsAccount, PSMAssumption
  <1>2. ASSUME NEW m, NEW to \in Accounts, NEW n \in Nat, Mint(m, to, n)
        PROVE  Sums'
    BY <1>2, SupplyMints, ApprovalQuiet DEF Mint
  <1>3. CASE \E u \in Users, to \in Accounts, n \in 1 .. MaxAmount : MintForDai(u, to, n)
    BY <1>1, <1>2, <1>3 DEF MintForDai
  <1>4. CASE \E u \in Users, to \in Accounts, n \in 1 .. MaxAmount : Redeem(u, to, n)
    BY <1>1, <1>4, SupplyMoves, ApprovalSpend DEF Redeem, TransferFrom, Accounts
  <1>5. CASE BurnFeiHeld
    <2>1. fei[PSM] \in Nat
      BY <1>1 DEF TypeOK, FeiTypeOK
    <2> QED
      BY <1>1, <1>5, <2>1, SupplyBurns, ApprovalQuiet DEF BurnFeiHeld, Burn
  <1>6. CASE \E m \in Minters, to \in Accounts, n \in 1 .. MaxAmount : OtherMint(m, to, n)
    BY <1>1, <1>2, <1>6 DEF OtherMint
  <1>7. CASE \E u \in Users, to \in Accounts, n \in 1 .. MaxAmount : DaiTransfer(u, to, n)
    BY <1>7, ApprovalQuiet DEF DaiTransfer, feiVars, balanceVars, SupplyInv
  <1>8. CASE FeiStep
    BY <1>8, SumsOfFeiStep
  <1> QED
    BY <1>3, <1>4, <1>5, <1>6, <1>7, <1>8 DEF Next

LEMMA FullInvariance == Spec => []FullInv
  <1>1. Init => FullInv
    <2> SUFFICES ASSUME Init PROVE FullInv
      OBVIOUS
    <2>1. IInv
      BY InitIInv
    <2>2. SupplyInv
      BY FeiAssumption DEF Init, FeiInit, SupplyInv, SumOf
    <2>3. ApprovalInv
      BY DEF Init, FeiInit, ApprovalInv
    <2> QED
      BY <2>1, <2>2, <2>3 DEF FullInv, Sums
  <1>2. FullInv /\ [Next]_vars => FullInv'
    <2> SUFFICES ASSUME FullInv, [Next]_vars PROVE FullInv'
      OBVIOUS
    <2>1. IInv'
      BY StepKeeps DEF FullInv
    <2>2. ASSUME UNCHANGED vars PROVE Sums'
      BY <2>2, ApprovalQuiet DEF vars, feiVars, balanceVars, SupplyInv, FullInv, Sums
    <2>3. ASSUME Next PROVE Sums'
      BY <2>3, SumsOfStep
    <2>4. Sums'
      BY <2>2, <2>3
    <2> QED
      BY <2>1, <2>4 DEF FullInv
  <1> QED
    BY <1>1, <1>2, PTL DEF Spec

-----------------------------------------------------------------------------
(* No call of Fei or of the PSM overdraws a balance or an allowance.        *)
THEOREM TypeCorrect == Spec => []TypeOK
  <1>1. IInv => TypeOK
    BY DEF IInv
  <1>2. IInv /\ [Next]_vars => IInv'
    BY StepKeeps
  <1> QED
    BY <1>1, <1>2, InitIInv, PTL DEF Spec

(* Whatever mints, redemptions, burns, permits, pauses and changes of the   *)
(* minters happen, the FEI outside the PSM is covered by its DAI but for    *)
(* what others minted.                                                      *)
THEOREM BackingKept == Spec => []CirculationCovered
  <1>1. IInv => CirculationCovered
    BY DEF IInv
  <1>2. IInv /\ [Next]_vars => IInv'
    BY StepKeeps
  <1> QED
    BY <1>1, <1>2, InitIInv, PTL DEF Spec

(* Once no other account can mint, FEI is only created for DAI that the PSM *)
(* keeps.                                                                   *)
THEOREM CreatedForDai == Spec => WrapperOnly
  <1>1. IInv /\ [Next]_vars => IInv' /\ [Created]_vars
    BY StepKeeps
  <1> QED
    BY <1>1, InitIInv, PTL DEF Spec, WrapperOnly, Created

(* While nobody else mints, all the holders can redeem: the PSM has the DAI *)
(* for what every account but itself holds.                                 *)
THEOREM EveryHolderCanRedeem == Spec => []NobodyIsLast
  <1>1. FullInv => NobodyIsLast
    <2>1. SUFFICES ASSUME FullInv, unbacked = 0
                   PROVE  SumOf(fei, Accounts \ {PSM}) <= dai[PSM]
      BY DEF NobodyIsLast, SumOf
    <2>2. /\ \A a \in Accounts : fei[a] \in Int
          /\ PSM \in Accounts /\ dai[PSM] \in Nat /\ totalSupply \in Int
      BY <2>1, PSMIsAccount DEF FullInv, IInv, TypeOK, FeiTypeOK
    <2>3. SumOf(fei, Accounts) = fei[PSM] + SumOf(fei, Accounts \ {PSM})
      BY <2>2, FeiAssumption, SumTake
    <2>4. SumOf(fei, Accounts \ {PSM}) \in Int
      BY <2>2, FeiAssumption, FS_Subset, SumTake
    <2>5. totalSupply = SumOf(fei, Accounts) /\ totalSupply - fei[PSM] - dai[PSM] <= 0
      BY <2>1 DEF FullInv, Sums, SupplyInv, IInv, CirculationCovered, Uncovered
    <2> QED
      BY <2>2, <2>3, <2>4, <2>5
  <1> QED
    BY <1>1, FullInvariance, PTL

(* However permits are relayed and approvals follow each other, a spender   *)
(* takes no more than the owner approved for it, each nonce counted once.   *)
THEOREM AllowancesHold == Spec => []SpendsWhatWasApproved
  <1>1. FullInv => SpendsWhatWasApproved
    <2>1. SUFFICES ASSUME FullInv, NEW u \in Users, NEW s \in Spenders
                   PROVE  spent[u][s] <= approved[u][s]
      BY DEF SpendsWhatWasApproved
    <2>2. spent[u][s] + allowance[u][s] <= approved[u][s]
      BY <2>1 DEF FullInv, Sums, ApprovalInv
    <2> QED
      BY <2>1, <2>2, ApprovalType DEF FullInv, IInv
  <1> QED
    BY <1>1, FullInvariance, PTL
=============================================================================
