----------------------- MODULE MerkleRedemptionProofs -----------------------
(***************************************************************************)
(* Theorems about RariMerkleRedeemer, about the ERC20Dripper that refills   *)
(* it and about MerkleRedemption, which composes the two, for any users,    *)
(* trees, rates, batches, periods and funding.  A batch is followed item by *)
(* item: every claim about it is proved for its first n items.              *)
(***************************************************************************)
EXTENDS RariMerkleRedeemer, RedemptionPace, Arithmetic

CONSTANTS Dao, DaoFei, MaxTime,
          Others, InitialBal   \* of the dripper on its own

VARIABLES now, paused, withdrawn

(* The dripper on its own, with any other holders and balances.             *)
Dr == INSTANCE ERC20Dripper WITH Dripper <- Treasury, Target <- Redeemer, bal <- fei

(* The treasury that funds the redeemer is the dripper.                     *)
M == INSTANCE MerkleRedemption WITH Dripper <- Treasury

Arrays == Seq(Items)

(* The functions that the sums of the redeemer run over.                    *)
Amounts(batch) == [i \in DOMAIN batch |-> batch[i].amount]
Values(batch)  == [i \in DOMAIN batch |-> PreviewRedeem(batch[i].cToken, batch[i].amount)]
Worths(r)      == [c \in CTokens |-> Rate[c] * r[c]]
RedeemedIn(r, c) == [u \in Users |-> r[u][c]]

(* What a user may still redeem, for given claims and redemptions.          *)
Published(u, c) == {n \in 0 .. MaxAmount : <<u, n>> \in Leaves[c]}

Left(claimed, redeemed, u, c) ==
  Max({0, (IF claimed[u][c] # 0 THEN claimed[u][c] ELSE Max({0} \cup Published(u, c)))
            - redeemed[u][c]})

Dues(claimed, redeemed) ==
  [p \in Users \X CTokens |-> PreviewRedeem(p[2], Left(claimed, redeemed, p[1], p[2]))]

-----------------------------------------------------------------------------
LEMMA BatchItems ==
  ASSUME NEW batch \in Arrays
  PROVE  /\ Len(batch) \in Nat /\ DOMAIN batch = 1 .. Len(batch)
         /\ \A i \in 1 .. Len(batch) :
              /\ batch[i].cToken \in CTokens
              /\ batch[i].amount \in 0 .. MaxAmount
              /\ batch[i].amount \in Nat
  <1>1. \A i \in 1 .. Len(batch) : batch[i] \in Items
    BY DEF Arrays
  <1> QED
    BY <1>1, MerkleAssumption DEF Arrays, Items

LEMMA PreviewType ==
  ASSUME NEW c \in CTokens, NEW n \in Nat
  PROVE  PreviewRedeem(c, n) \in Nat /\ Rate[c] * n \in Nat
         /\ PreviewRedeem(c, n) * Scale <= Rate[c] * n
  <1>1. Rate[c] \in Nat /\ Scale \in Nat /\ Scale # 0
    BY MerkleAssumption
  <1>2. Rate[c] * n \in Nat
    BY <1>1
  <1> QED
    BY <1>1, <1>2, DivBounds DEF PreviewRedeem

(* Rounding item by item pays no more than rounding once: a payment of n    *)
(* out of m leaves at least what is still to pay.                           *)
LEMMA PreviewSplit ==
  ASSUME NEW c \in CTokens, NEW m \in Nat, NEW n \in Nat, n <= m
  PROVE  PreviewRedeem(c, m - n) + PreviewRedeem(c, n) <= PreviewRedeem(c, m)
  <1> DEFINE p == PreviewRedeem(c, m - n)
             q == PreviewRedeem(c, n)
             w == PreviewRedeem(c, m)
  <1>1. Rate[c] \in Nat /\ Scale \in Nat /\ Scale # 0 /\ m - n \in Nat
    BY MerkleAssumption
  <1>2. /\ p \in Nat /\ q \in Nat /\ w \in Nat
        /\ p * Scale <= Rate[c] * (m - n) /\ q * Scale <= Rate[c] * n
    BY <1>1, PreviewType
  <1>3. Rate[c] * m < w * Scale + Scale
    <2>1. Rate[c] * m \in Nat
      BY <1>1
    <2> QED
      BY <1>1, <2>1, DivBounds DEF PreviewRedeem
  <1> HIDE DEF p, q, w
  <1>4. (p + q) * Scale < (w + 1) * Scale
    BY <1>1, <1>2, <1>3, Z3
  <1>5. p + q < w + 1
    BY <1>1, <1>2, <1>4, Z3
  <1> QED
    BY <1>2, <1>5 DEF p, q, w

LEMMA PreviewMonotone ==
  ASSUME NEW c \in CTokens, NEW m \in Nat, NEW n \in Nat, n <= m
  PROVE  PreviewRedeem(c, n) <= PreviewRedeem(c, m)
  <1>1. PreviewRedeem(c, m - n) \in Nat /\ m - n \in Nat
    BY PreviewType
  <1>2. PreviewRedeem(c, n) \in Nat /\ PreviewRedeem(c, m) \in Nat
    BY PreviewType
  <1> QED
    BY <1>1, <1>2, PreviewSplit

-----------------------------------------------------------------------------
(* Each sum of the model is the sum of a function.                          *)
LEMMA TotalIsSum ==
  ASSUME NEW batch \in Arrays, NEW c, NEW n \in 0 .. Len(batch)
  PROVE  Total(batch, c, n) = SumOf(Amounts(batch), ItemsOf(batch, c, n))
  <1> DEFINE T == ItemsOf(batch, c, n)
             F == Amounts(batch)
             ItemStep(g, t) ==
               IF t = {} THEN 0 ELSE batch[Chosen(t)].amount + g[t \ {Chosen(t)}]
             Is(g) == g = [t \in SUBSET T |-> ItemStep(g, t)]
             it == CHOOSE g : Is(g)
  <1>1. Total(batch, c, n) = it[T]
    BY DEF Total, MapThenSumSet, MapThenFoldSet, Chosen
  <1>2. T \subseteq DOMAIN batch /\ IsFiniteSet(T)
    <2>1. T \subseteq 1 .. n /\ IsFiniteSet(1 .. n)
      BY FS_Interval DEF ItemsOf
    <2> QED
      BY <2>1, BatchItems, FS_Subset
  <1> HIDE DEF T
  <1>3. ASSUME NEW g, NEW t \in SUBSET T PROVE ItemStep(g, t) = Step(g, F, t)
    BY <1>2, ChosenIn DEF Step, Amounts
  <1> HIDE DEF F, ItemStep
  <1>4. \E g : Is(g)
    <2>1. PICK h : SumsOver(h, F, T) /\ h = [t \in SUBSET T |-> h[t]]
      BY <1>2, SumsFunction
    <2>2. h = [t \in SUBSET T |-> ItemStep(h, t)]
      BY <1>3, <2>1 DEF SumsOver
    <2> QED
      BY <2>2
  <1>5. Is(it)
    <2> HIDE DEF Is
    <2> QED
      BY <1>4
  <1> HIDE DEF it
  <1>6. SumsOver(it, F, T)
    BY <1>3, <1>5 DEF SumsOver
  <1> QED
    BY <1>1, <1>2, <1>6, SumIs DEF T, F

LEMMA PayoutIsSum ==
  ASSUME NEW batch \in Arrays
  PROVE  Payout(batch) = SumOf(Values(batch), DOMAIN batch)
  <1> DEFINE T == DOMAIN batch
             F == Values(batch)
             ItemStep(g, t) ==
               IF t = {} THEN 0
               ELSE PreviewRedeem(batch[Chosen(t)].cToken, batch[Chosen(t)].amount)
                      + g[t \ {Chosen(t)}]
             Is(g) == g = [t \in SUBSET T |-> ItemStep(g, t)]
             it == CHOOSE g : Is(g)
  <1>1. Payout(batch) = it[T]
    BY DEF Payout, MapThenSumSet, MapThenFoldSet, Chosen
  <1>2. IsFiniteSet(T)
    BY BatchItems, FS_Interval
  <1> HIDE DEF T
  <1>3. ASSUME NEW g, NEW t \in SUBSET T PROVE ItemStep(g, t) = Step(g, F, t)
    BY ChosenIn DEF Step, Values, T
  <1> HIDE DEF F, ItemStep
  <1>4. \E g : Is(g)
    <2>1. PICK h : SumsOver(h, F, T) /\ h = [t \in SUBSET T |-> h[t]]
      BY <1>2, SumsFunction
    <2>2. h = [t \in SUBSET T |-> ItemStep(h, t)]
      BY <1>3, <2>1 DEF SumsOver
    <2> QED
      BY <2>2
  <1>5. Is(it)
    <2> HIDE DEF Is
    <2> QED
      BY <1>4
  <1> HIDE DEF it
  <1>6. SumsOver(it, F, T)
    BY <1>3, <1>5 DEF SumsOver
  <1> QED
    BY <1>1, <1>2, <1>6, SumIs DEF T, F

LEMMA WorthIsSum ==
  ASSUME NEW r
  PROVE  MapThenSumSet(LAMBDA c : Rate[c] * r[c], CTokens) = SumOf(Worths(r), CTokens)
  <1> DEFINE T == CTokens
             F == Worths(r)
             TokenStep(g, t) ==
               IF t = {} THEN 0 ELSE Rate[Chosen(t)] * r[Chosen(t)] + g[t \ {Chosen(t)}]
             Is(g) == g = [t \in SUBSET T |-> TokenStep(g, t)]
             it == CHOOSE g : Is(g)
  <1>1. MapThenSumSet(LAMBDA c : Rate[c] * r[c], CTokens) = it[T]
    BY DEF MapThenSumSet, MapThenFoldSet, Chosen
  <1>2. IsFiniteSet(T)
    BY MerkleAssumption
  <1> HIDE DEF T
  <1>3. ASSUME NEW g, NEW t \in SUBSET T PROVE TokenStep(g, t) = Step(g, F, t)
    BY ChosenIn DEF Step, Worths, T
  <1> HIDE DEF F, TokenStep
  <1>4. \E g : Is(g)
    <2>1. PICK h : SumsOver(h, F, T) /\ h = [t \in SUBSET T |-> h[t]]
      BY <1>2, SumsFunction
    <2>2. h = [t \in SUBSET T |-> TokenStep(h, t)]
      BY <1>3, <2>1 DEF SumsOver
    <2> QED
      BY <2>2
  <1>5. Is(it)
    <2> HIDE DEF Is
    <2> QED
      BY <1>4
  <1> HIDE DEF it
  <1>6. SumsOver(it, F, T)
    BY <1>3, <1>5 DEF SumsOver
  <1> QED
    BY <1>1, <1>2, <1>6, SumIs DEF T, F

LEMMA RedeemedIsSum ==
  ASSUME NEW r, NEW c
  PROVE  MapThenSumSet(LAMBDA u : r[u][c], Users) = SumOf(RedeemedIn(r, c), Users)
  <1> DEFINE T == Users
             F == RedeemedIn(r, c)
             UserStep(g, t) ==
               IF t = {} THEN 0 ELSE r[Chosen(t)][c] + g[t \ {Chosen(t)}]
             Is(g) == g = [t \in SUBSET T |-> UserStep(g, t)]
             it == CHOOSE g : Is(g)
  <1>1. MapThenSumSet(LAMBDA u : r[u][c], Users) = it[T]
    BY DEF MapThenSumSet, MapThenFoldSet, Chosen
  <1>2. IsFiniteSet(T)
    BY MerkleAssumption
  <1> HIDE DEF T
  <1>3. ASSUME NEW g, NEW t \in SUBSET T PROVE UserStep(g, t) = Step(g, F, t)
    BY ChosenIn DEF Step, RedeemedIn, T
  <1> HIDE DEF F, UserStep
  <1>4. \E g : Is(g)
    <2>1. PICK h : SumsOver(h, F, T) /\ h = [t \in SUBSET T |-> h[t]]
      BY <1>2, SumsFunction
    <2>2. h = [t \in SUBSET T |-> UserStep(h, t)]
      BY <1>3, <2>1 DEF SumsOver
    <2> QED
      BY <2>2
  <1>5. Is(it)
    <2> HIDE DEF Is
    <2> QED
      BY <1>4
  <1> HIDE DEF it
  <1>6. SumsOver(it, F, T)
    BY <1>3, <1>5 DEF SumsOver
  <1> QED
    BY <1>1, <1>2, <1>6, SumIs DEF T, F

LEMMA OwedIsSum ==
  ASSUME NEW claimed, NEW redeemed
  PROVE  MapThenSumSet(LAMBDA p : PreviewRedeem(p[2], Left(claimed, redeemed, p[1], p[2])),
                       Users \X CTokens) = SumOf(Dues(claimed, redeemed), Users \X CTokens)
  <1> DEFINE T == Users \X CTokens
             F == Dues(claimed, redeemed)
             PairStep(g, t) ==
               IF t = {} THEN 0
               ELSE PreviewRedeem(Chosen(t)[2],
                                  Left(claimed, redeemed, Chosen(t)[1], Chosen(t)[2]))
                      + g[t \ {Chosen(t)}]
             Is(g) == g = [t \in SUBSET T |-> PairStep(g, t)]
             it == CHOOSE g : Is(g)
  <1>1. MapThenSumSet(LAMBDA p : PreviewRedeem(p[2], Left(claimed, redeemed, p[1], p[2])),
                       Users \X CTokens) = it[T]
    BY DEF MapThenSumSet, MapThenFoldSet, Chosen
  <1>2. IsFiniteSet(T)
    BY MerkleAssumption, FS_Product
  <1> HIDE DEF T
  <1>3. ASSUME NEW g, NEW t \in SUBSET T PROVE PairStep(g, t) = Step(g, F, t)
    BY ChosenIn DEF Step, Dues, T
  <1> HIDE DEF F, PairStep
  <1>4. \E g : Is(g)
    <2>1. PICK h : SumsOver(h, F, T) /\ h = [t \in SUBSET T |-> h[t]]
      BY <1>2, SumsFunction
    <2>2. h = [t \in SUBSET T |-> PairStep(h, t)]
      BY <1>3, <2>1 DEF SumsOver
    <2> QED
      BY <2>2
  <1>5. Is(it)
    <2> HIDE DEF Is
    <2> QED
      BY <1>4
  <1> HIDE DEF it
  <1>6. SumsOver(it, F, T)
    BY <1>3, <1>5 DEF SumsOver
  <1> QED
    BY <1>1, <1>2, <1>6, SumIs DEF T, F

-----------------------------------------------------------------------------
(* The total of a cToken, item by item.                                     *)
LEMMA NoItemsYet ==
  ASSUME NEW batch \in Arrays, NEW c
  PROVE  ItemsOf(batch, c, 0) = {} /\ Total(batch, c, 0) = 0
  <1>1. ItemsOf(batch, c, 0) = {} /\ 0 \in 0 .. Len(batch)
    BY BatchItems DEF ItemsOf
  <1>2. SumOf(Amounts(batch), ItemsOf(batch, c, 0)) = SumOf(Amounts(batch), {})
    BY <1>1, Zenon
  <1> QED
    BY <1>1, <1>2, TotalIsSum, SumEmpty

LEMMA ItemsSum ==
  ASSUME NEW batch \in Arrays, NEW c, NEW n \in 0 .. Len(batch)
  PROVE  /\ IsFiniteSet(ItemsOf(batch, c, n))
         /\ \A i \in ItemsOf(batch, c, n) : Amounts(batch)[i] \in Nat
         /\ Total(batch, c, n) \in Nat
  <1>1. ItemsOf(batch, c, n) \subseteq 1 .. n /\ IsFiniteSet(1 .. n)
        /\ 1 .. n \subseteq 1 .. Len(batch)
    <2>1. n \in Int /\ Len(batch) \in Int /\ n <= Len(batch)
      BY BatchItems
    <2> QED
      BY <2>1, FS_Interval DEF ItemsOf
  <1>2. IsFiniteSet(ItemsOf(batch, c, n))
    BY <1>1, FS_Subset
  <1>3. \A i \in ItemsOf(batch, c, n) : Amounts(batch)[i] \in Nat
    BY <1>1, BatchItems DEF Amounts
  <1> QED
    BY <1>2, <1>3, TotalIsSum, SumNat

LEMMA NextItem ==
  ASSUME NEW batch \in Arrays, NEW c, NEW n \in Nat, n + 1 <= Len(batch)
  PROVE  /\ batch[n + 1].cToken # c =>
              /\ ItemsOf(batch, c, n + 1) = ItemsOf(batch, c, n)
              /\ Total(batch, c, n + 1) = Total(batch, c, n)
         /\ batch[n + 1].cToken = c =>
              /\ ItemsOf(batch, c, n + 1) # {}
              /\ Total(batch, c, n + 1) = Total(batch, c, n) + batch[n + 1].amount
  <1>1. n \in 0 .. Len(batch) /\ n + 1 \in 0 .. Len(batch) /\ n + 1 \in 1 .. Len(batch)
    BY BatchItems
  <1>2. 1 .. n + 1 = (1 .. n) \cup {n + 1} /\ n + 1 \notin 1 .. n
    OBVIOUS
  <1>3. ASSUME batch[n + 1].cToken # c
        PROVE  /\ ItemsOf(batch, c, n + 1) = ItemsOf(batch, c, n)
               /\ Total(batch, c, n + 1) = Total(batch, c, n)
    <2>1. ItemsOf(batch, c, n + 1) = ItemsOf(batch, c, n)
      BY <1>2, <1>3 DEF ItemsOf
    <2>2. SumOf(Amounts(batch), ItemsOf(batch, c, n + 1))
            = SumOf(Amounts(batch), ItemsOf(batch, c, n))
      BY <2>1, Zenon
    <2> QED
      BY <1>1, <2>1, <2>2, TotalIsSum
  <1>4. ASSUME batch[n + 1].cToken = c
        PROVE  /\ ItemsOf(batch, c, n + 1) # {}
               /\ Total(batch, c, n + 1) = Total(batch, c, n) + batch[n + 1].amount
    <2> DEFINE T == ItemsOf(batch, c, n + 1)
    <2>1. n + 1 \in T /\ T \ {n + 1} = ItemsOf(batch, c, n)
      BY <1>2, <1>4 DEF ItemsOf
    <2>2. IsFiniteSet(T) /\ \A i \in T : Amounts(batch)[i] \in Int
      BY <1>1, ItemsSum
    <2> HIDE DEF T
    <2>3. SumOf(Amounts(batch), T)
            = Amounts(batch)[n + 1] + SumOf(Amounts(batch), T \ {n + 1})
      BY <2>1, <2>2, SumTake
    <2>4. SumOf(Amounts(batch), T \ {n + 1}) = SumOf(Amounts(batch), ItemsOf(batch, c, n))
      BY <2>1, Zenon
    <2>5. Amounts(batch)[n + 1] = batch[n + 1].amount /\ batch[n + 1].amount \in Nat
      BY <1>1, BatchItems DEF Amounts
    <2>6. Total(batch, c, n + 1) = batch[n + 1].amount + Total(batch, c, n)
      BY <1>1, <2>3, <2>4, <2>5, TotalIsSum DEF T
    <2>7. Total(batch, c, n) \in Nat
      BY <1>1, ItemsSum
    <2> QED
      BY <2>1, <2>5, <2>6, <2>7 DEF T
  <1> QED
    BY <1>3, <1>4

(* What the first n items pay.                                              *)
PaidFor(batch, n) == SumOf(Values(batch), 1 .. n)

LEMMA PaidItems ==
  ASSUME NEW batch \in Arrays
  PROVE  /\ PaidFor(batch, 0) = 0
         /\ Payout(batch) = PaidFor(batch, Len(batch))
         /\ \A n \in 0 .. Len(batch) : PaidFor(batch, n) \in Nat
         /\ \A n \in Nat : n + 1 <= Len(batch) =>
              PaidFor(batch, n + 1)
                = PaidFor(batch, n) + PreviewRedeem(batch[n + 1].cToken, batch[n + 1].amount)
  <1>1. \A i \in 1 .. Len(batch) :
           /\ Values(batch)[i] = PreviewRedeem(batch[i].cToken, batch[i].amount)
           /\ Values(batch)[i] \in Nat
    BY BatchItems, PreviewType DEF Values
  <1>2. PaidFor(batch, 0) = 0
    <2>1. 1 .. 0 = {}
      OBVIOUS
    <2>2. SumOf(Values(batch), 1 .. 0) = SumOf(Values(batch), {})
      BY <2>1, Zenon
    <2> QED
      BY <2>2, SumEmpty DEF PaidFor
  <1>3. Payout(batch) = PaidFor(batch, Len(batch))
    <2>1. SumOf(Values(batch), DOMAIN batch) = SumOf(Values(batch), 1 .. Len(batch))
      BY BatchItems, Zenon
    <2> QED
      BY <2>1, PayoutIsSum DEF PaidFor
  <1>4. ASSUME NEW n \in 0 .. Len(batch)
        PROVE  IsFiniteSet(1 .. n) /\ 1 .. n \subseteq 1 .. Len(batch) /\ PaidFor(batch, n) \in Nat
    <2>1. IsFiniteSet(1 .. n) /\ 1 .. n \subseteq 1 .. Len(batch)
      BY BatchItems, FS_Interval
    <2> QED
      BY <1>1, <2>1, SumNat DEF PaidFor
  <1>5. ASSUME NEW n \in Nat, n + 1 <= Len(batch)
        PROVE  PaidFor(batch, n + 1)
                 = PaidFor(batch, n) + PreviewRedeem(batch[n + 1].cToken, batch[n + 1].amount)
    <2>1. n + 1 \in 1 .. n + 1 /\ (1 .. n + 1) \ {n + 1} = 1 .. n
          /\ n + 1 \in 0 .. Len(batch) /\ n \in 0 .. Len(batch) /\ n + 1 \in 1 .. Len(batch)
      BY <1>5, BatchItems
    <2>2. IsFiniteSet(1 .. n + 1) /\ \A i \in 1 .. n + 1 : Values(batch)[i] \in Int
      BY <1>1, <1>4, <2>1
    <2>3. SumOf(Values(batch), 1 .. n + 1)
            = Values(batch)[n + 1] + SumOf(Values(batch), (1 .. n + 1) \ {n + 1})
      BY <2>1, <2>2, SumTake
    <2>4. SumOf(Values(batch), (1 .. n + 1) \ {n + 1}) = SumOf(Values(batch), 1 .. n)
      BY <2>1, Zenon
    <2>5. PaidFor(batch, n) \in Nat /\ Values(batch)[n + 1] \in Nat
      BY <1>1, <1>4, <2>1
    <2> QED
      BY <1>1, <2>1, <2>3, <2>4, <2>5 DEF PaidFor
  <1> QED
    BY <1>2, <1>3, <1>4, <1>5

-----------------------------------------------------------------------------
(* Max of the community modules, on the sets the model applies it to.       *)
LEMMA MaxOfTwo ==
  ASSUME NEW x \in Int
  PROVE  Max({0, x}) = IF x > 0 THEN x ELSE 0
  <1> DEFINE m == IF x > 0 THEN x ELSE 0
             Is(y) == y \in {0, x} /\ \A z \in {0, x} : y >= z
  <1>1. Is(m) /\ \A y : Is(y) => y = m
    OBVIOUS
  <1>2. Max({0, x}) = CHOOSE y : Is(y)
    BY DEF Max
  <1> HIDE DEF Is, m
  <1>3. Is(CHOOSE y : Is(y))
    BY <1>1
  <1>4. Max({0, x}) = m
    BY <1>1, <1>2, <1>3
  <1> QED
    BY <1>4 DEF m

LEMMA LargestExists ==
  ASSUME NEW n \in Nat, NEW S \in SUBSET (0 .. n), S # {}
  PROVE  \E m \in S : \A y \in S : m >= y
  <1> DEFINE G == {k \in Nat : \A T \in SUBSET (0 .. k) :
                     T # {} => \E m \in T : \A y \in T : m >= y}
  <1>1. 0 \in G
    <2> SUFFICES ASSUME NEW T \in SUBSET (0 .. 0), T # {}
                 PROVE  \E m \in T : \A y \in T : m >= y
      BY DEF G
    <2>1. \A y \in T : y = 0
      OBVIOUS
    <2>2. 0 \in T
      BY <2>1
    <2> QED
      BY <2>1, <2>2
  <1>2. ASSUME NEW k \in Nat, k \in G PROVE k + 1 \in G
    <2> SUFFICES ASSUME NEW T \in SUBSET (0 .. k + 1), T # {}
                 PROVE  \E m \in T : \A y \in T : m >= y
      BY DEF G
    <2>1. CASE k + 1 \in T
      BY <2>1
    <2>2. CASE k + 1 \notin T
      <3>1. \A y \in T : y \in 0 .. k
        BY <2>2
      <3>2. T \in SUBSET (0 .. k)
        BY <3>1
      <3> QED
        BY <1>2, <3>2
    <2> QED
      BY <2>1, <2>2
  <1> HIDE DEF G
  <1>3. n \in G
    BY <1>1, <1>2, NatSetInduction
  <1> QED
    BY <1>3 DEF G

(* The largest leaf of a user, if no claim is proven yet.                   *)
LargestLeaf(u, c) == Max({0} \cup Published(u, c))

LEMMA LargestLeafBounds ==
  ASSUME NEW u, NEW c
  PROVE  LargestLeaf(u, c) \in Nat /\ \A n \in Published(u, c) : n <= LargestLeaf(u, c)
  <1> DEFINE S == {0} \cup Published(u, c)
             Is(m) == m \in S /\ \A y \in S : m >= y
  <1>1. MaxAmount \in Nat /\ S \in SUBSET (0 .. MaxAmount) /\ S # {}
    <2>1. MaxAmount \in Nat
      BY MerkleAssumption
    <2> QED
      BY <2>1 DEF Published
  <1> HIDE DEF S
  <1>2. \E m : Is(m)
    BY <1>1, LargestExists
  <1>3. LargestLeaf(u, c) = CHOOSE m : Is(m)
    BY DEF LargestLeaf, Max, S
  <1> HIDE DEF Is
  <1>4. Is(LargestLeaf(u, c))
    BY <1>2, <1>3
  <1>5. LargestLeaf(u, c) \in S /\ \A y \in S : LargestLeaf(u, c) >= y
    BY <1>4 DEF Is
  <1>6. \A y \in S : y \in Nat
    BY <1>1
  <1> QED
    BY <1>5, <1>6 DEF S

(* Claims and redemptions that a user may have.                             *)
Books == [Users -> [CTokens -> Nat]]

LEMMA LeftValue ==
  ASSUME NEW claimed \in Books, NEW redeemed \in Books, NEW u \in Users, NEW c \in CTokens,
         redeemed[u][c] <= claimed[u][c]
  PROVE  Left(claimed, redeemed, u, c)
           = IF claimed[u][c] # 0 THEN claimed[u][c] - redeemed[u][c] ELSE LargestLeaf(u, c)
  <1>1. claimed[u][c] \in Nat /\ redeemed[u][c] \in Nat /\ LargestLeaf(u, c) \in Nat
    BY LargestLeafBounds DEF Books
  <1>2. CASE claimed[u][c] # 0
    BY <1>1, <1>2, MaxOfTwo DEF Left
  <1>3. CASE claimed[u][c] = 0
    <2> DEFINE x == LargestLeaf(u, c) - redeemed[u][c]
    <2>1. x = LargestLeaf(u, c) /\ x \in Int
      BY <1>1, <1>3
    <2>2. Left(claimed, redeemed, u, c) = Max({0, x})
      BY <1>3 DEF Left, LargestLeaf
    <2> HIDE DEF x
    <2>3. Max({0, x}) = IF x > 0 THEN x ELSE 0
      BY <2>1, MaxOfTwo
    <2> QED
      BY <1>1, <1>3, <2>1, <2>2, <2>3
  <1> QED
    BY <1>2, <1>3

-----------------------------------------------------------------------------
(* What a claim may change: an entitlement of the caller that was zero.     *)
Granted(u, claimed) ==
  /\ claimed \in Books
  /\ \A c \in CTokens : \/ claimed[u][c] = claims[u][c]
                        \/ claims[u][c] = 0 /\ claimed[u][c] \in Published(u, c)
  /\ \A v \in Users \ {u} : claimed[v] = claims[v]

WithinClaims == \A u \in Users, c \in CTokens : redemptions[u][c] <= claims[u][c]

(* The redemptions after the first n items.                                 *)
Redeemed(u, batch, n) ==
  [redemptions EXCEPT ![u] = [c \in CTokens |-> redemptions[u][c] + Total(batch, c, n)]]

(* The last item for a cToken is proven, and those before it are zero.      *)
LEMMA ClaimsAreGranted ==
  ASSUME TypeOK, NEW u \in Users, NEW batch \in Arrays, Claimable(u, batch)
  PROVE  Granted(u, WithClaims(u, batch))
  <1>1. /\ claims \in [Users -> [CTokens -> Nat]]
        /\ Len(batch) \in Nat /\ DOMAIN batch = 1 .. Len(batch)
    BY BatchItems DEF TypeOK
  <1>2. ASSUME NEW c \in CTokens
        PROVE  ItemsOf(batch, c, Len(batch)) # {} =>
                 claims[u][c] = 0 /\ Total(batch, c, Len(batch)) \in Published(u, c)
    <2> DEFINE G == {n \in Nat : n <= Len(batch) /\ ItemsOf(batch, c, n) # {} =>
                       claims[u][c] = 0 /\ Total(batch, c, n) \in Published(u, c)}
    <2>1. 0 \in G
      BY NoItemsYet
    <2>2. ASSUME NEW n \in Nat, n \in G PROVE n + 1 \in G
      <3> SUFFICES ASSUME n + 1 <= Len(batch), ItemsOf(batch, c, n + 1) # {}
                   PROVE  claims[u][c] = 0 /\ Total(batch, c, n + 1) \in Published(u, c)
        OBVIOUS
      <3>1. n <= Len(batch) /\ n + 1 \in 1 .. Len(batch) /\ (n + 1) - 1 = n
        BY <1>1
      <3>2. CASE batch[n + 1].cToken # c
        BY <2>2, <3>1, <3>2, NextItem
      <3>3. CASE batch[n + 1].cToken = c
        <4>1. /\ claims[u][c] = 0 /\ Total(batch, c, n) = 0
              /\ <<u, batch[n + 1].amount>> \in Leaves[c]
          BY <1>1, <3>1, <3>3 DEF Claimable
        <4>2. batch[n + 1].amount \in 0 .. MaxAmount /\ batch[n + 1].amount \in Nat
          BY <3>1, BatchItems
        <4>3. Total(batch, c, n + 1) = batch[n + 1].amount
          BY <3>3, <4>1, <4>2, NextItem
        <4> QED
          BY <4>1, <4>2, <4>3 DEF Published
      <3> QED
        BY <3>2, <3>3
    <2> HIDE DEF G
    <2>3. Len(batch) \in G
      BY <1>1, <2>1, <2>2, NatSetInduction
    <2> QED
      BY <1>1, <2>3 DEF G
  <1>3. ASSUME NEW c \in CTokens
        PROVE  /\ WithClaims(u, batch)[u][c] \in Nat
               /\ \/ WithClaims(u, batch)[u][c] = claims[u][c]
                  \/ claims[u][c] = 0 /\ WithClaims(u, batch)[u][c] \in Published(u, c)
    <2>1. WithClaims(u, batch)[u][c] =
            IF ItemsOf(batch, c, Len(batch)) = {} THEN claims[u][c]
            ELSE Total(batch, c, Len(batch))
      BY <1>1 DEF WithClaims
    <2>2. Total(batch, c, Len(batch)) \in Nat /\ claims[u][c] \in Nat
      BY <1>1, ItemsSum
    <2> QED
      BY <1>2, <2>1, <2>2
  <1>4. WithClaims(u, batch) \in Books
    <2> DEFINE mine == [c \in CTokens |->
                 IF ItemsOf(batch, c, Len(batch)) = {} THEN claims[u][c]
                 ELSE Total(batch, c, Len(batch))]
    <2>1. mine \in [CTokens -> Nat]
      <3>1. \A c \in CTokens : mine[c] \in Nat
        BY <1>1, ItemsSum
      <3> QED
        BY <3>1
    <2>2. WithClaims(u, batch) = [claims EXCEPT ![u] = mine]
      BY DEF WithClaims
    <2> HIDE DEF mine
    <2> QED
      BY <1>1, <2>1, <2>2 DEF Books
  <1>5. \A v \in Users \ {u} : WithClaims(u, batch)[v] = claims[v]
    BY <1>1 DEF WithClaims
  <1> QED
    BY <1>3, <1>4, <1>5 DEF Granted

(* Redeemable keeps every prefix of a batch within the claims.              *)
LEMMA PrefixWithinClaims ==
  ASSUME TypeOK, WithinClaims, NEW u \in Users, NEW batch \in Arrays,
         NEW claimed, Granted(u, claimed), Redeemable(u, batch, claimed),
         NEW n \in Nat, n <= Len(batch)
  PROVE  /\ Redeemed(u, batch, n) \in Books
         /\ \A c \in CTokens : Redeemed(u, batch, n)[u][c] = redemptions[u][c] + Total(batch, c, n)
         /\ \A v \in Users \ {u} : Redeemed(u, batch, n)[v] = redemptions[v]
         /\ \A v \in Users, c \in CTokens : Redeemed(u, batch, n)[v][c] <= claimed[v][c]
  <1>1. /\ redemptions \in Books /\ claimed \in Books
        /\ Len(batch) \in Nat /\ DOMAIN batch = 1 .. Len(batch)
    BY BatchItems DEF TypeOK, Books, Granted
  <1>2. ASSUME NEW c \in CTokens
        PROVE  redemptions[u][c] + Total(batch, c, n) <= claimed[u][c]
    <2> DEFINE G == {k \in Nat : k <= Len(batch) =>
                       redemptions[u][c] + Total(batch, c, k) <= claimed[u][c]}
    <2>1. redemptions[u][c] \in Nat /\ redemptions[u][c] <= claimed[u][c]
          /\ claimed[u][c] \in Nat
      <3>1. redemptions[u][c] \in Nat /\ claimed[u][c] \in Nat
        BY <1>1 DEF Books
      <3>2. redemptions[u][c] <= claims[u][c] /\ claims[u][c] \in Nat
        BY DEF WithinClaims, TypeOK
      <3> QED
        BY <3>1, <3>2 DEF Granted
    <2>2. 0 \in G
      BY <2>1, NoItemsYet
    <2>3. ASSUME NEW k \in Nat, k \in G PROVE k + 1 \in G
      <3> SUFFICES ASSUME k + 1 <= Len(batch)
                   PROVE  redemptions[u][c] + Total(batch, c, k + 1) <= claimed[u][c]
        OBVIOUS
      <3>1. k <= Len(batch) /\ k + 1 \in DOMAIN batch
        BY <1>1
      <3>2. CASE batch[k + 1].cToken # c
        BY <2>3, <3>1, <3>2, NextItem
      <3>3. CASE batch[k + 1].cToken = c
        BY <3>1, <3>3 DEF Redeemable
      <3> QED
        BY <3>2, <3>3
    <2> HIDE DEF G
    <2>4. n \in G
      BY <2>2, <2>3, NatSetInduction
    <2> QED
      BY <2>4 DEF G
  <1>3. \A c \in CTokens : Total(batch, c, n) \in Nat
    BY <1>1, ItemsSum
  <1>4. /\ Redeemed(u, batch, n) \in Books
        /\ \A c \in CTokens : Redeemed(u, batch, n)[u][c] = redemptions[u][c] + Total(batch, c, n)
        /\ \A v \in Users \ {u} : Redeemed(u, batch, n)[v] = redemptions[v]
    <2> DEFINE mine == [c \in CTokens |-> redemptions[u][c] + Total(batch, c, n)]
    <2>1. mine \in [CTokens -> Nat]
      <3>1. \A c \in CTokens : redemptions[u][c] \in Nat
        BY <1>1 DEF Books
      <3> QED
        BY <1>3, <3>1
    <2>2. \A c \in CTokens : mine[c] = redemptions[u][c] + Total(batch, c, n)
      OBVIOUS
    <2>3. Redeemed(u, batch, n) = [redemptions EXCEPT ![u] = mine]
      BY DEF Redeemed
    <2> HIDE DEF mine
    <2> QED
      BY <1>1, <2>1, <2>2, <2>3 DEF Books
  <1>5. ASSUME NEW v \in Users, NEW c \in CTokens
        PROVE  Redeemed(u, batch, n)[v][c] <= claimed[v][c]
    <2>1. CASE v = u
      BY <1>2, <1>4, <2>1
    <2>2. CASE v # u
      BY <1>4, <2>2 DEF WithinClaims, Granted
    <2> QED
      BY <2>1, <2>2
  <1> QED
    BY <1>4, <1>5

-----------------------------------------------------------------------------
Pairs == Users \X CTokens

LEMMA PairsFinite == IsFiniteSet(Pairs)
  BY MerkleAssumption, FS_Product DEF Pairs

Covers(claimed, redeemed) ==
  /\ claimed \in Books /\ redeemed \in Books
  /\ \A u \in Users, c \in CTokens : redeemed[u][c] <= claimed[u][c]

LEMMA DueValues ==
  ASSUME NEW claimed, NEW redeemed, Covers(claimed, redeemed)
  PROVE  \A u \in Users, c \in CTokens :
           /\ Left(claimed, redeemed, u, c) \in Nat
           /\ Dues(claimed, redeemed)[<<u, c>>] = PreviewRedeem(c, Left(claimed, redeemed, u, c))
           /\ Dues(claimed, redeemed)[<<u, c>>] \in Nat
  <1> SUFFICES ASSUME NEW u \in Users, NEW c \in CTokens
               PROVE  /\ Left(claimed, redeemed, u, c) \in Nat
                      /\ Dues(claimed, redeemed)[<<u, c>>]
                           = PreviewRedeem(c, Left(claimed, redeemed, u, c))
                      /\ Dues(claimed, redeemed)[<<u, c>>] \in Nat
    OBVIOUS
  <1>1. claimed[u][c] \in Nat /\ redeemed[u][c] \in Nat /\ redeemed[u][c] <= claimed[u][c]
    BY DEF Covers, Books
  <1>2. Left(claimed, redeemed, u, c) \in Nat
    BY <1>1, LeftValue, LargestLeafBounds DEF Covers
  <1>3. Dues(claimed, redeemed)[<<u, c>>] = PreviewRedeem(c, Left(claimed, redeemed, u, c))
    BY DEF Dues
  <1> QED
    BY <1>2, <1>3, PreviewType

(* Proving a claim never adds to what is due: a leaf is at most the largest.*)
LEMMA ClaimLowersDues ==
  ASSUME TypeOK, WithinClaims, NEW u \in Users, NEW claimed, Granted(u, claimed)
  PROVE  /\ Covers(claims, redemptions) /\ Covers(claimed, redemptions)
         /\ SumOf(Dues(claims, redemptions), Pairs) \in Nat
         /\ SumOf(Dues(claimed, redemptions), Pairs) \in Nat
         /\ SumOf(Dues(claimed, redemptions), Pairs) <= SumOf(Dues(claims, redemptions), Pairs)
  <1>1. Covers(claims, redemptions)
    BY DEF TypeOK, WithinClaims, Covers, Books
  <1>2. Covers(claimed, redemptions)
    <2> SUFFICES ASSUME NEW v \in Users, NEW c \in CTokens
                 PROVE  redemptions[v][c] <= claimed[v][c]
      BY <1>1 DEF Covers, Granted
    <2>1. redemptions[v][c] <= claims[v][c] /\ claims[v][c] \in Nat
          /\ redemptions[v][c] \in Nat /\ claimed[v][c] \in Nat
      BY <1>1 DEF Covers, Books, Granted
    <2> QED
      BY <2>1 DEF Granted
  <1>3. ASSUME NEW v \in Users, NEW c \in CTokens
        PROVE  Dues(claimed, redemptions)[<<v, c>>] <= Dues(claims, redemptions)[<<v, c>>]
    <2>1. Left(claimed, redemptions, v, c) <= Left(claims, redemptions, v, c)
      <3>1. claims[v][c] \in Nat /\ redemptions[v][c] \in Nat /\ claimed[v][c] \in Nat
            /\ redemptions[v][c] <= claims[v][c] /\ redemptions[v][c] <= claimed[v][c]
        BY <1>1, <1>2 DEF Covers, Books
      <3>2. /\ Left(claims, redemptions, v, c)
                 = IF claims[v][c] # 0 THEN claims[v][c] - redemptions[v][c] ELSE LargestLeaf(v, c)
            /\ Left(claimed, redemptions, v, c)
                 = IF claimed[v][c] # 0 THEN claimed[v][c] - redemptions[v][c]
                   ELSE LargestLeaf(v, c)
        BY <1>1, <1>2, LeftValue DEF Covers
      <3>3. CASE claimed[v][c] = claims[v][c]
        BY <3>1, <3>2, <3>3, LargestLeafBounds
      <3>4. CASE v = u /\ claims[u][c] = 0 /\ claimed[u][c] \in Published(u, c)
        <4>1. claimed[v][c] <= LargestLeaf(v, c) /\ LargestLeaf(v, c) \in Nat
          BY <3>4, LargestLeafBounds
        <4> QED
          BY <3>1, <3>2, <3>4, <4>1
      <3>5. CASE v # u
        BY <3>3, <3>5 DEF Granted
      <3>6. CASE v = u
        <4>1. \/ claimed[u][c] = claims[u][c]
              \/ claims[u][c] = 0 /\ claimed[u][c] \in Published(u, c)
          BY DEF Granted
        <4> QED
          BY <3>3, <3>4, <3>6, <4>1
      <3> QED
        BY <3>5, <3>6
    <2> QED
      BY <1>1, <1>2, <2>1, DueValues, PreviewMonotone
  <1>4. \A p \in Pairs : /\ Dues(claimed, redemptions)[p] \in Nat
                         /\ Dues(claims, redemptions)[p] \in Nat
                         /\ Dues(claimed, redemptions)[p] <= Dues(claims, redemptions)[p]
    BY <1>1, <1>2, <1>3, DueValues DEF Pairs
  <1>5. /\ SumOf(Dues(claims, redemptions), Pairs) \in Nat
        /\ SumOf(Dues(claimed, redemptions), Pairs) \in Nat
    BY <1>4, PairsFinite, SumNat
  <1>6. SumOf(Dues(claimed, redemptions), Pairs) <= SumOf(Dues(claims, redemptions), Pairs)
    <2>1. \A p \in Pairs : /\ Dues(claimed, redemptions)[p] \in Int
                           /\ Dues(claims, redemptions)[p] \in Int
                           /\ Dues(claimed, redemptions)[p] <= Dues(claims, redemptions)[p]
      BY <1>4
    <2> QED
      BY <2>1, PairsFinite, SumMonotone
  <1> QED
    BY <1>1, <1>2, <1>5, <1>6

(* What the first n items pay is taken off what is due.                     *)
LEMMA PaymentLowersDues ==
  ASSUME TypeOK, WithinClaims, NEW u \in Users, NEW batch \in Arrays,
         NEW claimed, Granted(u, claimed), Redeemable(u, batch, claimed)
  PROVE  /\ Covers(claimed, Redeemed(u, batch, Len(batch)))
         /\ SumOf(Dues(claimed, Redeemed(u, batch, Len(batch))), Pairs) \in Nat
         /\ SumOf(Dues(claimed, Redeemed(u, batch, Len(batch))), Pairs) + Payout(batch)
              <= SumOf(Dues(claimed, redemptions), Pairs)
  <1> DEFINE Due(n) == SumOf(Dues(claimed, Redeemed(u, batch, n)), Pairs)
             G == {n \in Nat : n <= Len(batch) =>
                     Due(n) + PaidFor(batch, n) <= SumOf(Dues(claimed, redemptions), Pairs)}
  <1>1. Len(batch) \in Nat /\ claimed \in Books
    BY BatchItems DEF Granted
  <1>2. ASSUME NEW n \in Nat, n <= Len(batch)
        PROVE  /\ Covers(claimed, Redeemed(u, batch, n))
               /\ \A p \in Pairs : Dues(claimed, Redeemed(u, batch, n))[p] \in Nat
               /\ Due(n) \in Nat
    <2>1. Covers(claimed, Redeemed(u, batch, n))
      BY <1>1, <1>2, PrefixWithinClaims DEF Covers
    <2>2. \A p \in Pairs : Dues(claimed, Redeemed(u, batch, n))[p] \in Nat
      BY <2>1, DueValues DEF Pairs
    <2> QED
      BY <2>1, <2>2, PairsFinite, SumNat
  <1>3. 0 \in G
    <2>1. Redeemed(u, batch, 0) = redemptions
      <3>1. /\ redemptions \in Books /\ Redeemed(u, batch, 0) \in Books
            /\ \A v \in Users, c \in CTokens : Redeemed(u, batch, 0)[v][c] = redemptions[v][c]
        <4>1. /\ Redeemed(u, batch, 0) \in Books
              /\ \A c \in CTokens :
                   Redeemed(u, batch, 0)[u][c] = redemptions[u][c] + Total(batch, c, 0)
              /\ \A v \in Users \ {u} : Redeemed(u, batch, 0)[v] = redemptions[v]
          BY <1>1, PrefixWithinClaims
        <4>2. redemptions \in Books /\ \A c \in CTokens : redemptions[u][c] \in Nat
          BY DEF TypeOK, Books
        <4>3. \A c \in CTokens : Redeemed(u, batch, 0)[u][c] = redemptions[u][c]
          BY <4>1, <4>2, NoItemsYet
        <4> QED
          BY <4>1, <4>2, <4>3
      <3> QED
        BY <3>1 DEF Books
    <2>2. Due(0) = SumOf(Dues(claimed, redemptions), Pairs) /\ Due(0) \in Nat
      BY <1>1, <1>2, <2>1
    <2> HIDE DEF Due
    <2> QED
      BY <2>2, PaidItems
  <1>4. ASSUME NEW n \in Nat, n \in G PROVE n + 1 \in G
    <2> SUFFICES ASSUME n + 1 <= Len(batch)
                 PROVE  Due(n + 1) + PaidFor(batch, n + 1)
                          <= SumOf(Dues(claimed, redemptions), Pairs)
      BY DEF G
    <2> DEFINE c == batch[n + 1].cToken
               a == batch[n + 1].amount
               p == <<u, c>>
               old == Redeemed(u, batch, n)
               new == Redeemed(u, batch, n + 1)
    <2>1. n <= Len(batch) /\ n + 1 \in 1 .. Len(batch) /\ n \in 0 .. Len(batch)
          /\ n + 1 \in 0 .. Len(batch) /\ n + 1 \in Nat
      BY <1>1
    <2>2. c \in CTokens /\ a \in Nat /\ p \in Pairs
      BY <2>1, BatchItems DEF Pairs
    <2>3. /\ Covers(claimed, old) /\ Covers(claimed, new)
          /\ \A q \in Pairs : Dues(claimed, old)[q] \in Nat /\ Dues(claimed, new)[q] \in Nat
          /\ Due(n) \in Nat /\ Due(n + 1) \in Nat
      BY <1>2, <2>1
    <2>4. /\ new[u][c] = old[u][c] + a
          /\ \A d \in CTokens \ {c} : new[u][d] = old[u][d]
          /\ \A v \in Users \ {u} : new[v] = old[v]
      <3>1. /\ \A d \in CTokens : /\ old[u][d] = redemptions[u][d] + Total(batch, d, n)
                                  /\ new[u][d] = redemptions[u][d] + Total(batch, d, n + 1)
            /\ \A v \in Users \ {u} : old[v] = redemptions[v] /\ new[v] = redemptions[v]
        BY <2>1, PrefixWithinClaims
      <3>2. \A d \in CTokens : redemptions[u][d] \in Nat /\ Total(batch, d, n) \in Nat
        BY <2>1, ItemsSum DEF TypeOK
      <3> HIDE DEF old, new, a
      <3>3. /\ Total(batch, c, n + 1) = Total(batch, c, n) + a
            /\ \A d \in CTokens \ {c} : Total(batch, d, n + 1) = Total(batch, d, n)
        BY NextItem DEF a
      <3> HIDE DEF c
      <3> QED
        BY <2>2, <3>1, <3>2, <3>3
    <2>5. Dues(claimed, new)[p] + PreviewRedeem(c, a) <= Dues(claimed, old)[p]
      <3>1. /\ Dues(claimed, old)[p] = PreviewRedeem(c, Left(claimed, old, u, c))
            /\ Dues(claimed, new)[p] = PreviewRedeem(c, Left(claimed, new, u, c))
            /\ Left(claimed, old, u, c) \in Nat /\ Left(claimed, new, u, c) \in Nat
        BY <2>2, <2>3, DueValues
      <3>2. /\ old[u][c] \in Nat /\ new[u][c] \in Nat /\ claimed[u][c] \in Nat
            /\ old[u][c] <= claimed[u][c] /\ new[u][c] <= claimed[u][c]
            /\ old \in Books /\ new \in Books
        BY <2>2, <2>3 DEF Covers, Books
      <3> HIDE DEF old, new, c, a, p
      <3>3. /\ Left(claimed, old, u, c)
                 = IF claimed[u][c] # 0 THEN claimed[u][c] - old[u][c] ELSE LargestLeaf(u, c)
            /\ Left(claimed, new, u, c)
                 = IF claimed[u][c] # 0 THEN claimed[u][c] - new[u][c] ELSE LargestLeaf(u, c)
        BY <1>1, <2>2, <3>2, LeftValue
      <3>4. /\ a <= Left(claimed, old, u, c)
            /\ Left(claimed, new, u, c) = Left(claimed, old, u, c) - a
        <4>1. new[u][c] = old[u][c] + a /\ a \in Nat
          BY <2>2, <2>4
        <4>2. CASE claimed[u][c] # 0
          <5>1. /\ Left(claimed, old, u, c) = claimed[u][c] - old[u][c]
                /\ Left(claimed, new, u, c) = claimed[u][c] - new[u][c]
            BY <3>3, <4>2
          <5>2. /\ old[u][c] \in Nat /\ new[u][c] \in Nat /\ claimed[u][c] \in Nat
                /\ new[u][c] <= claimed[u][c]
            BY <3>2
          <5> QED
            BY <4>1, <5>1, <5>2
        <4>3. CASE claimed[u][c] = 0
          <5>1. a = 0
            BY <3>2, <4>1, <4>3
          <5> QED
            BY <3>1, <3>3, <4>3, <5>1
        <4> QED
          BY <4>2, <4>3
      <3> QED
        BY <2>2, <3>1, <3>4, PreviewSplit
    <2>6. \A q \in Pairs \ {p} : Dues(claimed, new)[q] = Dues(claimed, old)[q]
      <3> HIDE DEF old, new, c
      <3> SUFFICES ASSUME NEW v \in Users, NEW d \in CTokens, <<v, d>> # p
                   PROVE  Dues(claimed, new)[<<v, d>>] = Dues(claimed, old)[<<v, d>>]
        BY DEF Pairs
      <3>1. new[v][d] = old[v][d]
        BY <2>2, <2>4
      <3>2. Left(claimed, new, v, d) = Left(claimed, old, v, d)
        BY <3>1 DEF Left
      <3> QED
        BY <2>3, <3>2, DueValues
    <2>7. Due(n + 1) = Due(n) - Dues(claimed, old)[p] + Dues(claimed, new)[p]
      <3> HIDE DEF old, new, p
      <3>1. /\ \A q \in Pairs : Dues(claimed, old)[q] \in Int
            /\ Dues(claimed, new)[p] \in Int
        BY <2>2, <2>3
      <3>2. SumOf(Dues(claimed, new), Pairs)
              = SumOf(Dues(claimed, old), Pairs) - Dues(claimed, old)[p] + Dues(claimed, new)[p]
        <4> DEFINE f == Dues(claimed, old)
                   e == Dues(claimed, new)
        <4>1. Replaces(e, f, p, Pairs)
          BY <2>6, <3>1 DEF Replaces
        <4>2. p \in Pairs /\ IsFiniteSet(Pairs)
          BY <2>2, PairsFinite
        <4> HIDE DEF f, e
        <4>3. SumOf(e, Pairs) = SumOf(f, Pairs) - f[p] + e[p]
          BY <4>1, <4>2, SumReplaced
        <4> QED
          BY <4>3 DEF f, e
      <3> QED
        BY <3>2 DEF old, new
    <2>8. /\ PaidFor(batch, n + 1) = PaidFor(batch, n) + PreviewRedeem(c, a)
          /\ PaidFor(batch, n) \in Nat /\ PreviewRedeem(c, a) \in Nat
      BY <2>1, <2>2, PaidItems, PreviewType
    <2>9. SumOf(Dues(claimed, redemptions), Pairs) \in Nat
      BY ClaimLowersDues
    <2>10. Due(n) + PaidFor(batch, n) <= SumOf(Dues(claimed, redemptions), Pairs)
      BY <1>4, <2>1 DEF G
    <2>11. Dues(claimed, old)[p] \in Nat /\ Dues(claimed, new)[p] \in Nat
      BY <2>2, <2>3
    <2>12. Due(n) \in Nat /\ Due(n + 1) \in Nat
      BY <2>3
    <2> DEFINE before == Dues(claimed, old)[p]
               after  == Dues(claimed, new)[p]
               item   == PreviewRedeem(c, a)
               all    == SumOf(Dues(claimed, redemptions), Pairs)
    <2> HIDE DEF Due, old, new, p, c, a, before, after, item, all
    <2>13. Due(n + 1) = Due(n) - before + after /\ after + item <= before
      BY <2>5, <2>7 DEF before, after, item
    <2>14. PaidFor(batch, n + 1) = PaidFor(batch, n) + item /\ Due(n) + PaidFor(batch, n) <= all
      BY <2>8, <2>10 DEF item, all
    <2>15. /\ before \in Nat /\ after \in Nat /\ item \in Nat /\ all \in Nat
           /\ PaidFor(batch, n) \in Nat
      BY <2>8, <2>9, <2>11 DEF before, after, item, all
    <2>16. Due(n + 1) + PaidFor(batch, n + 1) <= all
      BY <2>12, <2>13, <2>14, <2>15
    <2> QED
      BY <2>16 DEF all
  <1> HIDE DEF G
  <1>5. Len(batch) \in G
    BY <1>1, <1>3, <1>4, NatSetInduction
  <1> QED
    BY <1>1, <1>2, <1>5, PaidItems DEF G

-----------------------------------------------------------------------------
(* Every call of a user proves claims and then redeems a batch, which is    *)
(* empty for the calls that do not redeem.                                  *)
RedeemCall(u, batch) ==
  /\ Granted(u, claims')
  /\ Redeemable(u, batch, claims')
  /\ redemptions' = Redeemed(u, batch, Len(batch))
  /\ Exchange(u, batch)

LEMMA UserIsNot ==
  ASSUME NEW u \in Users
  PROVE  u # Redeemer /\ u # Treasury /\ Redeemer # Treasury
  BY MerkleAssumption

LEMMA ExchangeEffect ==
  ASSUME TypeOK, NEW u \in Users, NEW batch \in Arrays, Exchange(u, batch)
  PROVE  /\ cToken' \in [CTokens -> [CTokenAccounts -> Nat]]
         /\ fei' \in [FeiAccounts -> Nat]
         /\ \A c \in CTokens :
              cToken'[c][Redeemer] = cToken[c][Redeemer] + Total(batch, c, Len(batch))
         /\ Payout(batch) \in Nat /\ Payout(batch) <= fei[Redeemer]
         /\ fei'[u] = fei[u] + Payout(batch)
         /\ fei'[Redeemer] = fei[Redeemer] - Payout(batch)
         /\ \A a \in FeiAccounts \ {u, Redeemer} : fei'[a] = fei[a]
  <1>1. u # Redeemer /\ u \in CTokenAccounts /\ Redeemer \in CTokenAccounts
        /\ u \in FeiAccounts /\ Redeemer \in FeiAccounts
    BY UserIsNot DEF CTokenAccounts, FeiAccounts
  <1>2. Payout(batch) \in Nat /\ Len(batch) \in 0 .. Len(batch)
    BY BatchItems, PaidItems
  <1>3. ASSUME NEW c \in CTokens
        PROVE  /\ Move(cToken[c], u, Redeemer, Total(batch, c, Len(batch)))
                    \in [CTokenAccounts -> Nat]
               /\ Move(cToken[c], u, Redeemer, Total(batch, c, Len(batch)))[Redeemer]
                    = cToken[c][Redeemer] + Total(batch, c, Len(batch))
    <2> DEFINE t == Total(batch, c, Len(batch))
    <2>1. t \in Nat /\ cToken[c] \in [CTokenAccounts -> Nat] /\ t <= cToken[c][u]
      BY <1>2, ItemsSum DEF TypeOK, Exchange
    <2> HIDE DEF t
    <2>2. /\ Move(cToken[c], u, Redeemer, t) \in [CTokenAccounts -> Nat]
          /\ Move(cToken[c], u, Redeemer, t)[Redeemer] = cToken[c][Redeemer] + t
      BY <1>1, <2>1 DEF Move
    <2> QED
      BY <2>2 DEF t
  <1>4. cToken' = [c \in CTokens |-> Move(cToken[c], u, Redeemer, Total(batch, c, Len(batch)))]
    BY DEF Exchange
  <1>5. /\ fei' \in [FeiAccounts -> Nat]
        /\ fei'[u] = fei[u] + Payout(batch)
        /\ fei'[Redeemer] = fei[Redeemer] - Payout(batch)
        /\ \A a \in FeiAccounts \ {u, Redeemer} : fei'[a] = fei[a]
    <2> DEFINE n == Payout(batch)
    <2>1. n \in Nat /\ n <= fei[Redeemer] /\ fei' = Move(fei, Redeemer, u, n)
          /\ fei \in [FeiAccounts -> Nat]
      BY <1>2 DEF Exchange, TypeOK
    <2> HIDE DEF n
    <2>2. /\ fei' \in [FeiAccounts -> Nat]
          /\ fei'[u] = fei[u] + n
          /\ fei'[Redeemer] = fei[Redeemer] - n
          /\ \A a \in FeiAccounts \ {u, Redeemer} : fei'[a] = fei[a]
      BY <1>1, <2>1 DEF Move
    <2> QED
      BY <2>2 DEF n
  <1> QED
    BY <1>2, <1>3, <1>4, <1>5 DEF Exchange

LEMMA NothingRedeemed ==
  ASSUME TypeOK, NEW u \in Users, Granted(u, claims'),
         UNCHANGED <<redemptions, cToken, fei>>
  PROVE  <<>> \in Arrays /\ RedeemCall(u, <<>>)
  <1>1. <<>> \in Arrays /\ Len(<<>>) = 0 /\ DOMAIN <<>> = {}
    BY DEF Arrays
  <1>2. Payout(<<>>) = 0 /\ \A c \in CTokens : Total(<<>>, c, 0) = 0
    BY <1>1, PaidItems, NoItemsYet
  <1>3. Redeemable(u, <<>>, claims')
    BY <1>1 DEF Redeemable
  <1>4. redemptions' = Redeemed(u, <<>>, Len(<<>>))
    <2>1. \A c \in CTokens : redemptions[u][c] + Total(<<>>, c, Len(<<>>)) = redemptions[u][c]
      BY <1>1, <1>2 DEF TypeOK
    <2>2. [c \in CTokens |-> redemptions[u][c] + Total(<<>>, c, Len(<<>>))] = redemptions[u]
      BY <2>1 DEF TypeOK
    <2> QED
      BY <2>2 DEF Redeemed, TypeOK
  <1>5. Exchange(u, <<>>)
    <2>1. u \in CTokenAccounts /\ Redeemer \in CTokenAccounts
          /\ u \in FeiAccounts /\ Redeemer \in FeiAccounts
      BY DEF CTokenAccounts, FeiAccounts
    <2>2. Move(fei, Redeemer, u, 0) = fei
      BY <2>1 DEF Move, TypeOK
    <2>3. ASSUME NEW c \in CTokens PROVE Move(cToken[c], u, Redeemer, 0) = cToken[c]
      <3>1. cToken[c] \in [CTokenAccounts -> Nat]
        BY DEF TypeOK
      <3> QED
        BY <2>1, <3>1 DEF Move
    <2>4. cToken' = [c \in CTokens |-> Move(cToken[c], u, Redeemer, Total(<<>>, c, Len(<<>>)))]
      BY <1>1, <1>2, <2>3 DEF TypeOK
    <2>5. fei[Redeemer] >= 0 /\ \A c \in CTokens : cToken[c][u] >= 0
      BY <2>1 DEF TypeOK
    <2> QED
      BY <1>1, <1>2, <2>2, <2>4, <2>5 DEF Exchange
  <1> QED
    BY <1>1, <1>3, <1>4, <1>5 DEF RedeemCall

(* What a user has signed is theirs.                                        *)
SignaturesValid ==
  \A u \in Users : HasSigned(u) => SignedBy[userSignatures[u]] = u

(* Signatures of one call: nobody else's changes, and what the caller       *)
(* claims or redeems they have signed for.                                  *)
SignedCall(u) ==
  /\ userSignatures' \in [Users -> Signatures \cup {NoSignature}]
  /\ SignaturesValid'
  /\ \A v \in Users : HasSigned(v) => HasSigned(v)'
  /\ HasSigned(u)' \/ UNCHANGED <<claims, redemptions>>

LEMMA SigningKeeps ==
  ASSUME TypeOK, SignaturesValid, NEW u \in Users, NEW s \in Signatures, DoSign(u, s)
  PROVE  SignedCall(u)
  <1>1. userSignatures' = [userSignatures EXCEPT ![u] = s] /\ SignedBy[s] = u
    BY DEF DoSign
  <1>2. s # NoSignature /\ userSignatures \in [Users -> Signatures \cup {NoSignature}]
    BY MerkleAssumption DEF TypeOK
  <1>3. userSignatures' \in [Users -> Signatures \cup {NoSignature}]
    BY <1>1, <1>2
  <1>4. userSignatures'[u] = s /\ \A v \in Users \ {u} : userSignatures'[v] = userSignatures[v]
    BY <1>1, <1>2
  <1>5. HasSigned(u)' /\ \A v \in Users : HasSigned(v) => HasSigned(v)'
    BY <1>2, <1>4 DEF HasSigned
  <1>6. SignaturesValid'
    BY <1>1, <1>4 DEF SignaturesValid, HasSigned
  <1> QED
    BY <1>3, <1>5, <1>6, Zenon DEF SignedCall

LEMMA NoSigningKeeps ==
  ASSUME TypeOK, SignaturesValid, NEW u \in Users, UNCHANGED userSignatures,
         HasSigned(u) \/ UNCHANGED <<claims, redemptions>>
  PROVE  SignedCall(u)
  <1>1. \A v \in Users : HasSigned(v)' <=> HasSigned(v)
    BY DEF HasSigned
  <1>2. userSignatures' \in [Users -> Signatures \cup {NoSignature}]
    BY DEF TypeOK
  <1>3. SignaturesValid'
    BY <1>1 DEF SignaturesValid
  <1> QED
    BY <1>1, <1>2, <1>3 DEF SignedCall

LEMMA ArraysOfCalls ==
  /\ Batches \subseteq Arrays
  /\ \A c \in CTokens, n \in 0 .. MaxAmount : Item(c, n) \in Arrays
  <1>1. ASSUME NEW c \in CTokens, NEW n \in 0 .. MaxAmount
        PROVE  Item(c, n) \in Arrays
    BY DEF Item, Items, Arrays
  <1>2. ASSUME NEW b \in Batches PROVE b \in Arrays
    <2>1. PICK m \in 0 .. MaxBatch : b \in [1 .. m -> Items]
      BY DEF Batches, SeqOf
    <2>2. m \in Nat
      BY MerkleAssumption
    <2> QED
      BY <2>1, <2>2 DEF Arrays
  <1> QED
    BY <1>1, <1>2

(* The three kinds of calls: proving claims, redeeming, and both at once.   *)
LEMMA ClaimCall ==
  ASSUME TypeOK, NEW u \in Users, NEW batch \in Arrays,
         Claimable(u, batch), claims' = WithClaims(u, batch),
         UNCHANGED <<redemptions, cToken, fei>>
  PROVE  \E b \in Arrays : RedeemCall(u, b)
  <1>1. Granted(u, claims')
    BY ClaimsAreGranted
  <1> QED
    BY <1>1, NothingRedeemed

LEMMA SameClaimsGranted ==
  ASSUME TypeOK, NEW u \in Users, claims' = claims
  PROVE  Granted(u, claims')
  BY DEF Granted, TypeOK, Books

LEMMA QuietCall ==
  ASSUME TypeOK, NEW u \in Users, UNCHANGED <<claims, redemptions, cToken, fei>>
  PROVE  \E b \in Arrays : RedeemCall(u, b)
  BY SameClaimsGranted, NothingRedeemed

LEMMA ClaimThenRedeem ==
  ASSUME TypeOK, NEW u \in Users, NEW toClaim \in Arrays, NEW batch \in Arrays,
         Claimable(u, toClaim), claims' = WithClaims(u, toClaim),
         DoRedeem(u, batch, claims')
  PROVE  \E b \in Arrays : RedeemCall(u, b)
  <1>1. Granted(u, claims')
    BY ClaimsAreGranted
  <1>2. RedeemCall(u, batch)
    BY <1>1 DEF RedeemCall, DoRedeem, Redeemed
  <1> QED
    BY <1>2

LEMMA OnlyRedeem ==
  ASSUME TypeOK, NEW u \in Users, NEW batch \in Arrays, claims' = claims,
         DoRedeem(u, batch, claims)
  PROVE  \E b \in Arrays : RedeemCall(u, b)
  <1>1. Granted(u, claims')
    BY SameClaimsGranted
  <1>2. RedeemCall(u, batch)
    BY <1>1 DEF RedeemCall, DoRedeem, Redeemed, Redeemable
  <1> QED
    BY <1>2

LEMMA CallForm ==
  ASSUME TypeOK, SignaturesValid, NEW u \in Users, UserCall(u)
  PROVE  SignedCall(u) /\ \E b \in Arrays : RedeemCall(u, b)
  <1>1. ASSUME NEW s \in Signatures, Sign(u, s)
        PROVE  SignedCall(u) /\ \E b \in Arrays : RedeemCall(u, b)
    BY <1>1, SigningKeeps, QuietCall DEF Sign
  <1>2. ASSUME NEW b \in Arrays, MultiClaim(u, b)
        PROVE  SignedCall(u) /\ \E x \in Arrays : RedeemCall(u, x)
    BY <1>2, NoSigningKeeps, ClaimCall DEF MultiClaim
  <1>3. ASSUME NEW b \in Arrays, MultiRedeem(u, b)
        PROVE  SignedCall(u) /\ \E x \in Arrays : RedeemCall(u, x)
    <2>1. SignedCall(u)
      <3>1. HasSigned(u) /\ UNCHANGED userSignatures
        BY <1>3 DEF MultiRedeem
      <3> QED
        BY <3>1, NoSigningKeeps, Zenon
    <2>2. \E x \in Arrays : RedeemCall(u, x)
      BY <1>3, OnlyRedeem DEF MultiRedeem
    <2> QED
      BY <2>1, <2>2
  <1>4. ASSUME NEW b \in Arrays, ClaimAndRedeem(u, b)
        PROVE  SignedCall(u) /\ \E x \in Arrays : RedeemCall(u, x)
    <2>1. SignedCall(u)
      <3>1. HasSigned(u) /\ UNCHANGED userSignatures
        BY <1>4 DEF ClaimAndRedeem
      <3> QED
        BY <3>1, NoSigningKeeps, Zenon
    <2>2. \E x \in Arrays : RedeemCall(u, x)
      BY <1>4, ClaimThenRedeem DEF ClaimAndRedeem
    <2> QED
      BY <2>1, <2>2
  <1>5. ASSUME NEW s \in Signatures, NEW b \in Arrays, SignAndClaim(u, s, b)
        PROVE  SignedCall(u) /\ \E x \in Arrays : RedeemCall(u, x)
    <2>1. SignedCall(u)
      BY <1>5, SigningKeeps DEF SignAndClaim
    <2>2. \E x \in Arrays : RedeemCall(u, x)
      BY <1>5, ClaimCall DEF SignAndClaim
    <2> QED
      BY <2>1, <2>2
  <1>6. ASSUME NEW s \in Signatures, NEW b1 \in Arrays, NEW b2 \in Arrays,
               SignAndClaimAndRedeem(u, s, b1, b2)
        PROVE  SignedCall(u) /\ \E x \in Arrays : RedeemCall(u, x)
    BY <1>6, SigningKeeps, ClaimThenRedeem DEF SignAndClaimAndRedeem
  <1>7. CASE \E c \in CTokens, n \in 0 .. MaxAmount : Claim(u, c, n)
    BY <1>2, <1>7, ArraysOfCalls DEF Claim
  <1>8. CASE \E c \in CTokens, n \in 0 .. MaxAmount : Redeem(u, c, n)
    BY <1>3, <1>8, ArraysOfCalls DEF Redeem
  <1> QED
    BY <1>1, <1>2, <1>3, <1>4, <1>5, <1>6, <1>7, <1>8, ArraysOfCalls DEF UserCall


-----------------------------------------------------------------------------
(* What a call does to the books, to the custody of cTokens and to the FEI. *)
Whole(u, batch) ==
  /\ claims' \in Books /\ redemptions' \in Books
  /\ \A c \in CTokens : redemptions'[u][c] = redemptions[u][c] + Total(batch, c, Len(batch))
  /\ \A c \in CTokens : Total(batch, c, Len(batch)) \in Nat
  /\ \A v \in Users \ {u} : redemptions'[v] = redemptions[v] /\ claims'[v] = claims[v]
  /\ \A v \in Users, c \in CTokens : redemptions'[v][c] <= claims'[v][c]

LEMMA CallOnBooks ==
  ASSUME TypeOK, WithinClaims, NEW u \in Users, NEW batch \in Arrays, RedeemCall(u, batch)
  PROVE  Whole(u, batch)
  <1>1. Len(batch) \in Nat /\ Len(batch) <= Len(batch) /\ Len(batch) \in 0 .. Len(batch)
    BY BatchItems
  <1>2. /\ Redeemed(u, batch, Len(batch)) \in Books
        /\ \A c \in CTokens : Redeemed(u, batch, Len(batch))[u][c]
                                = redemptions[u][c] + Total(batch, c, Len(batch))
        /\ \A v \in Users \ {u} : Redeemed(u, batch, Len(batch))[v] = redemptions[v]
        /\ \A v \in Users, c \in CTokens :
             Redeemed(u, batch, Len(batch))[v][c] <= claims'[v][c]
    BY <1>1, PrefixWithinClaims DEF RedeemCall
  <1>3. \A c \in CTokens : Total(batch, c, Len(batch)) \in Nat
    BY <1>1, ItemsSum
  <1>4. /\ claims' \in Books
        /\ \A v \in Users \ {u} : claims'[v] = claims[v]
        /\ redemptions' = Redeemed(u, batch, Len(batch))
    BY DEF RedeemCall, Granted
  <1> QED
    BY <1>2, <1>3, <1>4 DEF Whole

LEMMA CallKeepsTypes ==
  ASSUME TypeOK, WithinClaims, NEW u \in Users, NEW batch \in Arrays,
         SignedCall(u), RedeemCall(u, batch)
  PROVE  TypeOK' /\ WithinClaims'
  <1>1. Whole(u, batch)
    BY CallOnBooks
  <1>2. cToken' \in [CTokens -> [CTokenAccounts -> Nat]] /\ fei' \in [FeiAccounts -> Nat]
    BY ExchangeEffect DEF RedeemCall
  <1>3. TypeOK'
    BY <1>1, <1>2 DEF TypeOK, Whole, Books, SignedCall
  <1>4. WithinClaims'
    BY <1>1 DEF WithinClaims, Whole
  <1> QED
    BY <1>3, <1>4

(* Nobody has redeemed or claimed before they signed; nobody else is        *)
(* touched.                                                                 *)
LEMMA CallKeepsSigned ==
  ASSUME TypeOK, SignedFirst, WithinClaims, NEW u \in Users, NEW batch \in Arrays,
         SignedCall(u), RedeemCall(u, batch)
  PROVE  SignedFirst'
  <1>1. Whole(u, batch)
    BY CallOnBooks
  <1> SUFFICES ASSUME NEW v \in Users,
                      \E c \in CTokens : claims'[v][c] # 0 \/ redemptions'[v][c] # 0
               PROVE  HasSigned(v)' /\ SignedBy[userSignatures'[v]] = v
    BY DEF SignedFirst
  <1>2. HasSigned(v)'
    <2>1. CASE v = u /\ HasSigned(u)'
      BY <2>1
    <2>2. CASE v = u /\ UNCHANGED <<claims, redemptions>>
      BY <2>2, Zenon DEF SignedFirst, SignedCall
    <2>3. CASE v # u
      <3>1. claims'[v] = claims[v] /\ redemptions'[v] = redemptions[v]
        BY <1>1, <2>3 DEF Whole
      <3> QED
        BY <3>1, Zenon DEF SignedFirst, SignedCall
    <2> QED
      BY <2>1, <2>2, <2>3 DEF SignedCall
  <1> QED
    BY <1>2 DEF SignedCall, SignaturesValid

(* The custody of the redeemer, on functions.                               *)
HeldIn(r, held) == \A c \in CTokens : held[c][Redeemer] >= SumOf(RedeemedIn(r, c), Users)

LEMMA HeldForm == RedeemedHeld <=> HeldIn(redemptions, cToken)
  BY RedeemedIsSum DEF RedeemedHeld, HeldIn

LEMMA HeldAfter ==
  ASSUME NEW r, NEW r2, NEW u \in Users, NEW c, NEW n \in Int,
         \A v \in Users : r[v][c] \in Int,
         r2[u][c] = r[u][c] + n, \A v \in Users \ {u} : r2[v][c] = r[v][c]
  PROVE  /\ SumOf(RedeemedIn(r, c), Users) \in Int
         /\ SumOf(RedeemedIn(r2, c), Users) = SumOf(RedeemedIn(r, c), Users) + n
  <1> DEFINE before == RedeemedIn(r, c)
             after == RedeemedIn(r2, c)
  <1>1. /\ \A v \in Users : before[v] \in Int
        /\ after[u] = before[u] + n
        /\ \A v \in Users \ {u} : after[v] = before[v]
    BY DEF RedeemedIn
  <1>2. IsFiniteSet(Users)
    BY MerkleAssumption
  <1> HIDE DEF before, after
  <1>3. SumOf(before, Users) \in Int /\ SumOf(after, Users) = SumOf(before, Users) + n
    BY <1>1, <1>2, SumGrows
  <1> QED
    BY <1>3 DEF before, after

LEMMA CallKeepsHeld ==
  ASSUME TypeOK, RedeemedHeld, WithinClaims, NEW u \in Users, NEW batch \in Arrays,
         RedeemCall(u, batch)
  PROVE  RedeemedHeld'
  <1>1. Whole(u, batch)
    BY CallOnBooks
  <1>2. HeldIn(redemptions', cToken')
    <2> SUFFICES ASSUME NEW c \in CTokens
                 PROVE  cToken'[c][Redeemer] >= SumOf(RedeemedIn(redemptions', c), Users)
      BY DEF HeldIn
    <2> DEFINE f == RedeemedIn(redemptions, c)
               e == RedeemedIn(redemptions', c)
               t == Total(batch, c, Len(batch))
    <2>1. /\ \A v \in Users : redemptions[v][c] \in Int
          /\ redemptions'[u][c] = redemptions[u][c] + t /\ t \in Int /\ t \in Nat
          /\ \A v \in Users \ {u} : redemptions'[v][c] = redemptions[v][c]
      BY <1>1 DEF Whole, TypeOK, Books
    <2>2. cToken'[c][Redeemer] = cToken[c][Redeemer] + t
      BY ExchangeEffect DEF RedeemCall
    <2>3. cToken[c][Redeemer] \in Nat
      BY DEF TypeOK, CTokenAccounts
    <2>4. cToken[c][Redeemer] >= SumOf(f, Users)
      BY HeldForm DEF HeldIn
    <2>5. SumOf(f, Users) \in Int /\ SumOf(e, Users) = SumOf(f, Users) + t
      <3> DEFINE after == redemptions'
      <3>1. /\ \A v \in Users : redemptions[v][c] \in Int
            /\ after[u][c] = redemptions[u][c] + t /\ t \in Int
            /\ \A v \in Users \ {u} : after[v][c] = redemptions[v][c]
        BY <2>1
      <3> HIDE DEF t, after
      <3>2. /\ SumOf(RedeemedIn(redemptions, c), Users) \in Int
            /\ SumOf(RedeemedIn(after, c), Users) = SumOf(RedeemedIn(redemptions, c), Users) + t
        BY <3>1, HeldAfter
      <3> QED
        BY <3>2 DEF after
    <2> HIDE DEF f, e, t
    <2>6. cToken'[c][Redeemer] >= SumOf(e, Users)
      BY <2>1, <2>2, <2>3, <2>4, <2>5
    <2> QED
      BY <2>6 DEF e
  <1>3. RedeemedHeld' <=> HeldIn(redemptions, cToken)'
    BY HeldForm, PTL
  <1> QED
    BY <1>2, <1>3

(* The funding and what is due, on functions.                               *)
CoveredIn(claimed, redeemed, balances) ==
  balances[Redeemer] + balances[Treasury] >= SumOf(Dues(claimed, redeemed), Pairs)

LEMMA CoveredForm == StillCovered <=> CoveredIn(claims, redemptions, fei)
  <1>1. Owed = MapThenSumSet(
                 LAMBDA p : PreviewRedeem(p[2], Left(claims, redemptions, p[1], p[2])),
                 Users \X CTokens)
    BY DEF Owed, Unredeemed, Entitlement, Left, Published
  <1> QED
    BY <1>1, OwedIsSum DEF StillCovered, CoveredIn, Pairs

LEMMA CallKeepsCovered ==
  ASSUME TypeOK, WithinClaims, StillCovered, NEW u \in Users, NEW batch \in Arrays,
         RedeemCall(u, batch)
  PROVE  StillCovered'
  <1> DEFINE first == SumOf(Dues(claims, redemptions), Pairs)
             granted == SumOf(Dues(claims', redemptions), Pairs)
             last == SumOf(Dues(claims', redemptions'), Pairs)
  <1>1. first \in Nat /\ granted \in Nat /\ granted <= first
    BY ClaimLowersDues DEF RedeemCall
  <1>2. last \in Nat /\ last + Payout(batch) <= granted
    BY PaymentLowersDues DEF RedeemCall
  <1>3. fei'[Redeemer] = fei[Redeemer] - Payout(batch) /\ Payout(batch) \in Nat
        /\ fei'[Treasury] = fei[Treasury]
        /\ fei[Redeemer] \in Nat /\ fei[Treasury] \in Nat
    BY ExchangeEffect, UserIsNot DEF RedeemCall, FeiAccounts, TypeOK
  <1>4. fei[Redeemer] + fei[Treasury] >= first
    BY CoveredForm DEF CoveredIn
  <1> HIDE DEF first, granted, last
  <1>5. fei'[Redeemer] + fei'[Treasury] >= last
    BY <1>1, <1>2, <1>3, <1>4
  <1>6. CoveredIn(claims', redemptions', fei')
    BY <1>5 DEF last, CoveredIn
  <1>7. StillCovered' <=> CoveredIn(claims, redemptions, fei)'
    BY CoveredForm, PTL
  <1> QED
    BY <1>6, <1>7

-----------------------------------------------------------------------------
(* What a call pays is at most the exchange rates of what it redeems.  An   *)
(* item adds its amount to what is redeemed of its cToken.                  *)
Adds(r2, r, c, a) ==
  /\ \A d \in CTokens : r[d] \in Nat
  /\ r2[c] = r[c] + a
  /\ \A d \in CTokens \ {c} : r2[d] = r[d]

LEMMA WorthGrows ==
  ASSUME NEW r, NEW r2, NEW c \in CTokens, NEW a \in Nat, Adds(r2, r, c, a)
  PROVE  /\ SumOf(Worths(r), CTokens) \in Int
         /\ SumOf(Worths(r2), CTokens) = SumOf(Worths(r), CTokens) + Rate[c] * a
  <1> DEFINE before == Worths(r)
             after == Worths(r2)
             n == Rate[c] * a
  <1>0. /\ \A d \in CTokens : r[d] \in Nat
        /\ r2[c] = r[c] + a
        /\ \A d \in CTokens \ {c} : r2[d] = r[d]
    BY DEF Adds
  <1>1. \A d \in CTokens : before[d] = Rate[d] * r[d] /\ after[d] = Rate[d] * r2[d]
    BY DEF Worths
  <1>2. \A d \in CTokens : before[d] \in Int
    BY <1>0, <1>1, MerkleAssumption
  <1>3. n \in Int /\ after[c] = before[c] + n
    <2>1. Rate[c] \in Nat /\ r[c] \in Nat
      BY <1>0, MerkleAssumption
    <2>2. Rate[c] * (r[c] + a) = Rate[c] * r[c] + Rate[c] * a
      BY <2>1
    <2> QED
      BY <1>0, <1>1, <2>1, <2>2
  <1>4. \A d \in CTokens \ {c} : after[d] = before[d]
    BY <1>0, <1>1
  <1>5. IsFiniteSet(CTokens)
    BY MerkleAssumption
  <1> HIDE DEF before, after, n
  <1>6. SumOf(before, CTokens) \in Int /\ SumOf(after, CTokens) = SumOf(before, CTokens) + n
    BY <1>2, <1>3, <1>4, <1>5, SumGrows
  <1> QED
    BY <1>6 DEF before, after, n

LEMMA PaymentIsCovered ==
  ASSUME TypeOK, WithinClaims, NEW u \in Users, NEW batch \in Arrays,
         NEW claimed, Granted(u, claimed), Redeemable(u, batch, claimed)
  PROVE  Payout(batch) * Scale
           <= SumOf(Worths(Redeemed(u, batch, Len(batch))[u]), CTokens)
                - SumOf(Worths(redemptions[u]), CTokens)
  <1> DEFINE W(n) == SumOf(Worths(Redeemed(u, batch, n)[u]), CTokens)
             base == SumOf(Worths(redemptions[u]), CTokens)
             G == {n \in Nat : n <= Len(batch) =>
                     W(n) \in Int /\ PaidFor(batch, n) * Scale <= W(n) - base}
  <1>1. Len(batch) \in Nat /\ Scale \in Nat
    BY BatchItems, MerkleAssumption
  <1>2. ASSUME NEW n \in Nat, n <= Len(batch)
        PROVE  \A d \in CTokens :
                 /\ Redeemed(u, batch, n)[u][d] = redemptions[u][d] + Total(batch, d, n)
                 /\ redemptions[u][d] \in Nat /\ Total(batch, d, n) \in Nat
                 /\ Redeemed(u, batch, n)[u][d] \in Nat
    <2>1. n \in 0 .. Len(batch)
      BY <1>1, <1>2
    <2>2. \A d \in CTokens : redemptions[u][d] \in Nat /\ Total(batch, d, n) \in Nat
      BY <2>1, ItemsSum DEF TypeOK
    <2>3. \A d \in CTokens :
            Redeemed(u, batch, n)[u][d] = redemptions[u][d] + Total(batch, d, n)
      BY <1>2, PrefixWithinClaims
    <2> QED
      BY <2>2, <2>3
  <1>3. base \in Int
    <2>1. \A d \in CTokens : redemptions[u][d] \in Nat /\ Rate[d] \in Nat
      BY MerkleAssumption DEF TypeOK
    <2>2. \A d \in CTokens : Worths(redemptions[u])[d] \in Int
      BY <2>1 DEF Worths
    <2>3. IsFiniteSet(CTokens)
      BY MerkleAssumption
    <2> QED
      BY <2>2, <2>3, SumTake
  <1>4. 0 \in G
    <2>1. \A d \in CTokens : Worths(Redeemed(u, batch, 0)[u])[d] = Worths(redemptions[u])[d]
      <3>1. \A d \in CTokens : Redeemed(u, batch, 0)[u][d] = redemptions[u][d]
        BY <1>1, <1>2, NoItemsYet
      <3> QED
        BY <3>1 DEF Worths
    <2>2. IsFiniteSet(CTokens)
      BY MerkleAssumption
    <2>3. W(0) = base
      BY <2>1, <2>2, SumSame
    <2> HIDE DEF W, base
    <2> QED
      BY <1>1, <1>3, <2>3, PaidItems
  <1>5. ASSUME NEW n \in Nat, n \in G PROVE n + 1 \in G
    <2> SUFFICES ASSUME n + 1 <= Len(batch)
                 PROVE  W(n + 1) \in Int /\ PaidFor(batch, n + 1) * Scale <= W(n + 1) - base
      BY DEF G
    <2> DEFINE c == batch[n + 1].cToken
               a == batch[n + 1].amount
               old == Redeemed(u, batch, n)[u]
               new == Redeemed(u, batch, n + 1)[u]
    <2>1. n <= Len(batch) /\ n + 1 \in 1 .. Len(batch) /\ n \in 0 .. Len(batch) /\ n + 1 \in Nat
      BY <1>1
    <2>2. c \in CTokens /\ a \in Nat
      BY <2>1, BatchItems
    <2>3. /\ \A d \in CTokens : old[d] \in Nat
          /\ new[c] = old[c] + a
          /\ \A d \in CTokens \ {c} : new[d] = old[d]
      <3>1. \A d \in CTokens : /\ old[d] = redemptions[u][d] + Total(batch, d, n)
                               /\ new[d] = redemptions[u][d] + Total(batch, d, n + 1)
                               /\ redemptions[u][d] \in Nat /\ Total(batch, d, n) \in Nat
                               /\ old[d] \in Nat
        BY <1>2, <2>1
      <3> HIDE DEF old, new, a
      <3>2. /\ Total(batch, c, n + 1) = Total(batch, c, n) + a
            /\ \A d \in CTokens \ {c} : Total(batch, d, n + 1) = Total(batch, d, n)
        BY NextItem DEF a
      <3> HIDE DEF c
      <3>3. new[c] = old[c] + a
        <4>1. /\ old[c] = redemptions[u][c] + Total(batch, c, n)
              /\ new[c] = redemptions[u][c] + Total(batch, c, n + 1)
              /\ redemptions[u][c] \in Nat /\ Total(batch, c, n) \in Nat
          BY <2>2, <3>1
        <4> QED
          BY <2>2, <3>2, <4>1
      <3>4. ASSUME NEW d \in CTokens \ {c} PROVE new[d] = old[d]
        BY <3>1, <3>2
      <3> QED
        BY <3>1, <3>3, <3>4
    <2>4. SumOf(Worths(new), CTokens) = SumOf(Worths(old), CTokens) + Rate[c] * a
          /\ SumOf(Worths(old), CTokens) \in Int
      <3> HIDE DEF old, new, c, a
      <3>1. Adds(new, old, c, a)
        BY <2>3 DEF Adds
      <3> QED
        BY <2>2, <3>1, WorthGrows
    <2>5. /\ PaidFor(batch, n + 1) = PaidFor(batch, n) + PreviewRedeem(c, a)
          /\ PaidFor(batch, n) \in Nat /\ PreviewRedeem(c, a) \in Nat
          /\ PreviewRedeem(c, a) * Scale <= Rate[c] * a /\ Rate[c] * a \in Nat
      BY <2>1, <2>2, PaidItems, PreviewType
    <2>6. W(n) \in Int /\ PaidFor(batch, n) * Scale <= W(n) - base
      BY <1>5, <2>1 DEF G
    <2>7. W(n + 1) = W(n) + Rate[c] * a
      BY <2>4
    <2> DEFINE paidBefore == PaidFor(batch, n)
               item == PreviewRedeem(c, a)
               worth == Rate[c] * a
    <2>8. (paidBefore + item) * Scale = paidBefore * Scale + item * Scale
          /\ paidBefore * Scale \in Nat /\ item * Scale \in Nat
      BY <1>1, <2>5
    <2> DEFINE product == paidBefore * Scale
               part    == item * Scale
    <2>9. /\ PaidFor(batch, n + 1) * Scale = product + part
          /\ product \in Nat /\ part \in Nat /\ part <= worth /\ worth \in Nat
          /\ product <= W(n) - base /\ W(n + 1) = W(n) + worth
      BY <2>5, <2>6, <2>7, <2>8
    <2> HIDE DEF W, base, c, a, old, new, product, part, worth
    <2>10. W(n) \in Int /\ base \in Int
      BY <1>3, <2>6
    <2> QED
      BY <2>9, <2>10
  <1> HIDE DEF G
  <1>6. Len(batch) \in G
    BY <1>1, <1>4, <1>5, NatSetInduction
  <1>7. W(Len(batch)) \in Int /\ PaidFor(batch, Len(batch)) * Scale <= W(Len(batch)) - base
    BY <1>1, <1>6 DEF G
  <1> QED
    BY <1>7, PaidItems

(* The worth of the ledger is the worth of the books.                       *)
WorthsSummed == \A u \in Users : Ledger!Worth(u) = SumOf(Worths(redemptions[u]), CTokens)

LEMMA WorthForm == WorthsSummed
  BY WorthIsSum
     DEF WorthsSummed, Ledger!Worth, Ledger!MapThenSumSet, Ledger!MapThenFoldSet,
         MapThenSumSet, MapThenFoldSet

LEMMA CallOnLedger ==
  ASSUME TypeOK, WithinClaims, NEW u \in Users, NEW batch \in Arrays, RedeemCall(u, batch)
  PROVE  Ledger!UserStep(u)
  <1>1. Whole(u, batch)
    BY CallOnBooks
  <1>2. Ledger!Entitle(u)
    BY DEF Ledger!Entitle, RedeemCall, Granted, Published
  <1>3. Ledger!RedeemUpTo(u)
    <2> SUFFICES ASSUME NEW c \in CTokens
                 PROVE  redemptions[u][c] <= redemptions'[u][c]
                        /\ redemptions'[u][c] <= claims'[u][c]
      BY DEF Ledger!RedeemUpTo
    <2>1. redemptions[u][c] \in Nat
      BY DEF TypeOK
    <2> QED
      BY <1>1, <2>1 DEF Whole
  <1>4. /\ fei'[u] = fei[u] + Payout(batch) /\ Payout(batch) \in Nat
        /\ fei[u] \in Nat
        /\ \A v \in Users \ {u} : fei'[v] = fei[v]
    <2>1. \A v \in Users : v # Redeemer /\ v \in FeiAccounts
      BY UserIsNot DEF FeiAccounts
    <2> QED
      BY <2>1, ExchangeEffect DEF RedeemCall, TypeOK
  <1>5. Ledger!Pay(u)
    <2>1. Payout(batch) * Scale
            <= SumOf(Worths(redemptions'[u]), CTokens) - SumOf(Worths(redemptions[u]), CTokens)
      BY PaymentIsCovered DEF RedeemCall
    <2>2. Ledger!Worth(u) = SumOf(Worths(redemptions[u]), CTokens)
      BY WorthForm DEF WorthsSummed
    <2>3. Ledger!Worth(u)' = SumOf(Worths(redemptions'[u]), CTokens)
      <3>1. WorthsSummed'
        BY WorthForm, PTL
      <3> QED
        BY <3>1 DEF WorthsSummed
    <2>4. fei'[u] - fei[u] = Payout(batch) /\ fei[u] <= fei'[u]
      BY <1>4
    <2> QED
      BY <2>1, <2>2, <2>3, <2>4 DEF Ledger!Pay
  <1>6. \A v \in Users \ {u} : /\ claims'[v] = claims[v] /\ redemptions'[v] = redemptions[v]
                               /\ fei'[v] = fei[v]
    BY <1>1, <1>4 DEF Whole
  <1> QED
    BY <1>2, <1>3, <1>5, <1>6 DEF Ledger!UserStep

-----------------------------------------------------------------------------
(* The inductive invariant: books within the claims, and the rest.          *)
IInv ==
  /\ TypeOK
  /\ SignaturesValid
  /\ SignedFirst
  /\ WithinClaims
  /\ RedeemedHeld

LEMMA CallStep ==
  ASSUME IInv, NEW u \in Users, UserCall(u)
  PROVE  IInv' /\ (StillCovered => StillCovered') /\ Ledger!UserStep(u)
  <1>1. TypeOK /\ SignaturesValid /\ SignedFirst /\ WithinClaims /\ RedeemedHeld
    BY DEF IInv
  <1>2. PICK batch \in Arrays : SignedCall(u) /\ RedeemCall(u, batch)
    BY <1>1, CallForm
  <1>3. TypeOK' /\ WithinClaims'
    BY <1>1, <1>2, CallKeepsTypes
  <1>4. SignedFirst' /\ SignaturesValid'
    BY <1>1, <1>2, CallKeepsSigned DEF SignedCall
  <1>5. RedeemedHeld'
    BY <1>1, <1>2, CallKeepsHeld
  <1>6. StillCovered => StillCovered'
    BY <1>1, <1>2, CallKeepsCovered
  <1>7. Ledger!UserStep(u)
    BY <1>1, <1>2, CallOnLedger
  <1> QED
    BY <1>3, <1>4, <1>5, <1>6, <1>7 DEF IInv

(* What leaves the contract's own books alone.                              *)
LEMMA BooksKept ==
  ASSUME TypeOK, SignaturesValid, SignedFirst, WithinClaims, UNCHANGED contractVars
  PROVE  SignaturesValid' /\ SignedFirst' /\ WithinClaims'
  BY DEF contractVars, SignaturesValid, SignedFirst, WithinClaims, HasSigned

LEMMA TransferStep ==
  ASSUME IInv, NEW c \in CTokens, NEW u \in Users, NEW to \in CTokenAccounts, NEW n \in Nat,
         CTokenTransfer(c, u, to, n)
  PROVE  IInv' /\ (StillCovered => StillCovered') /\ UNCHANGED <<contractVars, fei>>
  <1>1. TypeOK /\ SignaturesValid /\ SignedFirst /\ WithinClaims /\ RedeemedHeld
        /\ UNCHANGED <<contractVars, fei>> /\ UNCHANGED contractVars
    BY DEF IInv, CTokenTransfer
  <1>2. u # Redeemer /\ u \in CTokenAccounts /\ Redeemer \in CTokenAccounts
    BY UserIsNot DEF CTokenAccounts
  <1>3. /\ cToken' \in [CTokens -> [CTokenAccounts -> Nat]]
        /\ \A d \in CTokens : cToken'[d][Redeemer] >= cToken[d][Redeemer]
    <2> DEFINE moved == Move(cToken[c], u, to, n)
    <2>1. cToken[c] \in [CTokenAccounts -> Nat] /\ n <= cToken[c][u]
          /\ cToken' = [cToken EXCEPT ![c] = moved]
          /\ cToken \in [CTokens -> [CTokenAccounts -> Nat]]
      BY <1>1 DEF TypeOK, CTokenTransfer
    <2>2. moved \in [CTokenAccounts -> Nat] /\ moved[Redeemer] >= cToken[c][Redeemer]
      BY <1>2, <2>1 DEF Move
    <2> HIDE DEF moved
    <2>3. \A d \in CTokens : cToken[d][Redeemer] \in Nat
      BY <1>2, <2>1
    <2> QED
      BY <2>1, <2>2, <2>3
  <1>4. TypeOK'
    BY <1>1, <1>3 DEF TypeOK, contractVars
  <1>5. RedeemedHeld'
    <2>1. HeldIn(redemptions, cToken)
      BY <1>1, HeldForm
    <2>2. redemptions' = redemptions
      BY <1>1 DEF contractVars
    <2>3. HeldIn(redemptions', cToken')
      <3> SUFFICES ASSUME NEW d \in CTokens
                   PROVE  cToken'[d][Redeemer] >= SumOf(RedeemedIn(redemptions', d), Users)
        BY DEF HeldIn
      <3> DEFINE s == SumOf(RedeemedIn(redemptions, d), Users)
      <3>1. cToken[d][Redeemer] >= s
        BY <2>1 DEF HeldIn
      <3>2. s \in Int
        <4>1. \A v \in Users : RedeemedIn(redemptions, d)[v] \in Int
          BY <1>1 DEF RedeemedIn, TypeOK
        <4>2. IsFiniteSet(Users)
          BY MerkleAssumption
        <4> QED
          BY <4>1, <4>2, SumTake
      <3>3. SumOf(RedeemedIn(redemptions', d), Users) = s
        BY <2>2
      <3>4. cToken'[d][Redeemer] >= cToken[d][Redeemer] /\ cToken[d][Redeemer] \in Nat
            /\ cToken'[d][Redeemer] \in Nat
        BY <1>1, <1>2, <1>3 DEF TypeOK
      <3> HIDE DEF s
      <3> QED
        BY <3>1, <3>2, <3>3, <3>4
    <2>4. RedeemedHeld' <=> HeldIn(redemptions, cToken)'
      BY HeldForm, PTL
    <2> QED
      BY <2>3, <2>4
  <1>6. StillCovered => StillCovered'
    <2>1. StillCovered <=> CoveredIn(claims, redemptions, fei)
      BY CoveredForm
    <2>2. StillCovered' <=> CoveredIn(claims, redemptions, fei)'
      BY CoveredForm, PTL
    <2>3. UNCHANGED <<claims, redemptions, fei>>
      BY <1>1 DEF contractVars
    <2> QED
      BY <2>1, <2>2, <2>3
  <1> QED
    BY <1>1, <1>4, <1>5, <1>6, BooksKept DEF IInv

LEMMA FundStep ==
  ASSUME IInv, NEW n \in Nat, Fund(n)
  PROVE  /\ IInv' /\ (StillCovered => StillCovered')
         /\ UNCHANGED contractVars /\ \A v \in Users : fei'[v] = fei[v]
  <1>1. TypeOK /\ SignaturesValid /\ SignedFirst /\ WithinClaims /\ RedeemedHeld
        /\ UNCHANGED contractVars /\ UNCHANGED cToken
        /\ n <= fei[Treasury] /\ fei' = Move(fei, Treasury, Redeemer, n)
    BY DEF IInv, Fund
  <1>2. /\ Treasury # Redeemer /\ Treasury \in FeiAccounts /\ Redeemer \in FeiAccounts
        /\ \A v \in Users : v # Treasury /\ v # Redeemer /\ v \in FeiAccounts
        /\ fei \in [FeiAccounts -> Nat]
    BY <1>1, UserIsNot, MerkleAssumption DEF FeiAccounts, TypeOK
  <1>3. /\ fei' \in [FeiAccounts -> Nat]
        /\ fei'[Treasury] = fei[Treasury] - n /\ fei'[Redeemer] = fei[Redeemer] + n
        /\ \A v \in Users : fei'[v] = fei[v]
    BY <1>1, <1>2 DEF Move
  <1>4. TypeOK'
    BY <1>1, <1>3 DEF TypeOK, contractVars
  <1>5. RedeemedHeld'
    <2>1. RedeemedHeld' <=> HeldIn(redemptions, cToken)'
      BY HeldForm, PTL
    <2> QED
      BY <1>1, <2>1, HeldForm DEF contractVars
  <1>6. StillCovered => StillCovered'
    <2>1. StillCovered <=> CoveredIn(claims, redemptions, fei)
      BY CoveredForm
    <2>2. StillCovered' <=> CoveredIn(claims, redemptions, fei)'
      BY CoveredForm, PTL
    <2>3. UNCHANGED <<claims, redemptions>>
      BY <1>1 DEF contractVars
    <2>4. fei'[Redeemer] + fei'[Treasury] = fei[Redeemer] + fei[Treasury]
      <3>1. fei[Redeemer] \in Nat /\ fei[Treasury] \in Nat
        BY <1>2
      <3> QED
        BY <1>3, <3>1
    <2> QED
      BY <2>1, <2>2, <2>3, <2>4 DEF CoveredIn
  <1> QED
    BY <1>1, <1>3, <1>4, <1>5, <1>6, BooksKept DEF IInv

(* What no user's call is, the ledger does not see.                         *)
LEMMA QuietOnLedger ==
  ASSUME UNCHANGED contractVars, \A v \in Users : fei'[v] = fei[v]
  PROVE  UNCHANGED <<claims, redemptions, [v \in Users |-> fei[v]]>>
  BY DEF contractVars

LEMMA NextStep ==
  ASSUME IInv, [Next]_vars
  PROVE  /\ IInv' /\ (StillCovered => StillCovered')
         /\ [Ledger!LedgerNext]_(Ledger!ledgerVars)
  <1>1. CASE \E u \in Users : UserCall(u)
    BY <1>1, CallStep DEF Ledger!LedgerNext
  <1>2. CASE \E c \in CTokens, u \in Users, to \in CTokenAccounts, n \in 1 .. MaxAmount :
                CTokenTransfer(c, u, to, n)
    <2>1. PICK c \in CTokens, u \in Users, to \in CTokenAccounts, n \in 1 .. MaxAmount :
                CTokenTransfer(c, u, to, n)
      BY <1>2
    <2>2. n \in Nat
      OBVIOUS
    <2>3. /\ IInv' /\ (StillCovered => StillCovered')
          /\ UNCHANGED <<contractVars, fei>>
      BY <2>1, <2>2, TransferStep
    <2> QED
      BY <2>3, QuietOnLedger DEF Ledger!ledgerVars
  <1>3. CASE \E n \in 1 .. MaxAmount : Fund(n)
    <2>1. PICK n \in 1 .. MaxAmount : Fund(n)
      BY <1>3
    <2>2. /\ IInv' /\ (StillCovered => StillCovered')
          /\ UNCHANGED contractVars /\ \A v \in Users : fei'[v] = fei[v]
      BY <2>1, FundStep
    <2> QED
      BY <2>2, QuietOnLedger DEF Ledger!ledgerVars
  <1>4. CASE UNCHANGED vars
    <2>1. UNCHANGED <<userSignatures, claims, redemptions, cToken, fei>>
      BY <1>4 DEF vars
    <2>2. TypeOK' /\ SignaturesValid' /\ SignedFirst' /\ WithinClaims'
      BY <2>1, BooksKept DEF IInv, contractVars, TypeOK
    <2>3. RedeemedHeld'
      <3>1. RedeemedHeld' <=> HeldIn(redemptions, cToken)'
        BY HeldForm, PTL
      <3> QED
        BY <2>1, <3>1, HeldForm DEF IInv
    <2>4. StillCovered => StillCovered'
      <3>1. StillCovered' <=> CoveredIn(claims, redemptions, fei)'
        BY CoveredForm, PTL
      <3> QED
        BY <2>1, <3>1, CoveredForm
    <2>5. UNCHANGED Ledger!ledgerVars
      BY <2>1 DEF Ledger!ledgerVars
    <2> QED
      BY <2>2, <2>3, <2>4, <2>5 DEF IInv
  <1> QED
    BY <1>1, <1>2, <1>3, <1>4 DEF Next

LEMMA InitIInv == Init => IInv /\ Ledger!LedgerInit
  <1> SUFFICES ASSUME Init PROVE IInv /\ Ledger!LedgerInit
    OBVIOUS
  <1>1. /\ userSignatures = [u \in Users |-> NoSignature]
        /\ claims = [u \in Users |-> [c \in CTokens |-> 0]]
        /\ redemptions = [u \in Users |-> [c \in CTokens |-> 0]]
    BY DEF Init
  <1>2. TypeOK
    <2>1. fei \in [FeiAccounts -> Nat]
      <3>1. \A a \in FeiAccounts : a \in Users \/ InitialFei[a] \in Nat
        BY MerkleAssumption DEF FeiAccounts
      <3> QED
        BY <3>1 DEF Init
    <2>2. cToken \in [CTokens -> [CTokenAccounts -> Nat]]
      <3>1. \A c \in CTokens, a \in CTokenAccounts :
               a = Redeemer \/ InitialCTokens[c][a] \in Nat
        BY MerkleAssumption DEF CTokenAccounts
      <3>2. ASSUME NEW c \in CTokens
            PROVE  [a \in CTokenAccounts |->
                      IF a = Redeemer THEN 0 ELSE InitialCTokens[c][a]]
                      \in [CTokenAccounts -> Nat]
        BY <3>1
      <3> QED
        BY <3>2 DEF Init
    <2> QED
      BY <1>1, <2>1, <2>2 DEF TypeOK
  <1>3. SignaturesValid /\ SignedFirst /\ WithinClaims
    BY <1>1 DEF SignaturesValid, SignedFirst, WithinClaims, HasSigned
  <1>4. RedeemedHeld
    <2>1. HeldIn(redemptions, cToken)
      <3> SUFFICES ASSUME NEW c \in CTokens
                   PROVE  cToken[c][Redeemer] >= SumOf(RedeemedIn(redemptions, c), Users)
        BY DEF HeldIn
      <3>1. cToken[c][Redeemer] = 0
        BY DEF Init, CTokenAccounts
      <3>2. \A v \in Users : RedeemedIn(redemptions, c)[v] = 0
        BY <1>1 DEF RedeemedIn
      <3>3. SumOf(RedeemedIn(redemptions, c), Users) = 0
        BY <3>2, MerkleAssumption, SumZero
      <3> QED
        BY <3>1, <3>3
    <2> QED
      BY <2>1, HeldForm
  <1>5. Ledger!LedgerInit
    <2>1. \A v \in Users : fei[v] = 0
      BY DEF Init, FeiAccounts
    <2> QED
      BY <1>1, <2>1 DEF Ledger!LedgerInit
  <1> QED
    BY <1>2, <1>3, <1>4, <1>5 DEF IInv

(* No exchange, transfer or refill overdraws an account, and no claim or    *)
(* redemption is negative.                                                  *)
THEOREM TypeCorrect == Spec => []TypeOK
  <1>1. IInv /\ [Next]_vars => IInv'
    BY NextStep
  <1>2. IInv => TypeOK
    BY DEF IInv
  <1> QED
    BY InitIInv, <1>1, <1>2, PTL DEF Spec

(* Nothing is claimed or redeemed for a user whose own signature of the     *)
(* message is not stored, whichever of the eight functions is called.       *)
THEOREM SignedBeforeClaimed == Spec => []SignedFirst
  <1>1. IInv /\ [Next]_vars => IInv'
    BY NextStep
  <1>2. IInv => SignedFirst
    BY DEF IInv
  <1> QED
    BY InitIInv, <1>1, <1>2, PTL DEF Spec

(* What the books count as redeemed is in the contract's custody, for every *)
(* cToken and whatever the batches repeat.                                  *)
THEOREM RedeemedIsInCustody == Spec => []RedeemedHeld
  <1>1. IInv /\ [Next]_vars => IInv'
    BY NextStep
  <1>2. IInv => RedeemedHeld
    BY DEF IInv
  <1> QED
    BY InitIInv, <1>1, <1>2, PTL DEF Spec

(* If redeemer and treasury hold enough FEI for the published distribution, *)
(* they hold enough for what is left of it ever after: the rounding of      *)
(* previewRedeem item by item never costs them a unit.                      *)
THEOREM FundingSuffices == Spec /\ StillCovered => []StillCovered
  <1>1. IInv /\ [Next]_vars => IInv'
    BY NextStep
  <1>2. IInv /\ StillCovered /\ [Next]_vars => StillCovered'
    BY NextStep
  <1> QED
    BY InitIInv, <1>1, <1>2, PTL DEF Spec

(* The contract implements the ledger of redemptions: every call is one     *)
(* step of it, in which a user proves entitlements of the distribution,     *)
(* redeems up to them and is paid no more than the rates of what they       *)
(* redeem; nobody else's entitlement, redemption or FEI is touched.         *)
THEOREM LedgerIsImplemented == Spec => ImplementsLedger
  <1>1. IInv /\ [Next]_vars => IInv'
    BY NextStep
  <1>2. IInv /\ [Next]_vars => [Ledger!LedgerNext]_(Ledger!ledgerVars)
    BY NextStep
  <1>3. Init => IInv /\ Ledger!LedgerInit
    BY InitIInv
  <1> QED
    BY <1>1, <1>2, <1>3, PTL DEF Spec, ImplementsLedger, Ledger!LedgerSpec

-----------------------------------------------------------------------------
(* The dripper.  Its timer has ended only if a whole period has passed, and *)
(* a period that starts now has not ended.                                  *)
Clock ==
  /\ now \in Nat /\ startTime \in Nat /\ drips \in Nat
  /\ DeployTime <= startTime /\ startTime <= now

Periods == DeployTime \in Nat \ {0} /\ Duration \in Nat \ {0}

LEMMA EndedPeriod ==
  ASSUME Periods, Clock, Dr!TimeEnded
  PROVE  now - startTime >= Duration
  BY DEF Periods, Clock, Dr!TimeEnded, Dr!IsTimeEnded, Dr!RemainingTime,
         Dr!TimeSinceStart, Dr!IsTimeStarted

LEMMA NewPeriod ==
  ASSUME Periods, Clock', Dr!InitTimed, now' = now
  PROVE  ~Dr!TimeEnded'
  BY DEF Periods, Clock, Dr!InitTimed, Dr!TimeEnded, Dr!IsTimeEnded,
         Dr!RemainingTime, Dr!TimeSinceStart, Dr!IsTimeStarted

LEMMA DripOnSchedule ==
  ASSUME Periods, Clock, RateLimit, Dr!TimeEnded,
         startTime' = now, now' = now, drips' = drips + 1
  PROVE  Clock' /\ RateLimit' /\ ~Dr!TimeEnded'
  <1>1. now - startTime >= Duration
    BY EndedPeriod
  <1>2. Clock'
    BY DEF Clock, Periods
  <1>3. RateLimit'
    <2>1. (drips + 1) * Duration = drips * Duration + Duration /\ drips * Duration \in Nat
      BY DEF Clock, Periods
    <2> QED
      BY <1>1, <2>1 DEF Clock, Periods, RateLimit
  <1>4. ~Dr!TimeEnded'
    BY <1>2, NewPeriod DEF Dr!InitTimed
  <1> QED
    BY <1>2, <1>3, <1>4

LEMMA MoveType ==
  ASSUME NEW D, NEW balance \in [D -> Nat], NEW from \in D, NEW to \in D,
         NEW amount \in Nat, amount <= balance[from]
  PROVE  /\ Dr!Move(balance, from, to, amount) \in [D -> Nat]
         /\ from # to =>
              /\ Dr!Move(balance, from, to, amount)[from] = balance[from] - amount
              /\ Dr!Move(balance, from, to, amount)[to] = balance[to] + amount
         /\ \A x \in D \ {from, to} : Dr!Move(balance, from, to, amount)[x] = balance[x]
  BY DEF Dr!Move

DrInv == Dr!TypeOK /\ Dr!RateLimit

LEMMA DrForm == DrInv <=> /\ Clock /\ RateLimit
                          /\ paused \in BOOLEAN /\ fei \in [Dr!Accounts -> Nat]
  BY DEF DrInv, Dr!TypeOK, Dr!RateLimit, Clock, RateLimit

LEMMA DrStep ==
  ASSUME Dr!DripperAssumption, DrInv, [Dr!Next]_(Dr!vars)
  PROVE  DrInv' /\ (drips' # drips => ~Dr!TimeEnded')
  <1>1. /\ Clock /\ RateLimit /\ Periods
        /\ paused \in BOOLEAN /\ fei \in [Dr!Accounts -> Nat]
    BY DrForm DEF Periods, Dr!DripperAssumption
  <1>2. DrInv' <=> /\ Clock' /\ RateLimit'
                   /\ paused' \in BOOLEAN /\ fei' \in [Dr!Accounts -> Nat]
    BY DEF DrInv, Dr!TypeOK, Dr!RateLimit, Clock, RateLimit
  <1>3. Treasury \in Dr!Accounts /\ Redeemer \in Dr!Accounts /\ AmountToDrip \in Nat
        /\ \A n \in 1 .. MaxAmount : n \in Nat
    BY DEF Dr!Accounts, Dr!DripperAssumption
  <1>4. CASE Dr!Drip
    <2>1. Clock' /\ RateLimit' /\ ~Dr!TimeEnded'
      BY <1>1, <1>4, DripOnSchedule DEF Dr!Drip, Dr!CanDrip, Dr!InitTimed
    <2>2. fei' \in [Dr!Accounts -> Nat]
      BY <1>1, <1>3, <1>4, MoveType DEF Dr!Drip, Dr!CanDrip
    <2>3. paused' \in BOOLEAN
      BY <1>1, <1>4 DEF Dr!Drip
    <2> QED
      BY <1>2, <2>1, <2>2, <2>3
  <1>5. ASSUME UNCHANGED <<now, startTime, drips>>,
               paused' \in BOOLEAN, fei' \in [Dr!Accounts -> Nat]
        PROVE  DrInv' /\ drips' = drips
    BY <1>1, <1>2, <1>5 DEF Clock, RateLimit
  <1>6. CASE Dr!Pause \/ Dr!Unpause
    <2>1. UNCHANGED <<now, startTime, drips>> /\ paused' \in BOOLEAN /\ fei' = fei
      BY <1>6 DEF Dr!Pause, Dr!Unpause
    <2> QED
      BY <1>1, <1>5, <2>1
  <1>7. CASE \E to \in Dr!Accounts, n \in 1 .. MaxAmount : Dr!Withdraw(to, n)
    <2>1. PICK to \in Dr!Accounts, n \in 1 .. MaxAmount : Dr!Withdraw(to, n)
      BY <1>7
    <2>2. fei' \in [Dr!Accounts -> Nat]
      BY <1>1, <1>3, <2>1, MoveType DEF Dr!Withdraw
    <2>3. UNCHANGED <<now, startTime, paused, drips>>
      BY <2>1 DEF Dr!Withdraw
    <2> QED
      BY <1>1, <1>5, <2>2, <2>3
  <1>8. CASE \E from \in Dr!Accounts \ {Treasury}, to \in Dr!Accounts, n \in 1 .. MaxAmount :
                Dr!Transfer(from, to, n)
    <2>1. PICK from \in Dr!Accounts \ {Treasury}, to \in Dr!Accounts, n \in 1 .. MaxAmount :
                Dr!Transfer(from, to, n)
      BY <1>8
    <2>2. fei' \in [Dr!Accounts -> Nat]
      BY <1>1, <1>3, <2>1, MoveType DEF Dr!Transfer
    <2>3. UNCHANGED <<now, startTime, paused, drips>>
      BY <2>1 DEF Dr!Transfer
    <2> QED
      BY <1>1, <1>5, <2>2, <2>3
  <1>9. CASE Dr!Tick
    <2>1. now' = now + 1 /\ UNCHANGED <<startTime, paused, fei, drips>>
      BY <1>9 DEF Dr!Tick
    <2> QED
      BY <1>1, <1>2, <2>1 DEF Clock, RateLimit
  <1>10. CASE UNCHANGED Dr!vars
    <2>1. UNCHANGED <<now, startTime, paused, fei, drips>>
      BY <1>10 DEF Dr!vars
    <2> QED
      BY <1>1, <1>5, <2>1
  <1> QED
    BY <1>4, <1>6, <1>7, <1>8, <1>9, <1>10 DEF Dr!Next

LEMMA DrStart == ASSUME Dr!DripperAssumption, Dr!Init PROVE DrInv
  <1>1. paused \in BOOLEAN
    BY Zenon DEF Dr!Init
  <1>2. fei \in [Dr!Accounts -> Nat]
    BY DEF Dr!Init, Dr!DripperAssumption
  <1>3. Clock /\ RateLimit
    <2>1. Duration \in Nat /\ DeployTime \in Nat /\ 0 * Duration = 0
      BY DEF Dr!DripperAssumption
    <2> QED
      BY <2>1 DEF Dr!Init, Clock, RateLimit
  <1> QED
    BY <1>1, <1>2, <1>3, DrForm

(* No drip, withdrawal or transfer overdraws an account, and the timer of   *)
(* the dripper is never ahead of the clock.                                 *)
THEOREM DripperTypeCorrect ==
  ASSUME Dr!DripperAssumption PROVE Dr!Spec => []Dr!TypeOK
  <1>1. Dr!Init => DrInv
    BY DrStart
  <1>2. DrInv /\ [Dr!Next]_(Dr!vars) => DrInv'
    BY DrStep
  <1>3. DrInv => Dr!TypeOK
    BY DEF DrInv
  <1> QED
    BY <1>1, <1>2, <1>3, PTL DEF Dr!Spec

(* k drips take at least k periods, whatever happens between them.          *)
THEOREM ReleaseSchedule ==
  ASSUME Dr!DripperAssumption PROVE Dr!Spec => []RateLimit
  <1>1. Dr!Init => DrInv
    BY DrStart
  <1>2. DrInv /\ [Dr!Next]_(Dr!vars) => DrInv'
    BY DrStep
  <1>3. DrInv => RateLimit
    BY DrForm
  <1> QED
    BY <1>1, <1>2, <1>3, PTL DEF Dr!Spec

(* A drip always starts a new period, so a second one cannot follow it.     *)
THEOREM MissedPeriodsAreLost ==
  ASSUME Dr!DripperAssumption PROVE Dr!Spec => Dr!NoCatchUp
  <1>1. Dr!Init => DrInv
    BY DrStart
  <1>2. DrInv /\ [Dr!Next]_(Dr!vars) => DrInv'
    BY DrStep
  <1>3. DrInv /\ [Dr!Next]_(Dr!vars) => [drips' # drips => ~Dr!TimeEnded']_(Dr!vars)
    BY DrStep
  <1> QED
    BY <1>1, <1>2, <1>3, PTL DEF Dr!Spec, Dr!NoCatchUp

-----------------------------------------------------------------------------
(* The composition: the redeemer and the users have what the drips and      *)
(* what was brought from elsewhere add to what the redeemer held at first.  *)
FeiHolders == Users \cup {Redeemer, Treasury, Dao}

PaidTo(balances) == SumOf(balances, Users)

MInv ==
  /\ Clock /\ RateLimit
  /\ fei \in [FeiHolders -> Nat]
  /\ brought \in Int /\ sent \in Nat
  /\ PaidTo(fei) + fei[Redeemer] = InitialFei[Redeemer] + AmountToDrip * drips + brought
  /\ LittleAtRisk

LEMMA PaidForm == Paid = PaidTo(fei)
  <1> DEFINE T == Users
             F == fei
             HolderStep(g, t) == IF t = {} THEN 0 ELSE fei[Chosen(t)] + g[t \ {Chosen(t)}]
             Is(g) == g = [t \in SUBSET T |-> HolderStep(g, t)]
             it == CHOOSE g : Is(g)
  <1>1. Paid = it[T]
    BY DEF Paid, MapThenSumSet, MapThenFoldSet, Chosen
  <1>2. IsFiniteSet(T)
    BY MerkleAssumption
  <1> HIDE DEF T
  <1>3. ASSUME NEW g, NEW t \in SUBSET T PROVE HolderStep(g, t) = Step(g, F, t)
    BY DEF Step
  <1> HIDE DEF F, HolderStep
  <1>4. \E g : Is(g)
    <2>1. PICK h : SumsOver(h, F, T) /\ h = [t \in SUBSET T |-> h[t]]
      BY <1>2, SumsFunction
    <2>2. h = [t \in SUBSET T |-> HolderStep(h, t)]
      BY <1>3, <2>1 DEF SumsOver
    <2> QED
      BY <2>2
  <1>5. Is(it)
    <2> HIDE DEF Is
    <2> QED
      BY <1>4
  <1> HIDE DEF it
  <1>6. SumsOver(it, F, T)
    BY <1>3, <1>5 DEF SumsOver
  <1> QED
    BY <1>1, <1>2, <1>6, SumIs DEF T, F, PaidTo

LEMMA HoldersDistinct ==
  ASSUME M!RedemptionAssumption
  PROVE  /\ Periods /\ AmountToDrip \in Nat /\ AmountToDrip # 0
         /\ InitialFei[Redeemer] \in Nat /\ InitialFei[Treasury] \in Nat
         /\ IsFiniteSet(Users) /\ Users \subseteq FeiHolders
         /\ Redeemer \in FeiHolders /\ Treasury \in FeiHolders /\ Dao \in FeiHolders
         /\ Redeemer \notin Users /\ Treasury \notin Users /\ Dao \notin Users
         /\ Redeemer # Treasury /\ Dao # Redeemer /\ Dao # Treasury
  <1>1. /\ Periods /\ AmountToDrip \in Nat /\ AmountToDrip # 0 /\ Dao \notin Users
        /\ Dao # Redeemer /\ Dao # Treasury
    BY DEF M!RedemptionAssumption, M!D!DripperAssumption, Periods
  <1> QED
    BY <1>1, MerkleAssumption DEF FeiHolders

(* A transfer between holders, and what it does to the users' total.        *)
LEMMA FeiMoves ==
  ASSUME M!RedemptionAssumption, fei \in [FeiHolders -> Nat],
         NEW from \in FeiHolders, NEW to \in FeiHolders, from # to,
         NEW n \in Nat, n <= fei[from],
         NEW after, after = Move(fei, from, to, n)
  PROVE  /\ after \in [FeiHolders -> Nat]
         /\ after[from] = fei[from] - n /\ after[to] = fei[to] + n
         /\ \A x \in FeiHolders \ {from, to} : after[x] = fei[x]
         /\ PaidTo(fei) \in Int
         /\ PaidTo(after) = PaidTo(fei) - (IF from \in Users THEN n ELSE 0)
                                        + (IF to \in Users THEN n ELSE 0)
  <1>1. /\ after \in [FeiHolders -> Nat]
        /\ after[from] = fei[from] - n /\ after[to] = fei[to] + n
        /\ \A x \in FeiHolders \ {from, to} : after[x] = fei[x]
    BY DEF Move
  <1>2. Users \in SUBSET FeiHolders /\ IsFiniteSet(Users) /\ fei \in [FeiHolders -> Int] /\ n \in Int
    BY HoldersDistinct
  <1>3. /\ SumOf(fei, Users) \in Int
        /\ SumOf(Move(fei, from, to, n), Users) =
             SumOf(fei, Users) - (IF from \in Users THEN n ELSE 0)
                               + (IF to \in Users THEN n ELSE 0)
    BY <1>2, SumMove
  <1> QED
    BY <1>1, <1>3 DEF PaidTo

LEMMA ItemPayout ==
  ASSUME NEW c \in CTokens, NEW n \in 0 .. MaxAmount
  PROVE  M!R!Payout(M!R!Item(c, n)) \in Nat
  <1>1. M!R!Item(c, n) = Item(c, n) /\ Item(c, n) \in Arrays
    BY ArraysOfCalls DEF M!R!Item, Item
  <1>2. ASSUME NEW batch PROVE M!R!Payout(batch) = Payout(batch)
    BY DEF M!R!Payout, M!R!PreviewRedeem, M!R!MapThenSumSet, M!R!MapThenFoldSet,
           Payout, PreviewRedeem, MapThenSumSet, MapThenFoldSet
  <1>3. Payout(Item(c, n)) \in Nat
    BY <1>1, PaidItems, BatchItems
  <1> QED
    BY <1>1, <1>2, <1>3

(* A payment of the redeemer to a user.                                    *)
Payment(u, n) ==
  /\ n \in Nat /\ n <= fei[Redeemer] /\ fei' = Move(fei, Redeemer, u, n)
  /\ UNCHANGED <<now, startTime, paused, drips, brought, sent>>

LEMMA PayStep ==
  ASSUME M!RedemptionAssumption, MInv, NEW u \in Users, NEW n, Payment(u, n)
  PROVE  MInv'
  <1>1. /\ u \in FeiHolders /\ Redeemer \in FeiHolders /\ u # Redeemer /\ Redeemer \notin Users
        /\ AmountToDrip \in Nat /\ InitialFei[Redeemer] \in Nat
    BY HoldersDistinct
  <1>2. /\ fei' \in [FeiHolders -> Nat]
        /\ fei'[Redeemer] = fei[Redeemer] - n
        /\ PaidTo(fei) \in Int /\ PaidTo(fei') = PaidTo(fei) + n
        /\ n \in Nat /\ n <= fei[Redeemer] /\ fei[Redeemer] \in Nat
    <2>1. n \in Nat /\ n <= fei[Redeemer] /\ fei \in [FeiHolders -> Nat]
          /\ fei' = Move(fei, Redeemer, u, n)
      BY DEF MInv, Payment
    <2>2. /\ fei' \in [FeiHolders -> Nat]
          /\ fei'[Redeemer] = fei[Redeemer] - n
          /\ PaidTo(fei) \in Int
          /\ PaidTo(fei') = PaidTo(fei) - (IF Redeemer \in Users THEN n ELSE 0)
                                        + (IF u \in Users THEN n ELSE 0)
      BY <1>1, <2>1, FeiMoves
    <2> QED
      BY <1>1, <2>1, <2>2
  <1>3. UNCHANGED <<now, startTime, drips, brought, sent>>
    BY DEF Payment
  <1>4. Clock' /\ RateLimit'
    BY <1>3 DEF MInv, Clock, RateLimit
  <1>5. PaidTo(fei') + fei'[Redeemer] = InitialFei[Redeemer] + AmountToDrip * drips' + brought'
    <2>1. PaidTo(fei) + fei[Redeemer] = InitialFei[Redeemer] + AmountToDrip * drips + brought
      BY DEF MInv
    <2>2. PaidTo(fei') + fei'[Redeemer] = PaidTo(fei) + fei[Redeemer]
      BY <1>2
    <2> QED
      BY <1>3, <2>1, <2>2
  <1>6. LittleAtRisk'
    <2>1. fei'[Redeemer] <= fei[Redeemer] /\ fei'[Redeemer] \in Int
          /\ sent \in Int /\ drips \in Int
      BY <1>1, <1>2 DEF MInv, Clock
    <2> QED
      BY <1>1, <1>2, <1>3, <2>1 DEF MInv, LittleAtRisk
  <1> QED
    BY <1>2, <1>3, <1>4, <1>5, <1>6 DEF MInv

LEMMA RefillStep ==
  ASSUME M!RedemptionAssumption, MInv, M!D!MerkleDrip, sent' = 0, brought' = brought
  PROVE  MInv'
  <1>1. /\ Treasury \in FeiHolders /\ Redeemer \in FeiHolders
        /\ Redeemer # Treasury /\ Redeemer \notin Users /\ Treasury \notin Users
        /\ AmountToDrip \in Nat /\ InitialFei[Redeemer] \in Nat /\ Periods
    BY HoldersDistinct
  <1>2. /\ Dr!TimeEnded /\ startTime' = now /\ now' = now /\ drips' = drips + 1
        /\ AmountToDrip <= fei[Treasury] /\ fei[Redeemer] < AmountToDrip
        /\ fei' = Move(fei, Treasury, Redeemer, AmountToDrip)
    BY DEF M!D!MerkleDrip, M!D!Drip, M!D!CanDrip, M!D!InitTimed, M!D!Move, Move,
           M!D!TimeEnded, M!D!IsTimeEnded, M!D!RemainingTime, M!D!TimeSinceStart,
           M!D!IsTimeStarted, Dr!TimeEnded, Dr!IsTimeEnded, Dr!RemainingTime,
           Dr!TimeSinceStart, Dr!IsTimeStarted
  <1>3. Clock' /\ RateLimit'
    BY <1>1, <1>2, DripOnSchedule DEF MInv
  <1>4. /\ fei' \in [FeiHolders -> Nat]
        /\ fei'[Redeemer] = fei[Redeemer] + AmountToDrip
        /\ PaidTo(fei) \in Int /\ PaidTo(fei') = PaidTo(fei)
        /\ fei[Redeemer] \in Nat
    <2>1. fei \in [FeiHolders -> Nat]
      BY DEF MInv
    <2>2. /\ fei' \in [FeiHolders -> Nat]
          /\ fei'[Redeemer] = fei[Redeemer] + AmountToDrip
          /\ PaidTo(fei) \in Int
          /\ PaidTo(fei') = PaidTo(fei) - (IF Treasury \in Users THEN AmountToDrip ELSE 0)
                                        + (IF Redeemer \in Users THEN AmountToDrip ELSE 0)
      BY <1>1, <1>2, <2>1, FeiMoves
    <2> QED
      BY <1>1, <2>1, <2>2
  <1>5. PaidTo(fei') + fei'[Redeemer] = InitialFei[Redeemer] + AmountToDrip * drips' + brought'
    <2>1. PaidTo(fei) + fei[Redeemer] = InitialFei[Redeemer] + AmountToDrip * drips + brought
          /\ drips \in Nat /\ brought \in Int
      BY DEF MInv, Clock
    <2>2. AmountToDrip * (drips + 1) = AmountToDrip * drips + AmountToDrip
          /\ AmountToDrip * drips \in Nat
      BY <1>1, <2>1
    <2> QED
      BY <1>1, <1>2, <1>4, <2>1, <2>2
  <1>6. LittleAtRisk'
    <2>1. drips' # 0
      BY <1>2 DEF MInv, Clock
    <2>2. fei'[Redeemer] <= 0 + (2 * AmountToDrip - 1)
      BY <1>1, <1>2, <1>4
    <2> QED
      BY <2>1, <2>2 DEF LittleAtRisk
  <1> QED
    BY <1>3, <1>4, <1>5, <1>6 DEF MInv

(* FEI is withdrawn from the dripper, or sent by a user or somebody else.   *)
LEMMA SendStep ==
  ASSUME M!RedemptionAssumption, MInv,
         NEW from \in FeiHolders \ {Redeemer}, NEW to \in FeiHolders,
         NEW n \in Nat, n <= fei[from], fei' = Move(fei, from, to, n),
         M!Noted(from, to, n), UNCHANGED <<now, startTime, drips>>
  PROVE  MInv'
  <1>1. /\ Redeemer \in FeiHolders /\ Redeemer \notin Users /\ from # Redeemer
        /\ Treasury \notin Users /\ Dao \notin Users
        /\ AmountToDrip \in Nat /\ InitialFei[Redeemer] \in Nat
    BY HoldersDistinct
  <1>2. /\ fei \in [FeiHolders -> Nat] /\ brought \in Int /\ sent \in Nat /\ drips \in Nat
        /\ PaidTo(fei) + fei[Redeemer] = InitialFei[Redeemer] + AmountToDrip * drips + brought
        /\ LittleAtRisk
    BY DEF MInv, Clock
  <1>3. /\ brought' = brought + (IF to \in Users \cup {Redeemer} THEN n ELSE 0)
                              - (IF from \in Users THEN n ELSE 0)
        /\ sent' = sent + (IF to = Redeemer THEN n ELSE 0)
    BY <1>1 DEF M!Noted, M!Inside
  <1>4. Clock' /\ RateLimit'
    BY DEF MInv, Clock, RateLimit
  <1>5. CASE from = to
    <2>1. fei' = fei /\ brought' = brought /\ sent' = sent
      BY <1>1, <1>2, <1>3, <1>5 DEF Move
    <2> QED
      BY <1>2, <1>4, <2>1 DEF MInv, LittleAtRisk
  <1>6. CASE from # to
    <2>1. /\ fei' \in [FeiHolders -> Nat]
          /\ fei'[to] = fei[to] + n
          /\ \A x \in FeiHolders \ {from, to} : fei'[x] = fei[x]
          /\ PaidTo(fei) \in Int
          /\ PaidTo(fei') = PaidTo(fei) - (IF from \in Users THEN n ELSE 0)
                                        + (IF to \in Users THEN n ELSE 0)
      BY <1>2, <1>6, FeiMoves
    <2>2. fei'[Redeemer] = fei[Redeemer] + (IF to = Redeemer THEN n ELSE 0)
          /\ fei[Redeemer] \in Nat
      BY <1>1, <1>2, <2>1
    <2>3. brought' \in Int /\ sent' \in Nat
      BY <1>2, <1>3
    <2>4. PaidTo(fei') + fei'[Redeemer] = InitialFei[Redeemer] + AmountToDrip * drips' + brought'
      <3> DEFINE dripped == AmountToDrip * drips
      <3>1. dripped \in Nat /\ AmountToDrip * drips' = dripped
        BY <1>1, <1>2
      <3> HIDE DEF dripped
      <3>2. PaidTo(fei) + fei[Redeemer] = InitialFei[Redeemer] + dripped + brought
        BY <1>2 DEF dripped
      <3>3. PaidTo(fei') + fei'[Redeemer] = InitialFei[Redeemer] + dripped + brought'
        <4> DEFINE given == IF from \in Users THEN n ELSE 0
                   paidTo == IF to \in Users THEN n ELSE 0
                   kept == IF to = Redeemer THEN n ELSE 0
        <4>1. given \in Nat /\ paidTo \in Nat /\ kept \in Nat
          OBVIOUS
        <4>2. brought' = brought + paidTo + kept - given
          BY <1>1, <1>2, <1>3
        <4>3. PaidTo(fei') = PaidTo(fei) - given + paidTo /\ PaidTo(fei) \in Int
          BY <2>1
        <4>4. fei'[Redeemer] = fei[Redeemer] + kept /\ fei[Redeemer] \in Nat
          BY <2>2
        <4>5. brought \in Int /\ InitialFei[Redeemer] \in Int
          BY <1>1, <1>2
        <4> HIDE DEF given, paidTo, kept
        <4> QED
          BY <3>1, <3>2, <4>1, <4>2, <4>3, <4>4, <4>5
      <3> QED
        BY <3>1, <3>3
    <2>5. LittleAtRisk'
      BY <1>1, <1>2, <1>3, <2>2 DEF LittleAtRisk
    <2> QED
      BY <1>4, <2>1, <2>3, <2>4, <2>5 DEF MInv
  <1> QED
    BY <1>5, <1>6

LEMMA MQuiet ==
  ASSUME MInv, UNCHANGED <<startTime, drips, fei, brought, sent>>,
         now' = now \/ now' = now + 1
  PROVE  MInv'
  <1>1. Clock' /\ RateLimit'
    BY DEF MInv, Clock, RateLimit
  <1>2. LittleAtRisk'
    BY DEF MInv, LittleAtRisk
  <1> QED
    BY <1>1, <1>2 DEF MInv

LEMMA MStep ==
  ASSUME M!RedemptionAssumption, MInv, [M!Next]_(M!vars)
  PROVE  MInv'
  <1>0. M!FeiHolders = FeiHolders /\ \A n \in 1 .. MaxAmount : n \in Nat
    BY MerkleAssumption DEF M!FeiHolders, M!Inside, FeiHolders
  <1>1. CASE \E u \in Users : M!Enrol(u)
    <2>1. UNCHANGED <<now, startTime, drips, fei, brought, sent>>
      BY <1>1 DEF M!Enrol, M!dripperVars, M!history, M!R!Sign, M!R!Claim, M!R!MultiClaim
    <2> QED
      BY <2>1, MQuiet
  <1>2. CASE \E u \in Users, c \in CTokens, n \in 1 .. MaxAmount : M!Redeem(u, c, n)
    <2>1. PICK u \in Users, c \in CTokens, n \in 1 .. MaxAmount : M!Redeem(u, c, n)
      BY <1>2
    <2>2. n \in 0 .. MaxAmount
      BY MerkleAssumption
    <2> DEFINE paid == M!R!Payout(M!R!Item(c, n))
    <2>3. paid \in Nat
      BY <2>2, ItemPayout
    <2>4. /\ paid <= fei[Redeemer] /\ fei' = Move(fei, Redeemer, u, paid)
          /\ UNCHANGED <<now, startTime, paused, drips, brought, sent>>
      BY <2>1 DEF M!Redeem, M!dripperVars, M!history, M!R!Redeem, M!R!MultiRedeem, M!R!DoRedeem,
                  M!R!Exchange, M!R!Move, Move
    <2> HIDE DEF paid
    <2>5. Payment(u, paid)
      BY <2>3, <2>4 DEF Payment
    <2> QED
      BY <2>5, PayStep
  <1>3. CASE M!Drip
    BY <1>3, RefillStep DEF M!Drip
  <1>4. CASE M!Pause
    BY <1>4, MQuiet DEF M!Pause, M!history, M!D!Pause, M!D!Unpause
  <1>5. CASE \E to \in M!FeiHolders, n \in 1 .. MaxAmount : M!Withdraw(to, n)
    <2>1. PICK to \in FeiHolders, n \in Nat : M!Withdraw(to, n)
      BY <1>0, <1>5
    <2>2. /\ n <= fei[Treasury] /\ fei' = Move(fei, Treasury, to, n)
          /\ M!Noted(Treasury, to, n) /\ UNCHANGED <<now, startTime, drips>>
      BY <2>1 DEF M!Withdraw, M!D!Withdraw, M!D!Move, Move
    <2>3. Treasury \in FeiHolders \ {Redeemer}
      BY HoldersDistinct
    <2> QED
      BY <2>2, <2>3, SendStep
  <1>8. CASE \E from \in Users \cup {Dao}, to \in M!FeiHolders, n \in 1 .. MaxAmount :
               M!Transfer(from, to, n)
    <2>1. PICK from \in Users \cup {Dao}, to \in FeiHolders, n \in Nat : M!Transfer(from, to, n)
      BY <1>0, <1>8
    <2>2. /\ n <= fei[from] /\ fei' = Move(fei, from, to, n)
          /\ M!Noted(from, to, n) /\ UNCHANGED <<now, startTime, drips>>
      BY <2>1 DEF M!Transfer, M!D!Transfer, M!D!Move, Move
    <2>3. from \in FeiHolders \ {Redeemer}
      BY HoldersDistinct
    <2> QED
      BY <2>2, <2>3, SendStep
  <1>6. CASE M!Tick
    BY <1>6, MQuiet DEF M!Tick, M!history, M!D!Tick
  <1>7. CASE UNCHANGED M!vars
    BY <1>7, MQuiet DEF M!vars, M!dripperVars, M!history
  <1> QED
    BY <1>1, <1>2, <1>3, <1>4, <1>5, <1>6, <1>7, <1>8 DEF M!Next

LEMMA MStart == ASSUME M!RedemptionAssumption, M!Init PROVE MInv
  <1>1. /\ Periods /\ AmountToDrip \in Nat /\ InitialFei[Redeemer] \in Nat
        /\ InitialFei[Treasury] \in Nat /\ IsFiniteSet(Users)
        /\ Redeemer \in FeiHolders /\ Redeemer \notin Users /\ Treasury \notin Users
        /\ Users \subseteq FeiHolders /\ Redeemer # Dao /\ DaoFei \in Nat
    BY HoldersDistinct DEF M!RedemptionAssumption
  <1>2. /\ now = DeployTime /\ startTime = DeployTime /\ drips = 0
        /\ fei = [a \in FeiHolders |->
                    IF a \in Users THEN 0 ELSE IF a = Dao THEN DaoFei ELSE InitialFei[a]]
        /\ brought = 0 /\ sent = 0
    BY DEF M!Init, M!D!Init, M!FeiHolders, M!Inside, FeiHolders
  <1>3. /\ fei \in [FeiHolders -> Nat] /\ fei[Redeemer] = InitialFei[Redeemer]
        /\ \A u \in Users : fei[u] = 0
    <2>1. \A a \in FeiHolders : a \in Users \/ a = Redeemer \/ a = Treasury \/ a = Dao
      BY DEF FeiHolders
    <2> QED
      BY <1>1, <1>2, <2>1
  <1>4. PaidTo(fei) = 0
    BY <1>1, <1>3, SumZero DEF PaidTo
  <1>5. Clock /\ RateLimit
    <2>1. 0 * Duration = 0
      BY <1>1 DEF Periods
    <2> QED
      BY <1>1, <1>2, <2>1 DEF Clock, RateLimit, Periods
  <1>6. PaidTo(fei) + fei[Redeemer] = InitialFei[Redeemer] + AmountToDrip * drips + brought
    <2>1. AmountToDrip * 0 = 0
      BY <1>1
    <2> QED
      BY <1>1, <1>2, <1>3, <1>4, <2>1
  <1>7. LittleAtRisk
    BY <1>1, <1>2, <1>3 DEF LittleAtRisk
  <1> QED
    BY <1>2, <1>3, <1>5, <1>6, <1>7 DEF MInv

(* k drips, at most one per period, are at most the periods that passed.    *)
LEMMA PaceOfDrips ==
  ASSUME M!RedemptionAssumption, MInv
  PROVE  PacedRelease
  <1> DEFINE passed == startTime - DeployTime
             periods == passed \div Duration
             received == AmountToDrip * drips
             allowed == AmountToDrip * periods
  <1>1. /\ AmountToDrip \in Nat /\ Duration \in Nat /\ Duration # 0
        /\ drips \in Nat /\ passed \in Nat /\ drips * Duration <= passed
        /\ InitialFei[Redeemer] \in Nat /\ fei[Redeemer] \in Nat
        /\ PaidTo(fei) + fei[Redeemer] = InitialFei[Redeemer] + received + brought
        /\ brought \in Int
    BY HoldersDistinct DEF MInv, Clock, RateLimit, Periods
  <1>2. PaidTo(fei) \in Int
    <2>1. \A u \in Users : fei[u] \in Int
      BY HoldersDistinct DEF MInv
    <2> QED
      BY <2>1, HoldersDistinct, SumTake DEF PaidTo
  <1> HIDE DEF passed
  <1>3. periods \in Nat /\ passed < periods * Duration + Duration
    BY <1>1, DivBounds
  <1> HIDE DEF periods
  <1>4. drips * Duration < (periods + 1) * Duration
    BY <1>1, <1>3, Z3
  <1>5. drips < periods + 1
    BY <1>1, <1>3, <1>4, Z3
  <1>6. drips <= periods
    BY <1>1, <1>3, <1>5
  <1>7. received \in Nat /\ allowed \in Nat /\ received <= allowed
    BY <1>1, <1>3, <1>6, FactorsMonotone
  <1>8. PaidTo(fei) - brought <= InitialFei[Redeemer] + allowed
    <2> HIDE DEF received, allowed
    <2> QED
      BY <1>1, <1>2, <1>7
  <1> QED
    BY <1>8, PaidForm DEF PacedRelease, allowed, periods, passed

(* Whatever the users do, they have not been paid more than the redeemer    *)
(* held at first and one amount per period passed: what they hold above it  *)
(* somebody else or a withdrawal from the dripper gave them, and FEI they   *)
(* passed on still counts as theirs.                                        *)
THEOREM UsersArePaidAtThePace ==
  ASSUME M!RedemptionAssumption PROVE M!Spec => []PacedRelease
  <1>1. M!Init => MInv
    BY MStart
  <1>2. MInv /\ [M!Next]_(M!vars) => MInv'
    BY MStep
  <1>3. MInv => PacedRelease
    BY PaceOfDrips
  <1> QED
    BY <1>1, <1>2, <1>3, PTL DEF M!Spec

(* The drips never make the redeemer hold two amounts, because a drip reads *)
(* its balance first: what it holds above them was sent to it, by users or  *)
(* others or by a withdrawal, since the last drip, or no drip followed its  *)
(* first funding.                                                           *)
THEOREM DripsLeaveLittleAtRisk ==
  ASSUME M!RedemptionAssumption PROVE M!Spec => []LittleAtRisk
  <1>1. M!Init => MInv
    BY MStart
  <1>2. MInv /\ [M!Next]_(M!vars) => MInv'
    BY MStep
  <1>3. MInv => LittleAtRisk
    BY DEF MInv
  <1> QED
    BY <1>1, <1>2, <1>3, PTL DEF M!Spec
=============================================================================
