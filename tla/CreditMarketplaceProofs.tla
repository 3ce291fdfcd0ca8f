------------------------ MODULE CreditMarketplaceProofs ------------------------
(***************************************************************************)
(* Proofs about CreditMarketplace, for every set of accounts and tokens,   *)
(* every amount, price, fee and precision, and batches of any length.      *)
(*                                                                         *)
(* The escrow is followed through the transfers of a fill, through the     *)
(* fills of a batch and from call to call: what it loses of a token, the   *)
(* claim of the order filled loses too.                                    *)
(***************************************************************************)
EXTENDS CreditMarketplace, CollectionTheorems, SequenceTheorems

Wallets == [Token -> [Account \cup {Market} -> Int]]

\* Orders as they are in the book: filled to at most their amount.
Orders == {o \in Order : o.filled <= o.amount}

Claims(os, token) == [id \in DOMAIN os |-> Claim(os[id], token)]

Covered(wallets, os) ==
  /\ wallets \in Wallets
  /\ os \in Seq(Orders)
  /\ \A t \in Token : wallets[t][Market] >= SumFunction(Claims(os, t))

FeeTypeOK == fee \in [bps : Nat, recipient : Account \cup {Market}]

--------------------------------------------------------------------------------
(***************************************************************************)
(* Costs.                                                                  *)
(***************************************************************************)

\* Rounding down twice loses no less than rounding down once.
LEMMA FloorsAdd ==
  ASSUME NEW x \in Nat, NEW y \in Nat, NEW d \in Nat \ {0}
  PROVE  x \div d + y \div d <= (x + y) \div d
<1> DEFINE q == x \div d
           r == y \div d
           s == (x + y) \div d
<1>1. q \in Int /\ r \in Int /\ s \in Int
  OBVIOUS
<1>2. d * q <= x /\ d * r <= y
  OBVIOUS
<1>3. x + y < d * s + d
  OBVIOUS
<1> HIDE DEF q, r, s
<1>4. d * (q + r) = d * q + d * r
  BY <1>1
<1>5. d * (q + r) < d * (s + 1)
  BY <1>1, <1>2, <1>3, <1>4
<1>6. q + r < s + 1
  BY <1>1, <1>5
<1> QED
  BY <1>1, <1>6 DEF q, r, s

LEMMA CostIsNatural ==
  ASSUME NEW n \in Nat, NEW p \in Nat
  PROVE  Cost(n, p) \in Nat
<1>1. n * p \in Nat /\ PricePrecision \in Nat \ {0}
  BY MarketAssumption
<1> DEFINE x == n * p
           d == PricePrecision
<1>2. x \in Nat /\ d \in Nat \ {0}
  BY <1>1
<1> HIDE DEF x, d
<1>3. x \div d \in Nat
  BY <1>2
<1> QED
  BY <1>3 DEF Cost, x, d

\* A part and the rest cost no more apart than together.
LEMMA CostOfParts ==
  ASSUME NEW n \in Nat, NEW m \in Nat, NEW p \in Nat
  PROVE  Cost(n, p) + Cost(m, p) <= Cost(n + m, p)
<1> DEFINE x == n * p
           y == m * p
<1>1. x \in Nat /\ y \in Nat /\ (n + m) * p = x + y
  OBVIOUS
<1>2. PricePrecision \in Nat \ {0}
  BY MarketAssumption
<1> HIDE DEF x, y
<1>3. x \div PricePrecision + y \div PricePrecision <= (x + y) \div PricePrecision
  BY <1>1, <1>2, FloorsAdd
<1> QED
  BY <1>1, <1>3 DEF Cost, x, y

LEMMA FeeIsNatural ==
  ASSUME FeeTypeOK, NEW cost \in Nat
  PROVE  Fee(cost) \in Nat
<1>1. cost * fee.bps \in Nat /\ BpsDenominator \in Nat \ {0}
  BY MarketAssumption DEF FeeTypeOK
<1> DEFINE x == cost * fee.bps
           d == BpsDenominator
<1>2. x \in Nat /\ d \in Nat \ {0}
  BY <1>1
<1> HIDE DEF x, d
<1>3. x \div d \in Nat
  BY <1>2
<1> QED
  BY <1>3 DEF Fee, x, d

--------------------------------------------------------------------------------
(***************************************************************************)
(* Transfers.                                                              *)
(***************************************************************************)

LEMMA PaidTyped ==
  ASSUME NEW w \in Wallets, NEW t \in Token, NEW from \in Account \cup {Market},
         NEW to \in Account \cup {Market}, NEW n \in Int
  PROVE  Paid(w, t, from, to, n) \in Wallets
<1> DEFINE b == w[t]
           c == [b EXCEPT ![from] = b[from] - n]
           d == [c EXCEPT ![to] = c[to] + n]
<1>1. b \in [Account \cup {Market} -> Int]
  BY DEF Wallets
<1>2. c \in [Account \cup {Market} -> Int]
  BY <1>1
<1>3. Paid(w, t, from, to, n) = [w EXCEPT ![t] = d]
  BY Zenon DEF Paid
<1> HIDE DEF c
<1>4. d \in [Account \cup {Market} -> Int]
  BY <1>2
<1> HIDE DEF d
<1>5. [w EXCEPT ![t] = d] \in Wallets
  BY <1>4 DEF Wallets
<1> QED
  BY <1>3, <1>5

\* The other tokens are left alone.
LEMMA PaidElsewhere ==
  ASSUME NEW w \in Wallets, NEW t \in Token, NEW from, NEW to, NEW n,
         NEW u \in Token, u # t
  PROVE  Paid(w, t, from, to, n)[u][Market] = w[u][Market]
<1> DEFINE b == w[t]
           c == [b EXCEPT ![from] = b[from] - n]
           d == [c EXCEPT ![to] = c[to] + n]
<1>1. Paid(w, t, from, to, n) = [w EXCEPT ![t] = d]
  BY Zenon DEF Paid
<1> HIDE DEF d
<1>2. [w EXCEPT ![t] = d][u] = w[u]
  BY DEF Wallets
<1> QED
  BY <1>1, <1>2

\* What the marketplace has of the token transferred.
LEMMA PaidToMarket ==
  ASSUME NEW w \in Wallets, NEW t \in Token, NEW from \in Account \cup {Market},
         NEW to \in Account \cup {Market}, NEW n \in Int
  PROVE  Paid(w, t, from, to, n)[t][Market]
           = w[t][Market] + (IF to = Market THEN n ELSE 0) - (IF from = Market THEN n ELSE 0)
<1> DEFINE b == w[t]
           c == [b EXCEPT ![from] = b[from] - n]
           d == [c EXCEPT ![to] = c[to] + n]
<1>1. b \in [Account \cup {Market} -> Int]
  BY DEF Wallets
<1>2. c \in [Account \cup {Market} -> Int]
  BY <1>1
<1>3. c[Market] = b[Market] - (IF from = Market THEN n ELSE 0)
  BY <1>1
<1>6. Paid(w, t, from, to, n) = [w EXCEPT ![t] = d]
  BY Zenon DEF Paid
<1> HIDE DEF c
<1>5. d[Market] = c[Market] + (IF to = Market THEN n ELSE 0)
  BY <1>2
<1>7. d[Market] = b[Market] + (IF to = Market THEN n ELSE 0) - (IF from = Market THEN n ELSE 0)
  <2>1. b[Market] \in Int /\ c[Market] \in Int
    BY <1>1, <1>2
  <2> QED
    BY <1>3, <1>5, <2>1
<1> HIDE DEF d
<1>9. [w EXCEPT ![t] = d][t] = d
  BY DEF Wallets
<1> QED
  BY <1>6, <1>7, <1>9

\* Paid by one account to another: nothing changes for the marketplace.
LEMMA PaidAmong ==
  ASSUME NEW w \in Wallets, NEW t \in Token, NEW from \in Account, NEW to \in Account,
         NEW n \in Int, NEW u \in Token
  PROVE  Paid(w, t, from, to, n)[u][Market] = w[u][Market]
<1>1. w[u][Market] \in Int
  BY DEF Wallets
<1>2. from # Market /\ to # Market /\ from \in Account \cup {Market} /\ to \in Account \cup {Market}
  BY MarketAssumption
<1>3. CASE u # t
  BY <1>2, <1>3, PaidElsewhere
<1>4. CASE u = t
  <2>1. Paid(w, t, from, to, n)[t][Market]
          = w[t][Market] + (IF to = Market THEN n ELSE 0) - (IF from = Market THEN n ELSE 0)
    BY <1>2, PaidToMarket
  <2> QED
    BY <1>1, <1>2, <1>4, <2>1
<1> QED
  BY <1>3, <1>4

\* Paid by an account to anyone: the marketplace loses nothing.
LEMMA PaidByAccount ==
  ASSUME NEW w \in Wallets, NEW t \in Token, NEW from \in Account,
         NEW to \in Account \cup {Market}, NEW n \in Nat, NEW u \in Token
  PROVE  Paid(w, t, from, to, n)[u][Market] >= w[u][Market]
<1>1. w[u][Market] \in Int
  BY DEF Wallets
<1>2. from # Market /\ from \in Account \cup {Market} /\ n \in Int
  BY MarketAssumption
<1>3. CASE u # t
  <2>1. Paid(w, t, from, to, n)[u][Market] = w[u][Market]
    BY <1>2, <1>3, PaidElsewhere
  <2> QED
    BY <1>1, <2>1
<1>4. CASE u = t
  <2>1. Paid(w, t, from, to, n)[t][Market]
          = w[t][Market] + (IF to = Market THEN n ELSE 0) - (IF from = Market THEN n ELSE 0)
    BY <1>2, PaidToMarket, ZenonT(30)
  <2>2. n >= 0
    OBVIOUS
  <2> QED
    BY <1>1, <1>2, <1>4, <2>1, <2>2
<1> QED
  BY <1>3, <1>4

\* Paid by the marketplace to anyone: it loses no more than that.
LEMMA PaidByMarket ==
  ASSUME NEW w \in Wallets, NEW t \in Token,
         NEW to \in Account \cup {Market}, NEW n \in Nat, NEW u \in Token
  PROVE  Paid(w, t, Market, to, n)[u][Market] >= w[u][Market] - (IF u = t THEN n ELSE 0)
<1>1. w[u][Market] \in Int
  BY DEF Wallets
<1>2. Market \in Account \cup {Market} /\ n \in Int
  OBVIOUS
<1>3. CASE u # t
  <2>1. Paid(w, t, Market, to, n)[u][Market] = w[u][Market]
    BY <1>2, <1>3, PaidElsewhere
  <2> QED
    BY <1>1, <1>3, <2>1
<1>4. CASE u = t
  <2>1. Paid(w, t, Market, to, n)[t][Market]
          = w[t][Market] + (IF to = Market THEN n ELSE 0) - (IF Market = Market THEN n ELSE 0)
    BY <1>2, PaidToMarket
  <2>2. n >= 0
    OBVIOUS
  <2> QED
    BY <1>1, <1>2, <1>4, <2>1, <2>2
<1> QED
  BY <1>3, <1>4

\* Paid by the marketplace to an account, a negative amount too.
LEMMA PaidOut ==
  ASSUME NEW w \in Wallets, NEW t \in Token, NEW to \in Account, NEW n \in Int, NEW u \in Token
  PROVE  Paid(w, t, Market, to, n)[u][Market] = w[u][Market] - (IF u = t THEN n ELSE 0)
<1>1. w[u][Market] \in Int
  BY DEF Wallets
<1>2. Market \in Account \cup {Market} /\ to # Market /\ to \in Account \cup {Market}
  BY MarketAssumption
<1>3. CASE u # t
  <2>1. Paid(w, t, Market, to, n)[u][Market] = w[u][Market]
    BY <1>2, <1>3, PaidElsewhere
  <2> QED
    BY <1>1, <1>3, <2>1
<1>4. CASE u = t
  <2>1. Paid(w, t, Market, to, n)[t][Market]
          = w[t][Market] + (IF to = Market THEN n ELSE 0) - (IF Market = Market THEN n ELSE 0)
    BY <1>2, PaidToMarket
  <2> QED
    BY <1>1, <1>2, <1>4, <2>1
<1> QED
  BY <1>3, <1>4

LEMMA TransferMade ==
  ASSUME NEW s, NEW t, Transferred(s, t).ok
  PROVE  s.ok /\ Transferred(s, t).wallets = Paid(s.wallets, t.token, t.from, t.to, t.n)
<1> DEFINE able == s.ok /\ CanPay(s.wallets, t.token, t.from, t.n)
<1>1. CASE able
  BY <1>1 DEF Transferred
<1>2. CASE ~able
  <2>1. Transferred(s, t).ok = FALSE
    BY <1>2 DEF Transferred
  <2> QED
    BY <2>1
<1> QED
  BY <1>1, <1>2

LEMMA SettledThrice ==
  ASSUME NEW w, NEW t1, NEW t2, NEW t3, Settled(w, <<t1, t2, t3>>).ok
  PROVE  \E w1, w2 : /\ w1 = Paid(w, t1.token, t1.from, t1.to, t1.n)
                     /\ w2 = Paid(w1, t2.token, t2.from, t2.to, t2.n)
                     /\ Settled(w, <<t1, t2, t3>>).wallets = Paid(w2, t3.token, t3.from, t3.to, t3.n)
<1> DEFINE s0 == [ok |-> TRUE, wallets |-> w]
           s1 == Transferred(s0, t1)
           s2 == Transferred(s1, t2)
           s3 == Transferred(s2, t3)
<1>0. s0.wallets = w
  OBVIOUS
<1>1. Settled(w, <<t1, t2, t3>>) = s3
  BY DEF Settled
<1> HIDE DEF s0
<1>2. s3.ok
  BY <1>1
<1> HIDE DEF s1, s2
<1>3. s2.ok /\ s3.wallets = Paid(s2.wallets, t3.token, t3.from, t3.to, t3.n)
  BY <1>2, TransferMade
<1> USE DEF s2
<1> HIDE DEF s3
<1>4. s1.ok /\ s2.wallets = Paid(s1.wallets, t2.token, t2.from, t2.to, t2.n)
  BY <1>3, TransferMade
<1> USE DEF s1
<1> HIDE DEF s2
<1>5. s1.wallets = Paid(s0.wallets, t1.token, t1.from, t1.to, t1.n)
  BY <1>4, TransferMade
<1> HIDE DEF s1
<1> QED
  BY <1>0, <1>1, <1>3, <1>4, <1>5

\* What a fill takes out of the escrow.
Pays(o, amount, token) ==
  IF o.side = "Sell" THEN (IF o.credits = token THEN amount ELSE 0)
                     ELSE (IF o.payment = token THEN Cost(amount, o.price) ELSE 0)

LEMMA SettledSpares ==
  ASSUME FeeTypeOK, NEW w \in Wallets, NEW o \in Orders, NEW taker \in Account,
         NEW amount \in Nat \ {0}, Settled(w, Settlement(o, taker, amount)).ok
  PROVE  LET v == Settled(w, Settlement(o, taker, amount)).wallets
         IN  /\ v \in Wallets
             /\ \A u \in Token : v[u][Market] >= w[u][Market] - Pays(o, amount, u)
<1> DEFINE cost == Cost(amount, o.price)
           toll == Fee(cost)
           v == Settled(w, Settlement(o, taker, amount)).wallets
<1>1. /\ o.maker \in Account /\ o.side \in {"Buy", "Sell"} /\ o.credits \in Token
      /\ o.payment \in Token /\ o.price \in Nat
  BY DEF Orders, Order
<1>2. cost \in Nat
  BY <1>1, CostIsNatural
<1>3. toll \in Nat
  BY <1>2, FeeIsNatural
<1>4. fee.recipient \in Account \cup {Market}
  BY DEF FeeTypeOK
<1>5. /\ taker \in Account \cup {Market} /\ o.maker \in Account \cup {Market}
      /\ Market \in Account \cup {Market} /\ toll \in Int /\ amount \in Int /\ amount \in Nat
  BY <1>1, <1>3
<1>6. \A x \in Wallets : \A u \in Token : x[u][Market] \in Int
  BY DEF Wallets
<1> DEFINE rest == cost - toll
<1>7. rest \in Int /\ rest + toll = cost
  BY <1>2, <1>3
<1>8. CASE o.side = "Sell"
  <2> DEFINE t1 == Transfer(o.payment, taker, o.maker, cost - Fee(cost))
             t2 == Transfer(o.payment, taker, fee.recipient, Fee(cost))
             t3 == Transfer(o.credits, Market, taker, amount)
  <2>1. Settlement(o, taker, amount) = <<t1, t2, t3>>
    BY <1>8 DEF Settlement
  <2>2. /\ t1.token = o.payment /\ t1.from = taker /\ t1.to = o.maker /\ t1.n = rest
        /\ t2.token = o.payment /\ t2.from = taker /\ t2.to = fee.recipient /\ t2.n = toll
        /\ t3.token = o.credits /\ t3.from = Market /\ t3.to = taker /\ t3.n = amount
    BY DEF Transfer
  <2> HIDE DEF t1, t2, t3
  <2>3. PICK w1, w2 : /\ w1 = Paid(w, o.payment, taker, o.maker, rest)
                      /\ w2 = Paid(w1, o.payment, taker, fee.recipient, toll)
                      /\ v = Paid(w2, o.credits, Market, taker, amount)
    BY <2>1, <2>2, SettledThrice
  <2> HIDE DEF cost, toll, rest, v
  <2>4. w1 \in Wallets
    BY <1>1, <1>5, <1>7, <2>3, PaidTyped
  <2>5. w2 \in Wallets
    BY <1>1, <1>4, <1>5, <2>3, <2>4, PaidTyped
  <2>6. v \in Wallets
    BY <1>1, <1>5, <2>3, <2>5, PaidTyped
  <2>7. ASSUME NEW u \in Token PROVE v[u][Market] >= w[u][Market] - Pays(o, amount, u)
    <3>1. w1[u][Market] = w[u][Market]
      BY <1>1, <1>7, <2>3, PaidAmong
    <3>2. w2[u][Market] >= w1[u][Market]
      BY <1>1, <1>3, <1>4, <2>3, <2>4, PaidByAccount
    <3>3. v[u][Market] = w2[u][Market] - (IF u = o.credits THEN amount ELSE 0)
      BY <1>1, <1>5, <2>3, <2>5, PaidOut
    <3>4. Pays(o, amount, u) = IF u = o.credits THEN amount ELSE 0
      BY <1>8 DEF Pays
    <3>5. w[u][Market] \in Int /\ w1[u][Market] \in Int /\ w2[u][Market] \in Int
      BY <1>6, <2>4, <2>5
    <3> QED
      BY <1>5, <3>1, <3>2, <3>3, <3>4, <3>5
  <2> QED
    BY <2>6, <2>7 DEF v
<1>9. CASE o.side = "Buy"
  <2> DEFINE t1 == Transfer(o.credits, taker, o.maker, amount)
             t2 == Transfer(o.payment, Market, taker, cost - Fee(cost))
             t3 == Transfer(o.payment, Market, fee.recipient, Fee(cost))
  <2>1. Settlement(o, taker, amount) = <<t1, t2, t3>>
    BY <1>9 DEF Settlement
  <2>2. /\ t1.token = o.credits /\ t1.from = taker /\ t1.to = o.maker /\ t1.n = amount
        /\ t2.token = o.payment /\ t2.from = Market /\ t2.to = taker /\ t2.n = rest
        /\ t3.token = o.payment /\ t3.from = Market /\ t3.to = fee.recipient /\ t3.n = toll
    BY DEF Transfer
  <2> HIDE DEF t1, t2, t3
  <2>3. PICK w1, w2 : /\ w1 = Paid(w, o.credits, taker, o.maker, amount)
                      /\ w2 = Paid(w1, o.payment, Market, taker, rest)
                      /\ v = Paid(w2, o.payment, Market, fee.recipient, toll)
    BY <2>1, <2>2, SettledThrice
  <2>4. \A u \in Token : Pays(o, amount, u) = IF u = o.payment THEN cost ELSE 0
    BY <1>9 DEF Pays
  <2> HIDE DEF cost, toll, rest, v
  <2>5. w1 \in Wallets
    BY <1>1, <1>5, <2>3, PaidTyped
  <2>6. w2 \in Wallets
    BY <1>1, <1>5, <1>7, <2>3, <2>5, PaidTyped
  <2>7. v \in Wallets
    BY <1>1, <1>4, <1>5, <2>3, <2>6, PaidTyped
  <2>8. ASSUME NEW u \in Token PROVE v[u][Market] >= w[u][Market] - Pays(o, amount, u)
    <3>1. w1[u][Market] = w[u][Market]
      BY <1>1, <1>5, <2>3, PaidAmong
    <3>2. w2[u][Market] = w1[u][Market] - (IF u = o.payment THEN rest ELSE 0)
      BY <1>1, <1>7, <2>3, <2>5, PaidOut
    <3>3. v[u][Market] >= w2[u][Market] - (IF u = o.payment THEN toll ELSE 0)
      BY <1>1, <1>3, <1>4, <2>3, <2>6, PaidByMarket, ZenonT(30)
    <3>4. /\ w[u][Market] \in Int /\ w1[u][Market] \in Int /\ w2[u][Market] \in Int
          /\ v[u][Market] \in Int
      BY <1>6, <2>5, <2>6, <2>7
    <3>5. CASE u = o.payment
      <4>1. Pays(o, amount, u) = cost
        BY <2>4, <3>5
      <4> QED
        BY <1>2, <1>3, <1>7, <3>1, <3>2, <3>3, <3>4, <3>5, <4>1
    <3>6. CASE u # o.payment
      <4>1. Pays(o, amount, u) = 0
        BY <2>4, <3>6
      <4> QED
        BY <3>1, <3>2, <3>3, <3>4, <3>6, <4>1
    <3> QED
      BY <3>5, <3>6
  <2> QED
    BY <2>7, <2>8 DEF v
<1> QED
  BY <1>1, <1>8, <1>9

--------------------------------------------------------------------------------
(***************************************************************************)
(* Claims.                                                                 *)
(***************************************************************************)

LEMMA ClaimOf ==
  ASSUME NEW o \in Orders, NEW u \in Token
  PROVE  Claim(o, u) = IF IsOpen(o)
                         THEN IF o.side = "Sell"
                                THEN IF o.credits = u THEN Remaining(o) ELSE 0
                                ELSE IF o.payment = u THEN Cost(Remaining(o), o.price) ELSE 0
                         ELSE 0
<1>1. o.side \in {"Buy", "Sell"}
  BY DEF Orders, Order
<1>2. CASE o.side = "Sell"
  BY <1>2 DEF Claim
<1>3. CASE o.side = "Buy"
  BY <1>3 DEF Claim
<1> QED
  BY <1>1, <1>2, <1>3

LEMMA ClaimIsNatural ==
  ASSUME NEW o \in Orders, NEW u \in Token
  PROVE  Claim(o, u) \in Nat
<1>1. /\ o.amount \in Nat /\ o.filled \in Nat /\ o.price \in Nat /\ o.filled <= o.amount
  BY DEF Orders, Order
<1>2. Remaining(o) \in Nat
  BY <1>1 DEF Remaining
<1>3. Cost(Remaining(o), o.price) \in Nat
  BY <1>1, <1>2, CostIsNatural
<1> QED
  BY <1>2, <1>3, ClaimOf

\* An order as a fill leaves it.
AfterFill(o, amount) ==
  [o EXCEPT !.filled = o.filled + amount,
            !.status = IF o.filled + amount = o.amount THEN "Filled" ELSE "PartiallyFilled"]

LEMMA AfterFillTyped ==
  ASSUME NEW o \in Orders, NEW amount \in Nat, amount <= Remaining(o)
  PROVE  /\ AfterFill(o, amount) \in Orders
         /\ AfterFill(o, amount).side = o.side
         /\ AfterFill(o, amount).credits = o.credits
         /\ AfterFill(o, amount).payment = o.payment
         /\ AfterFill(o, amount).price = o.price
         /\ AfterFill(o, amount).amount = o.amount
         /\ AfterFill(o, amount).maker = o.maker
         /\ AfterFill(o, amount).filled = o.filled + amount
         /\ AfterFill(o, amount).status
              = IF o.filled + amount = o.amount THEN "Filled" ELSE "PartiallyFilled"
<1> DEFINE n == o.filled + amount
           st == IF o.filled + amount = o.amount THEN "Filled" ELSE "PartiallyFilled"
           q == [o EXCEPT !.filled = n, !.status = st]
<1>1. o \in Order /\ o.amount \in Nat /\ o.filled \in Nat /\ o.filled <= o.amount
  BY DEF Orders, Order
<1>2. n \in Nat /\ n <= o.amount
  BY <1>1 DEF Remaining
<1>3. st \in {"Open", "PartiallyFilled", "Filled", "Cancelled"}
  OBVIOUS
<1>4. AfterFill(o, amount) = q
  BY DEF AfterFill
<1> HIDE DEF n, st
<1>5. q \in Order
  BY <1>1, <1>2, <1>3 DEF Order
<1>6. /\ q.side = o.side /\ q.credits = o.credits /\ q.payment = o.payment /\ q.price = o.price
      /\ q.amount = o.amount /\ q.maker = o.maker /\ q.filled = n /\ q.status = st
  BY <1>1 DEF Order
<1> HIDE DEF q
<1>7. q \in Orders
  BY <1>2, <1>5, <1>6 DEF Orders
<1> QED
  BY <1>4, <1>6, <1>7 DEF n, st

\* A fill gives up at least as much of the order's claim as it pays out.
LEMMA ClaimShrinks ==
  ASSUME NEW o \in Orders, IsOpen(o), NEW amount \in Nat, amount <= Remaining(o),
         NEW u \in Token
  PROVE  /\ Pays(o, amount, u) \in Nat
         /\ Claim(AfterFill(o, amount), u) <= Claim(o, u) - Pays(o, amount, u)
<1> DEFINE q == AfterFill(o, amount)
           r == Remaining(o)
           rest == r - amount
<1>1. /\ o.amount \in Nat /\ o.filled \in Nat /\ o.price \in Nat /\ o.filled <= o.amount
      /\ o.side \in {"Buy", "Sell"}
  BY DEF Orders, Order
<1>2. /\ q \in Orders /\ q.side = o.side /\ q.credits = o.credits /\ q.payment = o.payment
      /\ q.price = o.price /\ q.amount = o.amount /\ q.filled = o.filled + amount
      /\ q.status = IF o.filled + amount = o.amount THEN "Filled" ELSE "PartiallyFilled"
  BY AfterFillTyped
<1> HIDE DEF q
<1>3. r \in Nat /\ rest \in Nat /\ Remaining(q) = rest /\ r = amount + rest
  BY <1>1, <1>2 DEF Remaining
<1>4. ~IsOpen(q) => rest = 0
  BY <1>1, <1>2 DEF IsOpen, Remaining
<1> DEFINE whole == Cost(r, o.price)
           part == Cost(amount, o.price)
           left == Cost(rest, o.price)
<1> HIDE DEF rest
<1>5. whole \in Nat /\ part \in Nat /\ left \in Nat
  <2>1. whole \in Nat
    BY <1>1, <1>3, CostIsNatural
  <2>2. part \in Nat
    BY <1>1, CostIsNatural
  <2>3. left \in Nat
    BY <1>1, <1>3, CostIsNatural
  <2> QED
    BY <2>1, <2>2, <2>3
<1>6. part + left <= whole
  BY <1>1, <1>3, CostOfParts
<1>7. Pays(o, amount, u) = IF o.side = "Sell" THEN (IF o.credits = u THEN amount ELSE 0)
                                              ELSE (IF o.payment = u THEN part ELSE 0)
  BY DEF Pays
<1>8. Claim(o, u) = IF o.side = "Sell" THEN (IF o.credits = u THEN r ELSE 0)
                                       ELSE (IF o.payment = u THEN whole ELSE 0)
  BY ClaimOf
<1>9. Claim(q, u) = IF IsOpen(q)
                      THEN IF o.side = "Sell" THEN (IF o.credits = u THEN rest ELSE 0)
                                              ELSE (IF o.payment = u THEN left ELSE 0)
                      ELSE 0
  BY <1>2, <1>3, ClaimOf
<1> HIDE DEF whole, part, left, r
<1>10. Claim(q, u) <= Claim(o, u) - Pays(o, amount, u)
  BY <1>3, <1>5, <1>6, <1>7, <1>8, <1>9
<1> QED
  BY <1>5, <1>7, <1>10 DEF q

\* The claims add up to an integer.
LEMMA ClaimsTotal ==
  ASSUME NEW os \in Seq(Orders), NEW u \in Token
  PROVE  SumFunction(Claims(os, u)) \in Int
<1> DEFINE S == DOMAIN os
           f == Claims(os, u)
<1>1. IsFiniteSet(S) /\ \A i \in S : os[i] \in Orders
  <2>1. os \in [1 .. Len(os) -> Orders] /\ S = 1 .. Len(os) /\ Len(os) \in Nat
    OBVIOUS
  <2> QED
    BY <2>1, FS_Interval
<1>2. \A i \in S : Claim(os[i], u) \in Int
  BY <1>1, ClaimIsNatural
<1>3. DOMAIN f = S /\ \A i \in S : f[i] \in Int
  BY <1>2 DEF Claims
<1> HIDE DEF f, S
<1>4. SumFunctionOnSet(f, S) \in Int
  BY <1>1, <1>3, SumProperties
<1> QED
  BY <1>3, <1>4 DEF SumFunction, f

\* The sum of the claims when one order changes.
LEMMA OneClaimChanges ==
  ASSUME NEW os \in Seq(Orders), NEW id \in DOMAIN os, NEW q \in Orders, NEW u \in Token
  PROVE  /\ SumFunction(Claims(os, u)) \in Int
         /\ SumFunction(Claims([os EXCEPT ![id] = q], u))
              = SumFunction(Claims(os, u)) + Claim(q, u) - Claim(os[id], u)
<1> DEFINE S == DOMAIN os
           f == Claims(os, u)
           h == Claims([os EXCEPT ![id] = q], u)
           v == Claim(q, u)
<1>1. IsFiniteSet(S) /\ \A i \in S : os[i] \in Orders
  <2>1. os \in [1 .. Len(os) -> Orders] /\ S = 1 .. Len(os) /\ Len(os) \in Nat
    OBVIOUS
  <2> QED
    BY <2>1, FS_Interval
<1>2. \A i \in S : Claim(os[i], u) \in Int
  BY <1>1, ClaimIsNatural
<1>3. f \in [S -> Int]
  BY <1>2 DEF Claims
<1>4. v \in Int
  BY ClaimIsNatural
<1>5. h = [f EXCEPT ![id] = v]
  BY DEF Claims
<1>6. f[id] = Claim(os[id], u)
  BY DEF Claims
<1>7. DOMAIN f = S
  BY <1>3
<1> HIDE DEF f, h, v, S
<1>8. SumFunctionOnSet(f, S) \in Int
  BY <1>1, <1>3, SumProperties
<1>9. id \in S
  BY DEF S
<1>10. SumFunction([f EXCEPT ![id] = v]) = SumFunction(f) + v - f[id]
  BY <1>1, <1>3, <1>4, <1>9, SumUpdate
<1> QED
  BY <1>5, <1>6, <1>7, <1>8, <1>10 DEF SumFunction, f, h, v

\* The sum of the claims with one order more.
LEMMA OneClaimMore ==
  ASSUME NEW os \in Seq(Orders), NEW q \in Orders, NEW u \in Token
  PROVE  /\ SumFunction(Claims(os, u)) \in Int
         /\ SumFunction(Claims(Append(os, q), u)) = SumFunction(Claims(os, u)) + Claim(q, u)
<1> DEFINE n == Len(os) + 1
           S == 1 .. Len(os)
           f == Claims(os, u)
           h == Claims(Append(os, q), u)
<1>1. /\ Len(os) \in Nat /\ IsFiniteSet(S) /\ n \notin S /\ DOMAIN os = S
      /\ DOMAIN Append(os, q) = S \cup {n} /\ \A i \in S : os[i] \in Orders /\ Append(os, q)[i] = os[i]
      /\ Append(os, q)[n] = q
  <2>1. Len(os) \in Nat /\ n \notin S /\ DOMAIN os = S /\ \A i \in S : os[i] \in Orders
    OBVIOUS
  <2>2. IsFiniteSet(S)
    BY <2>1, FS_Interval
  <2>3. DOMAIN Append(os, q) = 1 .. n /\ Append(os, q)[n] = q
    OBVIOUS
  <2>4. \A i \in S : Append(os, q)[i] = os[i]
    OBVIOUS
  <2>5. 1 .. n = S \cup {n}
    BY <2>1
  <2> HIDE DEF n, S
  <2> QED
    BY <2>1, <2>2, <2>3, <2>4, <2>5
<1>2. \A i \in S : Claim(os[i], u) \in Int
  BY <1>1, ClaimIsNatural
<1>3. Claim(q, u) \in Int
  BY ClaimIsNatural
<1>4. \A i \in S : f[i] \in Int /\ h[i] = f[i]
  BY <1>1, <1>2 DEF Claims
<1>5. h[n] = Claim(q, u)
  BY <1>1 DEF Claims
<1>6. DOMAIN f = S /\ DOMAIN h = S \cup {n}
  BY <1>1 DEF Claims
<1> HIDE DEF f, h, n, S
<1>7. SumFunctionOnSet(f, S) \in Int
  BY <1>1, <1>4, SumProperties
<1>8. SumFunctionOnSet(h, S) = SumFunctionOnSet(f, S)
  BY <1>1, <1>4, SumAgrees
<1>9. \A i \in S \cup {n} : h[i] \in Int
  BY <1>3, <1>4, <1>5
<1>10. SumFunctionOnSet(h, S \cup {n}) = h[n] + SumFunctionOnSet(h, S)
  BY <1>1, <1>9, SumInsert
<1>11. SumFunction(f) = SumFunctionOnSet(f, S) /\ SumFunction(h) = SumFunctionOnSet(h, S \cup {n})
  BY <1>6 DEF SumFunction
<1> QED
  BY <1>3, <1>5, <1>7, <1>8, <1>10, <1>11 DEF f, h

--------------------------------------------------------------------------------
(***************************************************************************)
(* Fills and batches.                                                      *)
(***************************************************************************)

\* An order keeps its terms, loses nothing filled, and is final once closed.
Grown(o, q) ==
  /\ q.maker = o.maker /\ q.side = o.side /\ q.credits = o.credits
  /\ q.payment = o.payment /\ q.amount = o.amount /\ q.price = o.price
  /\ q.filled >= o.filled
  /\ ~IsOpen(o) => q = o

Kept(os, qs) ==
  /\ DOMAIN os \subseteq DOMAIN qs
  /\ \A id \in DOMAIN os : Grown(os[id], qs[id])

LEMMA KeptSame ==
  ASSUME NEW os \in Seq(Orders)
  PROVE  Kept(os, os)
<1>1. \A id \in DOMAIN os : os[id].filled \in Nat
  BY DEF Orders, Order
<1> QED
  BY <1>1 DEF Kept, Grown

LEMMA KeptTwice ==
  ASSUME NEW os \in Seq(Orders), NEW ps \in Seq(Orders), NEW qs \in Seq(Orders),
         Kept(os, ps), Kept(ps, qs)
  PROVE  Kept(os, qs)
<1> SUFFICES ASSUME NEW id \in DOMAIN os PROVE id \in DOMAIN qs /\ Grown(os[id], qs[id])
  BY DEF Kept
<1> DEFINE o == os[id]
           p == ps[id]
           q == qs[id]
<1>1. id \in DOMAIN ps /\ id \in DOMAIN qs /\ Grown(o, p) /\ Grown(p, q)
  BY DEF Kept
<1>2. o \in Orders /\ p \in Orders /\ q \in Orders
  BY <1>1
<1> HIDE DEF o, p, q
<1>3. o.filled \in Nat /\ p.filled \in Nat /\ q.filled \in Nat
  BY <1>2 DEF Orders, Order
<1>4. q.filled >= o.filled
  BY <1>1, <1>3 DEF Grown
<1>5. ~IsOpen(o) => q = o
  BY <1>1 DEF Grown
<1>6. Grown(o, q)
  BY <1>1, <1>4, <1>5 DEF Grown
<1> QED
  BY <1>1, <1>6 DEF o, q

\* One order of the book is replaced by one it may become.
LEMMA KeptWithOne ==
  ASSUME NEW os \in Seq(Orders), NEW id \in DOMAIN os, NEW q \in Orders, Grown(os[id], q)
  PROVE  [os EXCEPT ![id] = q] \in Seq(Orders) /\ Kept(os, [os EXCEPT ![id] = q])
<1> DEFINE qs == [os EXCEPT ![id] = q]
<1>1. qs \in Seq(Orders) /\ DOMAIN qs = DOMAIN os
  OBVIOUS
<1>2. qs[id] = q /\ \A i \in DOMAIN os : i # id => qs[i] = os[i]
  OBVIOUS
<1> HIDE DEF qs
<1>3. Kept(os, os)
  BY KeptSame
<1>4. Kept(os, qs)
  BY <1>1, <1>2, <1>3 DEF Kept
<1> QED
  BY <1>1, <1>4 DEF qs

\* A fill that is made keeps the escrow sufficient and the orders' histories.
LEMMA FilledSpares ==
  ASSUME FeeTypeOK, NEW x, x.ok => Covered(x.book.held, x.book.orders),
         NEW taker \in Account, NEW id, NEW n \in Int, Filled(x, taker, id, n).ok
  PROVE  /\ x.ok
         /\ Covered(Filled(x, taker, id, n).book.held, Filled(x, taker, id, n).book.orders)
         /\ Kept(x.book.orders, Filled(x, taker, id, n).book.orders)
<1> DEFINE y == Filled(x, taker, id, n)
           w == x.book.held
           os == x.book.orders
           o == os[id]
           s == Settled(w, Settlement(o, taker, n))
           q == AfterFill(o, n)
           qs == [os EXCEPT ![id] = q]
<1>1. x.ok /\ FillableBy(x.book, id, n)
  <2> SUFFICES ASSUME ~(x.ok /\ FillableBy(x.book, id, n)) PROVE FALSE
    OBVIOUS
  <2>1. y = [ok |-> FALSE, book |-> x.book]
    BY DEF Filled
  <2>2. ~y.ok
    BY <2>1
  <2> QED
    BY <2>2
<1>2. /\ w \in Wallets /\ os \in Seq(Orders)
      /\ \A t \in Token : w[t][Market] >= SumFunction(Claims(os, t))
  BY <1>1 DEF Covered
<1>3. id \in DOMAIN os /\ o \in Orders /\ IsOpen(o) /\ n <= Remaining(o) /\ n \in Nat \ {0}
  BY <1>1, <1>2 DEF FillableBy
<1>4. y.ok = s.ok /\ y.book.held = s.wallets
  BY <1>1 DEF Filled
<1>5. y.book.orders = qs
  BY <1>1 DEF Filled, AfterFill
<1>6. n \in Nat
  BY <1>3
<1>7. q \in Orders
  BY <1>3, <1>6, AfterFillTyped
<1>8. Grown(o, q)
  <2>1. /\ q.side = o.side /\ q.credits = o.credits /\ q.payment = o.payment
        /\ q.price = o.price /\ q.amount = o.amount /\ q.maker = o.maker
        /\ q.filled = o.filled + n
    BY <1>3, <1>6, AfterFillTyped
  <2>2. o.filled \in Nat
    BY <1>3 DEF Orders, Order
  <2> QED
    BY <1>3, <1>6, <2>1, <2>2 DEF Grown
<1>9. s.wallets \in Wallets
  BY <1>2, <1>3, <1>4, SettledSpares
<1>10. \A u \in Token : s.wallets[u][Market] >= w[u][Market] - Pays(o, n, u)
  BY <1>2, <1>3, <1>4, SettledSpares
<1> HIDE DEF s, q, y
<1>11. qs \in Seq(Orders) /\ Kept(os, qs)
  BY <1>2, <1>3, <1>7, <1>8, KeptWithOne
<1>12. ASSUME NEW u \in Token
       PROVE  s.wallets[u][Market] >= SumFunction(Claims(qs, u))
  <2>1. SumFunction(Claims(os, u)) \in Int
    BY <1>2, <1>3, <1>7, OneClaimChanges
  <2>2. SumFunction(Claims(qs, u)) = SumFunction(Claims(os, u)) + Claim(q, u) - Claim(o, u)
    BY <1>2, <1>3, <1>7, OneClaimChanges
  <2>3. Pays(o, n, u) \in Nat
    BY <1>3, <1>6, ClaimShrinks
  <2>4. Claim(q, u) <= Claim(o, u) - Pays(o, n, u)
    BY <1>3, <1>6, ClaimShrinks DEF q
  <2>5. Claim(o, u) \in Nat
    BY <1>3, ClaimIsNatural
  <2>6. Claim(q, u) \in Nat
    BY <1>7, ClaimIsNatural
  <2>7. w[u][Market] \in Int /\ s.wallets[u][Market] \in Int
    BY <1>2, <1>9 DEF Wallets
  <2>8. w[u][Market] >= SumFunction(Claims(os, u)) /\ s.wallets[u][Market] >= w[u][Market] - Pays(o, n, u)
    BY <1>2, <1>10
  <2> HIDE DEF qs, o, w, os
  <2> QED
    BY <2>1, <2>2, <2>3, <2>4, <2>5, <2>6, <2>7, <2>8
<1>13. Covered(s.wallets, qs)
  BY <1>9, <1>11, <1>12 DEF Covered
<1> QED
  BY <1>1, <1>4, <1>5, <1>11, <1>13 DEF y

\* The outcomes of a batch follow one another, from the book as it is.
LEMMA OutcomesFollow ==
  ASSUME NEW taker, NEW fills, Len(fills) \in Nat
  PROVE  LET a == Outcomes(taker, fills)
         IN  /\ a[0] = [ok |-> TRUE, book |-> Book]
             /\ \A i \in 1 .. Len(fills) :
                  a[i] = Filled(a[i - 1], taker, fills[i].id, fills[i].amount)
<1> DEFINE L == Len(fills)
           start == [ok |-> TRUE, book |-> Book]
           Next1(prev, i) == Filled(prev, taker, fills[i].id, fills[i].amount)
           Unfold(g) == [i \in 0 .. L |-> IF i = 0 THEN start ELSE Next1(g[i - 1], i)]
           Good(g, n) == g[0] = start /\ \A i \in 1 .. n : g[i] = Next1(g[i - 1], i)
           N == {n \in Nat : \E g : Good(g, n)}
           a == CHOOSE g : g = Unfold(g)
<1>1. Outcomes(taker, fills) = a
  BY DEF Outcomes
<1>2. 0 \in N
  <2> DEFINE g == [i \in {0} |-> start]
  <2> HIDE DEF start
  <2>1. g[0] = start
    OBVIOUS
  <2>2. Good(g, 0)
    BY <2>1
  <2> QED
    BY <2>2
<1>3. ASSUME NEW n \in Nat, n \in N PROVE n + 1 \in N
  <2> HIDE DEF start, Next1
  <2>1. PICK g : Good(g, n)
    BY <1>3
  <2> DEFINE h == [i \in 0 .. n + 1 |-> IF i = n + 1 THEN Next1(g[n], n + 1) ELSE g[i]]
  <2>2. \A i \in 0 .. n : h[i] = g[i]
    OBVIOUS
  <2>3. h[n + 1] = Next1(g[n], n + 1)
    OBVIOUS
  <2> HIDE DEF h
  <2>4. h[0] = start
    BY <2>1, <2>2
  <2>5. \A i \in 1 .. n + 1 : h[i] = Next1(h[i - 1], i)
    <3> TAKE i \in 1 .. n + 1
    <3>1. CASE i = n + 1
      <4>1. (n + 1) - 1 = n /\ h[n] = g[n]
        BY <2>2
      <4> QED
        BY <2>3, <3>1, <4>1
    <3>2. CASE i # n + 1
      <4>1. i \in 1 .. n /\ i \in 0 .. n /\ i - 1 \in 0 .. n
        BY <3>2
      <4>2. h[i] = g[i] /\ h[i - 1] = g[i - 1]
        BY <2>2, <4>1
      <4>3. g[i] = Next1(g[i - 1], i)
        BY <2>1, <4>1
      <4> QED
        BY <4>2, <4>3
    <3> QED
      BY <3>1, <3>2
  <2>6. Good(h, n + 1)
    BY <2>4, <2>5
  <2> QED
    BY <2>6
<1>4. L \in N
  <2> HIDE DEF N, L
  <2>1. L \in Nat
    BY DEF L
  <2> QED
    BY <1>2, <1>3, <2>1, InductionOnNat
<1>5. PICK g : Good(g, L)
  BY <1>4
<1> DEFINE h == [i \in 0 .. L |-> g[i]]
<1> HIDE DEF start, Next1
<1>6. \A i \in 0 .. L : h[i] = IF i = 0 THEN start ELSE Next1(h[i - 1], i)
  <2> TAKE i \in 0 .. L
  <2>1. L \in Nat
    OBVIOUS
  <2> HIDE DEF L
  <2>2. CASE i = 0
    BY <1>5, <2>1, <2>2
  <2>3. CASE i # 0
    <3>1. i \in 1 .. L /\ i - 1 \in 0 .. L
      BY <2>1, <2>3
    <3>2. h[i] = g[i] /\ h[i - 1] = g[i - 1]
      BY <3>1
    <3> QED
      BY <1>5, <2>3, <3>1, <3>2
  <2> QED
    BY <2>2, <2>3
<1>7. h = Unfold(h)
  <2> DEFINE u == Unfold(h)
  <2>1. \A i \in 0 .. L : u[i] = IF i = 0 THEN start ELSE Next1(h[i - 1], i)
    OBVIOUS
  <2>2. \A i \in 0 .. L : u[i] = h[i]
    BY <1>6, <2>1
  <2>3. u = [i \in 0 .. L |-> u[i]]
    OBVIOUS
  <2> HIDE DEF u
  <2>4. u = h
    BY <2>2, <2>3
  <2> QED
    BY <2>4 DEF u
<1> HIDE DEF h
<1>8. a = Unfold(a)
  BY <1>7
<1> HIDE DEF a
<1>9. a[0] = start
  BY <1>8
<1>10. \A i \in 1 .. L : a[i] = Next1(a[i - 1], i)
  <2> TAKE i \in 1 .. L
  <2>1. i \in 0 .. L /\ i # 0
    OBVIOUS
  <2>2. Unfold(a)[i] = Next1(a[i - 1], i)
    BY <2>1
  <2> HIDE DEF Unfold
  <2> QED
    BY <1>8, <2>2
<1> QED
  BY <1>1, <1>9, <1>10 DEF start, Next1

Fillable(fills) == Len(fills) \in Nat /\ \A i \in 1 .. Len(fills) : fills[i].amount \in Int

\* A batch that is made keeps what each of its fills keeps.
LEMMA BatchSpares ==
  ASSUME FeeTypeOK, Covered(held, orders), NEW taker \in Account, NEW fills, Fillable(fills),
         Outcomes(taker, fills)[Len(fills)].ok
  PROVE  LET outcome == Outcomes(taker, fills)[Len(fills)]
         IN  Covered(outcome.book.held, outcome.book.orders) /\ Kept(orders, outcome.book.orders)
<1> DEFINE L == Len(fills)
           a == Outcomes(taker, fills)
           Spares(x) == x.ok => Covered(x.book.held, x.book.orders) /\ Kept(orders, x.book.orders)
           G == {n \in Nat : n <= L => Spares(a[n])}
<1>1. L \in Nat /\ \A i \in 1 .. L : fills[i].amount \in Int
  BY DEF Fillable
<1>2. /\ a[0] = [ok |-> TRUE, book |-> Book]
      /\ \A i \in 1 .. L : a[i] = Filled(a[i - 1], taker, fills[i].id, fills[i].amount)
  BY <1>1, OutcomesFollow
<1>3. orders \in Seq(Orders)
  BY DEF Covered
<1> HIDE DEF a, L
<1>4. 0 \in G
  <2>1. a[0].book.held = held /\ a[0].book.orders = orders
    BY <1>2 DEF Book
  <2>2. Kept(orders, orders)
    BY <1>3, KeptSame
  <2>3. Spares(a[0])
    BY <2>1, <2>2
  <2> QED
    BY <2>3
<1>5. ASSUME NEW n \in Nat, n \in G PROVE n + 1 \in G
  <2> SUFFICES ASSUME n + 1 <= L, a[n + 1].ok
               PROVE  /\ Covered(a[n + 1].book.held, a[n + 1].book.orders)
                      /\ Kept(orders, a[n + 1].book.orders)
    OBVIOUS
  <2>1. n + 1 \in 1 .. L /\ (n + 1) - 1 = n /\ n <= L
    BY <1>1
  <2> DEFINE id == fills[n + 1].id
             m == fills[n + 1].amount
             x == a[n]
             y == a[n + 1]
  <2>2. y = Filled(x, taker, id, m) /\ m \in Int
    BY <1>1, <1>2, <2>1
  <2>3. Spares(x)
    BY <1>5, <2>1
  <2>4. y.ok
    OBVIOUS
  <2> HIDE DEF x, y, id, m
  <2>5. x.ok => Covered(x.book.held, x.book.orders)
    BY <2>3
  <2>6. x.ok /\ Covered(y.book.held, y.book.orders) /\ Kept(x.book.orders, y.book.orders)
    BY <2>2, <2>4, <2>5, FilledSpares
  <2>7. Kept(orders, x.book.orders)
    BY <2>3, <2>6
  <2>8. x.book.orders \in Seq(Orders) /\ y.book.orders \in Seq(Orders)
    BY <2>5, <2>6 DEF Covered
  <2>9. Kept(orders, y.book.orders)
    BY <1>3, <2>6, <2>7, <2>8, KeptTwice
  <2> QED
    BY <2>6, <2>9 DEF y
<1>6. L \in G
  <2> HIDE DEF G
  <2> QED
    BY <1>1, <1>4, <1>5, InductionOnNat
<1>7. Spares(a[L])
  BY <1>1, <1>6
<1> QED
  BY <1>7 DEF a, L

--------------------------------------------------------------------------------
(***************************************************************************)
(* The calls.                                                              *)
(***************************************************************************)

EscrowIInv == FeeTypeOK /\ Covered(held, orders)

\* What every call keeps.
Step == EscrowIInv' /\ Kept(orders, orders')

LEMMA CreateSpares ==
  ASSUME EscrowIInv, NEW o \in Order, NEW t \in Token, NEW n \in Nat, o.filled = 0,
         \A u \in Token : Claim(o, u) <= (IF u = t THEN n ELSE 0),
         Create(o, t, n)
  PROVE  Step
<1> DEFINE w == Paid(held, t, o.maker, Market, n)
           qs == Append(orders, o)
<1>1. held' = w /\ orders' = qs /\ fee' = fee
  BY DEF Create
<1>2. /\ held \in Wallets /\ orders \in Seq(Orders) /\ FeeTypeOK
      /\ \A u \in Token : held[u][Market] >= SumFunction(Claims(orders, u))
  BY DEF EscrowIInv, Covered
<1>3. /\ o \in Orders /\ o.maker \in Account /\ o.maker \in Account \cup {Market}
      /\ Market \in Account \cup {Market} /\ n \in Int /\ o.maker # Market
  BY MarketAssumption DEF Orders, Order
<1>4. w \in Wallets
  BY <1>2, <1>3, PaidTyped
<1>5. qs \in Seq(Orders)
  BY <1>2, <1>3
<1>6. Kept(orders, qs)
  <2>1. /\ DOMAIN orders \subseteq DOMAIN qs
        /\ \A id \in DOMAIN orders : qs[id] = orders[id]
    BY <1>2
  <2>2. Kept(orders, orders)
    BY <1>2, KeptSame
  <2> HIDE DEF qs
  <2> QED
    BY <2>1, <2>2 DEF Kept
<1>7. ASSUME NEW u \in Token PROVE w[u][Market] >= SumFunction(Claims(qs, u))
  <2>1. w[u][Market] = held[u][Market] + (IF u = t THEN n ELSE 0)
    <3>1. held[u][Market] \in Int
      BY <1>2 DEF Wallets
    <3>2. CASE u = t
      <4>1. Paid(held, t, o.maker, Market, n)[t][Market]
              = held[t][Market] + (IF Market = Market THEN n ELSE 0)
                                - (IF o.maker = Market THEN n ELSE 0)
        BY <1>2, <1>3, PaidToMarket, ZenonT(30)
      <4> QED
        BY <1>3, <3>1, <3>2, <4>1
    <3>3. CASE u # t
      <4>1. w[u][Market] = held[u][Market]
        BY <1>2, <3>3, PaidElsewhere
      <4> HIDE DEF w
      <4> QED
        BY <3>1, <3>3, <4>1
    <3> QED
      BY <3>2, <3>3
  <2>2. SumFunction(Claims(orders, u)) \in Int
    BY <1>2, <1>3, OneClaimMore
  <2>3. SumFunction(Claims(qs, u)) = SumFunction(Claims(orders, u)) + Claim(o, u)
    BY <1>2, <1>3, OneClaimMore
  <2>4. Claim(o, u) \in Nat
    BY <1>3, ClaimIsNatural
  <2>5. held[u][Market] \in Int /\ held[u][Market] >= SumFunction(Claims(orders, u))
    BY <1>2 DEF Wallets
  <2>6. Claim(o, u) <= (IF u = t THEN n ELSE 0)
    OBVIOUS
  <2> HIDE DEF w, qs
  <2> QED
    BY <1>3, <2>1, <2>2, <2>3, <2>4, <2>5, <2>6
<1> HIDE DEF w, qs
<1>8. Covered(w, qs)
  BY <1>4, <1>5, <1>7 DEF Covered
<1>9. FeeTypeOK'
  BY <1>1, <1>2 DEF FeeTypeOK
<1>10. Covered(held, orders)'
  BY <1>1, <1>8
<1> QED
  BY <1>1, <1>6, <1>9, <1>10 DEF Step, EscrowIInv

LEMMA NewOrderTyped ==
  ASSUME NEW maker \in Account, NEW side \in {"Buy", "Sell"}, NEW credits \in Token,
         NEW payment \in Token, NEW amount \in Nat \ {0}, NEW price \in Nat \ {0}
  PROVE  LET o == NewOrder(maker, side, credits, payment, amount, price)
         IN  /\ o \in Order /\ o \in Orders /\ o.filled = 0 /\ Remaining(o) = amount
             /\ o.side = side /\ o.credits = credits /\ o.payment = payment
             /\ o.price = price /\ o.amount = amount /\ o.maker = maker
<1> DEFINE o == NewOrder(maker, side, credits, payment, amount, price)
<1>1. o \in Order
  BY DEF NewOrder, Order
<1>2. /\ o.filled = 0 /\ o.side = side /\ o.credits = credits /\ o.payment = payment
      /\ o.price = price /\ o.amount = amount /\ o.maker = maker
  BY DEF NewOrder
<1> HIDE DEF o
<1>3. o \in Orders /\ Remaining(o) = amount
  BY <1>1, <1>2 DEF Orders, Remaining
<1> QED
  BY <1>1, <1>2, <1>3 DEF o

LEMMA CreateSellSpares ==
  ASSUME EscrowIInv, NEW maker \in Account, NEW credits \in Token, NEW payment \in Token,
         NEW amount \in Int, NEW price \in Int,
         CreateSellOrder(maker, credits, payment, amount, price)
  PROVE  Step
<1> DEFINE o == NewOrder(maker, "Sell", credits, payment, amount, price)
<1>1. Create(o, credits, amount)
  BY DEF CreateSellOrder
<1>2. o.amount = amount /\ o.price = price
  BY DEF NewOrder
<1>3. amount \in Nat \ {0} /\ price \in Nat \ {0}
  BY <1>1, <1>2 DEF Create
<1>4. /\ o \in Order /\ o \in Orders /\ o.filled = 0 /\ Remaining(o) = amount
      /\ o.side = "Sell" /\ o.credits = credits
  BY <1>3, NewOrderTyped
<1> HIDE DEF o
<1>5. \A u \in Token : Claim(o, u) <= (IF u = credits THEN amount ELSE 0)
  <2> TAKE u \in Token
  <2>1. Claim(o, u) = IF IsOpen(o) THEN IF credits = u THEN amount ELSE 0 ELSE 0
    BY <1>4, ClaimOf
  <2> QED
    BY <1>3, <2>1
<1>6. amount \in Nat
  BY <1>3
<1> QED
  BY <1>1, <1>4, <1>5, <1>6, CreateSpares

LEMMA CreateBuySpares ==
  ASSUME EscrowIInv, NEW maker \in Account, NEW credits \in Token, NEW payment \in Token,
         NEW amount \in Int, NEW price \in Int,
         CreateBuyOrder(maker, credits, payment, amount, price)
  PROVE  Step
<1> DEFINE o == NewOrder(maker, "Buy", credits, payment, amount, price)
           cost == Cost(amount, price)
<1>1. Create(o, payment, cost)
  BY DEF CreateBuyOrder
<1>2. o.amount = amount /\ o.price = price
  BY DEF NewOrder
<1>3. amount \in Nat \ {0} /\ price \in Nat \ {0} /\ amount \in Nat /\ price \in Nat
  BY <1>1, <1>2 DEF Create
<1>4. /\ o \in Order /\ o \in Orders /\ o.filled = 0 /\ Remaining(o) = amount
      /\ o.side = "Buy" /\ o.payment = payment /\ o.price = price
  BY <1>3, NewOrderTyped
<1>5. cost \in Nat
  BY <1>3, CostIsNatural
<1>6. \A u \in Token : Claim(o, u) <= (IF u = payment THEN cost ELSE 0)
  <2> TAKE u \in Token
  <2> HIDE DEF o
  <2>1. Claim(o, u) = IF IsOpen(o) THEN IF payment = u THEN cost ELSE 0 ELSE 0
    BY <1>4, ClaimOf
  <2> HIDE DEF cost
  <2> QED
    BY <1>5, <2>1
<1> HIDE DEF o, cost
<1> QED
  BY <1>1, <1>4, <1>5, <1>6, CreateSpares

LEMMA FillSpares ==
  ASSUME EscrowIInv, NEW taker \in Account, NEW fills, Fillable(fills), Fill(taker, fills)
  PROVE  Step
<1> DEFINE outcome == Outcomes(taker, fills)[Len(fills)]
<1>1. /\ outcome.ok /\ held' = outcome.book.held /\ orders' = outcome.book.orders
      /\ fee' = fee
  BY DEF Fill
<1>2. FeeTypeOK /\ Covered(held, orders)
  BY DEF EscrowIInv
<1>3. Covered(outcome.book.held, outcome.book.orders) /\ Kept(orders, outcome.book.orders)
  BY <1>1, <1>2, BatchSpares
<1> HIDE DEF outcome
<1>4. FeeTypeOK'
  BY <1>1, <1>2 DEF FeeTypeOK
<1>5. Covered(held, orders)'
  BY <1>1, <1>3
<1> QED
  BY <1>1, <1>3, <1>4, <1>5 DEF Step, EscrowIInv

LEMMA CancelSpares ==
  ASSUME EscrowIInv, NEW maker \in Account, NEW id, CancelOrder(maker, id)
  PROVE  Step
<1> DEFINE o == orders[id]
           t == Refund(o).token
           n == Refund(o).n
           w == Paid(held, t, Market, maker, n)
           q == [o EXCEPT !.status = "Cancelled"]
           qs == [orders EXCEPT ![id] = q]
<1>1. /\ id \in DOMAIN orders /\ o.maker = maker /\ IsOpen(o) /\ held' = w
      /\ fee' = fee /\ n > 0
  BY DEF CancelOrder
<1>2. orders' = qs
  BY Zenon DEF CancelOrder
<1>3. /\ held \in Wallets /\ orders \in Seq(Orders) /\ FeeTypeOK
      /\ \A u \in Token : held[u][Market] >= SumFunction(Claims(orders, u))
  BY DEF EscrowIInv, Covered
<1>4. o \in Orders
  BY <1>1, <1>3
<1> HIDE DEF o
<1>5. /\ o \in Order /\ o.filled \in Nat /\ o.amount \in Nat /\ o.filled <= o.amount
      /\ o.side \in {"Buy", "Sell"} /\ o.credits \in Token /\ o.payment \in Token
      /\ o.price \in Nat
  BY <1>4 DEF Orders, Order
<1>6. q \in Order
  BY <1>5 DEF Order
<1>7. /\ q.maker = o.maker /\ q.side = o.side /\ q.credits = o.credits
      /\ q.payment = o.payment /\ q.amount = o.amount /\ q.price = o.price
      /\ q.filled = o.filled /\ q.status = "Cancelled"
  BY <1>5 DEF Order
<1> HIDE DEF q
<1>8. q \in Orders /\ ~IsOpen(q) /\ Grown(o, q)
  BY <1>1, <1>5, <1>6, <1>7 DEF Orders, IsOpen, Grown
<1>9. qs \in Seq(Orders) /\ Kept(orders, qs)
  BY <1>1, <1>3, <1>8, KeptWithOne DEF o
<1>10. t \in Token /\ \A u \in Token : Claim(o, u) = IF u = t THEN n ELSE 0
  <2>1. CASE o.side = "Sell"
    <3>1. t = o.credits /\ n = Remaining(o)
      BY <2>1 DEF Refund
    <3>2. \A u \in Token : Claim(o, u) = IF o.credits = u THEN Remaining(o) ELSE 0
      BY <1>1, <1>4, <2>1, ClaimOf
    <3> QED
      BY <1>5, <3>1, <3>2
  <2>2. CASE o.side = "Buy"
    <3>1. t = o.payment /\ n = Cost(Remaining(o), o.price)
      BY <2>2 DEF Refund
    <3>2. \A u \in Token : Claim(o, u) = IF o.payment = u THEN Cost(Remaining(o), o.price) ELSE 0
      BY <1>1, <1>4, <2>2, ClaimOf
    <3> QED
      BY <1>5, <3>1, <3>2
  <2> QED
    BY <1>5, <2>1, <2>2
<1>11. n \in Int
  <2>1. Claim(o, t) \in Nat /\ Claim(o, t) = n
    BY <1>4, <1>10, ClaimIsNatural
  <2> QED
    BY <2>1
<1> HIDE DEF t, n
<1>12. Market \in Account \cup {Market} /\ maker \in Account \cup {Market}
  OBVIOUS
<1>13. w \in Wallets
  BY <1>3, <1>10, <1>11, <1>12, PaidTyped
<1>14. ASSUME NEW u \in Token PROVE w[u][Market] >= SumFunction(Claims(qs, u))
  <2>1. w[u][Market] = held[u][Market] - (IF u = t THEN n ELSE 0)
    BY <1>3, <1>10, <1>11, PaidOut
  <2>2. SumFunction(Claims(orders, u)) \in Int
    BY <1>1, <1>3, <1>8, OneClaimChanges
  <2>3. SumFunction(Claims(qs, u)) = SumFunction(Claims(orders, u)) + Claim(q, u) - Claim(o, u)
    BY <1>1, <1>3, <1>8, OneClaimChanges DEF o
  <2>4. Claim(q, u) = 0
    BY <1>8, ClaimOf
  <2>5. held[u][Market] \in Int /\ held[u][Market] >= SumFunction(Claims(orders, u))
    BY <1>3 DEF Wallets
  <2>6. Claim(o, u) = IF u = t THEN n ELSE 0
    BY <1>10
  <2> HIDE DEF w, qs
  <2> QED
    BY <1>11, <2>1, <2>2, <2>3, <2>4, <2>5, <2>6
<1> HIDE DEF w, qs
<1>15. Covered(w, qs)
  BY <1>9, <1>13, <1>14 DEF Covered
<1>16. FeeTypeOK'
  BY <1>1, <1>3 DEF FeeTypeOK
<1>17. Covered(held, orders)'
  BY <1>1, <1>2, <1>15
<1> QED
  BY <1>2, <1>9, <1>16, <1>17 DEF Step, EscrowIInv

LEMMA SendSpares ==
  ASSUME EscrowIInv, NEW from \in Account, NEW t \in Token, NEW n \in Int,
         SendToMarket(from, t, n)
  PROVE  Step
<1> DEFINE w == Paid(held, t, from, Market, n)
<1>1. held' = w /\ orders' = orders /\ fee' = fee /\ n \in Nat
  BY DEF SendToMarket
<1>2. /\ held \in Wallets /\ orders \in Seq(Orders) /\ FeeTypeOK
      /\ \A u \in Token : held[u][Market] >= SumFunction(Claims(orders, u))
  BY DEF EscrowIInv, Covered
<1>3. from \in Account \cup {Market} /\ Market \in Account \cup {Market}
  OBVIOUS
<1>4. w \in Wallets
  BY <1>2, <1>3, PaidTyped
<1>5. ASSUME NEW u \in Token PROVE w[u][Market] >= SumFunction(Claims(orders, u))
  <2>1. w[u][Market] >= held[u][Market]
    BY <1>1, <1>2, <1>3, PaidByAccount
  <2>2. w[u][Market] \in Int /\ held[u][Market] \in Int
    BY <1>2, <1>4 DEF Wallets
  <2>3. SumFunction(Claims(orders, u)) \in Int
    BY <1>2, ClaimsTotal
  <2>4. held[u][Market] >= SumFunction(Claims(orders, u))
    BY <1>2
  <2> HIDE DEF w
  <2> QED
    BY <2>1, <2>2, <2>3, <2>4
<1> HIDE DEF w
<1>6. Covered(w, orders)
  BY <1>2, <1>4, <1>5 DEF Covered
<1>7. FeeTypeOK' /\ Covered(held, orders)'
  <2>1. FeeTypeOK'
    BY <1>1, <1>2 DEF FeeTypeOK
  <2>2. Covered(held, orders)'
    BY <1>1, <1>6
  <2> QED
    BY <2>1, <2>2
<1>8. Kept(orders, orders')
  BY <1>1, <1>2, KeptSame
<1> QED
  BY <1>7, <1>8 DEF Step, EscrowIInv

\* The calls that touch neither the tokens nor the orders.
LEMMA AdminSpares ==
  ASSUME EscrowIInv, held' = held, orders' = orders, FeeTypeOK'
  PROVE  Step
<1>1. orders \in Seq(Orders) /\ Covered(held, orders)
  BY DEF EscrowIInv, Covered
<1>2. Kept(orders, orders')
  BY <1>1, KeptSame
<1>3. Covered(held, orders)'
  BY <1>1
<1> QED
  BY <1>2, <1>3 DEF Step, EscrowIInv

LEMMA EscrowInit ==
  ASSUME MarketInit
  PROVE  EscrowIInv
<1>1. FeeTypeOK
  <2>1. PICK bps \in Fees : fee \in [bps : {bps}, recipient : FeeRecipients]
    BY DEF MarketInit
  <2>2. bps \in Nat /\ FeeRecipients \subseteq Account \cup {Market}
    BY MarketAssumption
  <2> QED
    BY <2>1, <2>2 DEF FeeTypeOK
<1>2. /\ held = [t \in Token |-> [a \in Account \cup {Market} |-> IF a = Market THEN 0 ELSE Wealth]]
      /\ orders = <<>>
  BY DEF MarketInit
<1>3. held \in Wallets
  BY <1>2, MarketAssumption DEF Wallets
<1>4. orders \in Seq(Orders)
  BY <1>2
<1>5. ASSUME NEW t \in Token PROVE held[t][Market] >= SumFunction(Claims(orders, t))
  <2>1. held[t][Market] = 0
    BY <1>2
  <2> DEFINE f == Claims(orders, t)
  <2>2. DOMAIN f = {}
    BY <1>2 DEF Claims
  <2>3. IsFiniteSet({})
    BY FS_EmptySet
  <2> HIDE DEF f
  <2>4. SumFunctionOnSet(f, {}) = 0
    BY <2>3, SumProperties
  <2>5. SumFunction(f) = 0
    BY <2>2, <2>4 DEF SumFunction
  <2> QED
    BY <2>1, <2>5 DEF f
<1> QED
  BY <1>1, <1>3, <1>4, <1>5 DEF EscrowIInv, Covered

LEMMA EscrowNext ==
  ASSUME EscrowIInv, [MarketNext]_marketVars
  PROVE  Step
<1>1. FeeTypeOK
  BY DEF EscrowIInv
<1>2. CASE UNCHANGED marketVars
  BY <1>1, <1>2, AdminSpares DEF marketVars, FeeTypeOK
<1>3. CASE MarketNext
  <2>1. PICK caller \in Account :
          \/ \E cr \in Credits, pay \in Token, n \in OrderAmounts, p \in Prices :
               \/ CreateSellOrder(caller, cr, pay, n, p)
               \/ CreateBuyOrder(caller, cr, pay, n, p)
          \/ \E f \in Fills : FillOrder(caller, f.id, f.amount)
          \/ \E fills \in UNION {[1 .. k -> Fills] : k \in 0 .. MaxBatchFill} :
               BatchFillOrders(caller, fills)
          \/ \E id \in 1 .. MaxOrders : CancelOrder(caller, id)
          \/ \E new \in Admins : SetMarketAdmin(caller, new)
          \/ \E bps \in Fees, to \in FeeRecipients : SetFee(caller, bps, to)
          \/ PauseMarket(caller)
          \/ UnpauseMarket(caller)
          \/ \E t \in Token, n \in Gifts : SendToMarket(caller, t, n)
    BY <1>3 DEF MarketNext
  <2>2. /\ Credits \subseteq Token /\ OrderAmounts \subseteq Int /\ Prices \subseteq Int
        /\ Gifts \subseteq Int /\ Fees \subseteq Nat /\ FeeRecipients \subseteq Account \cup {Market}
        /\ MaxBatchFill \in Nat
    BY MarketAssumption
  <2>3. ASSUME NEW cr \in Credits, NEW pay \in Token, NEW n \in OrderAmounts, NEW p \in Prices,
               CreateSellOrder(caller, cr, pay, n, p)
        PROVE  Step
    BY <2>2, <2>3, CreateSellSpares
  <2>4. ASSUME NEW cr \in Credits, NEW pay \in Token, NEW n \in OrderAmounts, NEW p \in Prices,
               CreateBuyOrder(caller, cr, pay, n, p)
        PROVE  Step
    BY <2>2, <2>4, CreateBuySpares
  <2>5. ASSUME NEW f \in Fills, FillOrder(caller, f.id, f.amount)
        PROVE  Step
    <3> DEFINE fills == <<[id |-> f.id, amount |-> f.amount]>>
    <3>1. f.amount \in Int
      BY <2>2 DEF Fills
    <3>2. Len(fills) = 1 /\ fills[1].amount = f.amount
      OBVIOUS
    <3>3. Fill(caller, fills)
      BY <2>5 DEF FillOrder
    <3> HIDE DEF fills
    <3>4. Fillable(fills)
      BY <3>1, <3>2 DEF Fillable
    <3> QED
      BY <3>3, <3>4, FillSpares
  <2>6. ASSUME NEW fills \in UNION {[1 .. k -> Fills] : k \in 0 .. MaxBatchFill},
               BatchFillOrders(caller, fills)
        PROVE  Step
    <3>1. PICK k \in 0 .. MaxBatchFill : fills \in [1 .. k -> Fills]
      OBVIOUS
    <3>2. k \in Nat
      BY <2>2
    <3>3. Len(fills) = k
      BY <3>1, <3>2
    <3>4. \A f \in Fills : f.amount \in Int
      BY <2>2 DEF Fills
    <3>5. \A i \in 1 .. k : fills[i].amount \in Int
      BY <3>1, <3>4
    <3>6. Fillable(fills)
      BY <3>2, <3>3, <3>5 DEF Fillable
    <3>7. Fill(caller, fills)
      BY <2>6 DEF BatchFillOrders
    <3> QED
      BY <3>6, <3>7, FillSpares
  <2>7. ASSUME NEW id \in 1 .. MaxOrders, CancelOrder(caller, id)
        PROVE  Step
    BY <2>7, CancelSpares
  <2>8. ASSUME NEW new \in Admins, SetMarketAdmin(caller, new)
        PROVE  Step
    <3>1. held' = held /\ orders' = orders /\ fee' = fee
      BY <2>8 DEF SetMarketAdmin
    <3> QED
      BY <1>1, <3>1, AdminSpares DEF FeeTypeOK
  <2>9. ASSUME NEW bps \in Fees, NEW to \in FeeRecipients, SetFee(caller, bps, to)
        PROVE  Step
    <3>1. held' = held /\ orders' = orders /\ fee' = [bps |-> bps, recipient |-> to]
      BY <2>9 DEF SetFee
    <3>2. FeeTypeOK'
      BY <2>2, <3>1 DEF FeeTypeOK
    <3> QED
      BY <3>1, <3>2, AdminSpares
  <2>10. ASSUME PauseMarket(caller) \/ UnpauseMarket(caller)
         PROVE  Step
    <3>1. held' = held /\ orders' = orders /\ fee' = fee
      BY <2>10 DEF PauseMarket, UnpauseMarket
    <3> QED
      BY <1>1, <3>1, AdminSpares DEF FeeTypeOK
  <2>11. ASSUME NEW t \in Token, NEW n \in Gifts, SendToMarket(caller, t, n)
         PROVE  Step
    BY <2>2, <2>11, SendSpares
  <2> QED
    BY <2>1, <2>3, <2>4, <2>5, <2>6, <2>7, <2>8, <2>9, <2>10, <2>11
<1> QED
  BY <1>2, <1>3

LEMMA AlwaysCovered == MarketSpec => []EscrowIInv
<1>1. MarketInit => EscrowIInv
  BY EscrowInit
<1>2. EscrowIInv /\ [MarketNext]_marketVars => EscrowIInv'
  BY EscrowNext DEF Step
<1> QED
  BY <1>1, <1>2, PTL DEF MarketSpec

\* Whatever orders are made, filled in part, in batches, under changing fees, or
\* cancelled, what the marketplace has of a token covers every open order at once.
THEOREM EscrowCovers == MarketSpec => []EscrowCoversOpenOrders
<1>1. EscrowIInv => EscrowCoversOpenOrders
  BY DEF EscrowIInv, Covered, EscrowCoversOpenOrders, Claims
<1> QED
  BY <1>1, AlwaysCovered, PTL

\* An order that keeps its terms is the old one but for what is filled and its status.
LEMMA OnlyFilledAndStatus ==
  ASSUME NEW o \in Order, NEW q \in Order, Grown(o, q)
  PROVE  q = [o EXCEPT !.filled = q.filled, !.status = q.status]
  BY DEF Order, Grown

\* No call changes an order's terms, takes back what is filled of it, or changes
\* it at all once it is filled or cancelled.
THEOREM OrdersAreFinal == MarketSpec => ClosedOrdersAreFinal
<1> DEFINE Final == \A id \in DOMAIN orders :
                      /\ id \in DOMAIN orders'
                      /\ orders'[id] = [orders[id] EXCEPT !.filled = orders'[id].filled,
                                                          !.status = orders'[id].status]
                      /\ orders'[id].filled >= orders[id].filled
                      /\ ~IsOpen(orders[id]) => orders'[id] = orders[id]
<1>1. EscrowIInv /\ [MarketNext]_marketVars => Final
  <2> SUFFICES ASSUME EscrowIInv, [MarketNext]_marketVars, NEW id \in DOMAIN orders
               PROVE  /\ id \in DOMAIN orders'
                      /\ orders'[id] = [orders[id] EXCEPT !.filled = orders'[id].filled,
                                                          !.status = orders'[id].status]
                      /\ orders'[id].filled >= orders[id].filled
                      /\ ~IsOpen(orders[id]) => orders'[id] = orders[id]
    OBVIOUS
  <2>1. EscrowIInv' /\ Kept(orders, orders')
    BY EscrowNext DEF Step
  <2>2. orders \in Seq(Orders) /\ orders' \in Seq(Orders)
    BY <2>1 DEF EscrowIInv, Covered
  <2> DEFINE o == orders[id]
             q == orders'[id]
  <2>3. id \in DOMAIN orders' /\ Grown(o, q)
    BY <2>1 DEF Kept
  <2>4. o \in Order /\ q \in Order
    BY <2>2, <2>3 DEF Orders
  <2> HIDE DEF o, q
  <2>5. q = [o EXCEPT !.filled = q.filled, !.status = q.status]
    BY <2>3, <2>4, OnlyFilledAndStatus
  <2>6. q.filled >= o.filled /\ (~IsOpen(o) => q = o)
    BY <2>3 DEF Grown
  <2> QED
    BY <2>3, <2>5, <2>6 DEF o, q
<1>2. EscrowIInv /\ [MarketNext]_marketVars => [Final]_marketVars
  BY <1>1
<1> QED
  BY <1>2, AlwaysCovered, PTL DEF MarketSpec, ClosedOrdersAreFinal

--------------------------------------------------------------------------------
(***************************************************************************)
(* The types of the book, and the lists of open orders.                    *)
(***************************************************************************)

Purses == [Token -> [Account \cup {Market} -> Nat]]

\* Orders whose status says how far they are filled.
SaneOrders ==
  {o \in Orders : /\ o.status = "Filled" <=> o.filled = o.amount
                  /\ o.status = "Open" => o.filled = 0}

\* The open orders of a maker.
OpenOf(os, m) == {id \in DOMAIN os : IsOpen(os[id]) /\ os[id].maker = m}

Indexed(os, open) ==
  /\ open \in [Account -> Seq(Nat)]
  /\ \A m \in Account : /\ IsInjective(open[m])
                        /\ Range(open[m]) = OpenOf(os, m)
                        /\ Len(open[m]) <= MaxOpenOrders

Sound(book) ==
  /\ book.held \in Purses
  /\ book.orders \in Seq(SaneOrders)
  /\ Indexed(book.orders, book.open)

MarketOffice ==
  /\ fee \in [bps : 0 .. MaxFeeBps, recipient : Account \cup {Market}]
  /\ marketAdmin \in Account
  /\ marketPaused \in BOOLEAN

\* A transfer its payer can make leaves nobody with less than nothing.
LEMMA PaidNatural ==
  ASSUME NEW w \in Purses, NEW t \in Token, NEW from \in Account \cup {Market},
         NEW to \in Account \cup {Market}, NEW n \in Nat, w[t][from] >= n
  PROVE  Paid(w, t, from, to, n) \in Purses
<1> DEFINE b == w[t]
           c == [b EXCEPT ![from] = b[from] - n]
           d == [c EXCEPT ![to] = c[to] + n]
<1>1. b \in [Account \cup {Market} -> Nat]
  BY DEF Purses
<1>2. Paid(w, t, from, to, n) = [w EXCEPT ![t] = d]
  BY Zenon DEF Paid
<1>3. b[from] - n \in Nat
  BY <1>1
<1>4. c \in [Account \cup {Market} -> Nat]
  BY <1>1, <1>3
<1> HIDE DEF c
<1>5. d \in [Account \cup {Market} -> Nat]
  BY <1>4
<1> HIDE DEF d
<1>6. [w EXCEPT ![t] = d] \in Purses
  BY <1>5 DEF Purses
<1> QED
  BY <1>2, <1>6

LEMMA TransferredNatural ==
  ASSUME NEW s, s.wallets \in Purses, NEW t, t.token \in Token,
         t.from \in Account \cup {Market}, t.to \in Account \cup {Market}, t.n \in Nat
  PROVE  Transferred(s, t).wallets \in Purses
<1> DEFINE able == s.ok /\ CanPay(s.wallets, t.token, t.from, t.n)
<1>1. CASE able
  <2>1. Transferred(s, t).wallets = Paid(s.wallets, t.token, t.from, t.to, t.n)
    BY <1>1 DEF Transferred
  <2>2. s.wallets[t.token][t.from] >= t.n
    BY <1>1 DEF CanPay
  <2> QED
    BY <2>1, <2>2, PaidNatural
<1>2. CASE ~able
  <2>1. Transferred(s, t).wallets = s.wallets
    BY <1>2 DEF Transferred
  <2> QED
    BY <2>1
<1> QED
  BY <1>1, <1>2

\* The fee leaves the rest of the cost to pay.
LEMMA FeeWithinCost ==
  ASSUME MarketOffice, NEW cost \in Nat
  PROVE  Fee(cost) \in Nat /\ cost - Fee(cost) \in Nat
<1>1. /\ fee.bps \in Nat /\ fee.bps <= BpsDenominator /\ BpsDenominator \in Nat \ {0}
      /\ FeeTypeOK
  BY MarketAssumption DEF MarketOffice, FeeTypeOK
<1>2. Fee(cost) \in Nat
  BY <1>1, FeeIsNatural
<1> DEFINE d == BpsDenominator
           b == fee.bps
           x == cost * b
           q == x \div d
<1>3. d \in Nat \ {0} /\ b \in Nat /\ b <= d
  BY <1>1
<1>4. Fee(cost) = q
  BY DEF Fee
<1> HIDE DEF d, b
<1>5. x \in Nat /\ x <= cost * d
  BY <1>3
<1> HIDE DEF x
<1>6. q \in Int /\ d * q <= x
  BY <1>3, <1>5
<1> HIDE DEF q
<1>7. d * q <= d * cost
  BY <1>3, <1>5, <1>6
<1>8. q <= cost
  BY <1>3, <1>6, <1>7
<1> QED
  BY <1>2, <1>4, <1>8

LEMMA SettledNatural ==
  ASSUME NEW w \in Purses, NEW t1, NEW t2, NEW t3,
         \A t \in {t1, t2, t3} : /\ t.token \in Token /\ t.from \in Account \cup {Market}
                                 /\ t.to \in Account \cup {Market} /\ t.n \in Nat
  PROVE  Settled(w, <<t1, t2, t3>>).wallets \in Purses
<1> DEFINE s0 == [ok |-> TRUE, wallets |-> w]
           s1 == Transferred(s0, t1)
           s2 == Transferred(s1, t2)
           s3 == Transferred(s2, t3)
<1>1. s0.wallets \in Purses
  OBVIOUS
<1>2. Settled(w, <<t1, t2, t3>>) = s3
  BY DEF Settled
<1> HIDE DEF s0
<1>3. s1.wallets \in Purses
  BY <1>1, TransferredNatural
<1> HIDE DEF s1
<1>4. s2.wallets \in Purses
  BY <1>3, TransferredNatural
<1> HIDE DEF s2
<1>5. s3.wallets \in Purses
  BY <1>4, TransferredNatural
<1> QED
  BY <1>2, <1>5

LEMMA SettlementNatural ==
  ASSUME MarketOffice, NEW w \in Purses, NEW o \in Orders, NEW taker \in Account,
         NEW amount \in Nat
  PROVE  Settled(w, Settlement(o, taker, amount)).wallets \in Purses
<1> DEFINE cost == Cost(amount, o.price)
           toll == Fee(cost)
           rest == cost - toll
<1>1. /\ o.maker \in Account \cup {Market} /\ o.side \in {"Buy", "Sell"} /\ o.credits \in Token
      /\ o.payment \in Token /\ o.price \in Nat
      /\ taker \in Account \cup {Market} /\ Market \in Account \cup {Market}
  BY DEF Orders, Order
<1>2. cost \in Nat
  BY <1>1, CostIsNatural
<1>3. toll \in Nat /\ rest \in Nat
  BY <1>2, FeeWithinCost
<1>4. fee.recipient \in Account \cup {Market}
  BY DEF MarketOffice
<1>5. CASE o.side = "Sell"
  <2> DEFINE t1 == Transfer(o.payment, taker, o.maker, rest)
             t2 == Transfer(o.payment, taker, fee.recipient, toll)
             t3 == Transfer(o.credits, Market, taker, amount)
  <2>1. Settlement(o, taker, amount) = <<t1, t2, t3>>
    BY <1>5 DEF Settlement
  <2> HIDE DEF rest, toll
  <2>2. \A t \in {t1, t2, t3} : /\ t.token \in Token /\ t.from \in Account \cup {Market}
                                /\ t.to \in Account \cup {Market} /\ t.n \in Nat
    BY <1>1, <1>3, <1>4 DEF Transfer
  <2> HIDE DEF t1, t2, t3
  <2> QED
    BY <2>1, <2>2, SettledNatural
<1>6. CASE o.side = "Buy"
  <2> DEFINE t1 == Transfer(o.credits, taker, o.maker, amount)
             t2 == Transfer(o.payment, Market, taker, rest)
             t3 == Transfer(o.payment, Market, fee.recipient, toll)
  <2>1. Settlement(o, taker, amount) = <<t1, t2, t3>>
    BY <1>6 DEF Settlement
  <2> HIDE DEF rest, toll
  <2>2. \A t \in {t1, t2, t3} : /\ t.token \in Token /\ t.from \in Account \cup {Market}
                                /\ t.to \in Account \cup {Market} /\ t.n \in Nat
    BY <1>1, <1>3, <1>4 DEF Transfer
  <2> HIDE DEF t1, t2, t3
  <2> QED
    BY <2>1, <2>2, SettledNatural
<1> QED
  BY <1>1, <1>5, <1>6

--------------------------------------------------------------------------------
(***************************************************************************)
(* The lists.                                                              *)
(***************************************************************************)

\* A maker's list without one order.
LEMMA DelistedList ==
  ASSUME NEW open \in [Account -> Seq(Nat)], NEW m \in Account, NEW id, IsInjective(open[m])
  PROVE  /\ Delisted(open, m, id) \in [Account -> Seq(Nat)]
         /\ \A a \in Account : a # m => Delisted(open, m, id)[a] = open[a]
         /\ IsInjective(Delisted(open, m, id)[m])
         /\ Range(Delisted(open, m, id)[m]) = Range(open[m]) \ {id}
         /\ Len(Delisted(open, m, id)[m]) <= Len(open[m])
<1> DEFINE s == open[m]
           S == Range(s) \ {id}
           c == Chosen(s, S)
<1>1. s \in Seq(Nat) /\ IsInjective(s)
  OBVIOUS
<1>2. Delisted(open, m, id) = [open EXCEPT ![m] = c]
  BY Zenon DEF Delisted
<1> HIDE DEF s
<1>3. c \in Seq(Nat)
  BY <1>1, ChosenProperties
<1>4. Len(c) <= Len(s) /\ IsInjective(c)
  BY <1>1, ChosenProperties
<1>5. Range(c) = Range(s) \cap S
  BY <1>1, ChosenProperties
<1>6. Range(c) = Range(s) \ {id}
  BY <1>5
<1> HIDE DEF c
<1>7. /\ [open EXCEPT ![m] = c] \in [Account -> Seq(Nat)]
      /\ [open EXCEPT ![m] = c][m] = c
      /\ \A a \in Account : a # m => [open EXCEPT ![m] = c][a] = open[a]
  BY <1>3
<1> QED
  BY <1>2, <1>4, <1>6, <1>7 DEF s

\* An open order changes and stays open, or closes and leaves its maker's list.
LEMMA IndexedRewritten ==
  ASSUME NEW os, NEW open, Indexed(os, open), NEW id \in DOMAIN os, IsOpen(os[id]),
         os[id].maker \in Account, NEW q, q.maker = os[id].maker, NEW next,
         \/ IsOpen(q) /\ next = open
         \/ ~IsOpen(q) /\ next = Delisted(open, os[id].maker, id)
  PROVE  Indexed([os EXCEPT ![id] = q], next)
<1> DEFINE qs == [os EXCEPT ![id] = q]
           m == os[id].maker
<1>1. DOMAIN qs = DOMAIN os /\ qs[id] = q /\ \A i \in DOMAIN os : i # id => qs[i] = os[i]
  OBVIOUS
<1>2. /\ open \in [Account -> Seq(Nat)]
      /\ \A a \in Account : /\ IsInjective(open[a]) /\ Range(open[a]) = OpenOf(os, a)
                            /\ Len(open[a]) <= MaxOpenOrders
  BY DEF Indexed
<1> HIDE DEF qs
<1>3. CASE IsOpen(q) /\ next = open
  <2>1. \A a \in Account : OpenOf(qs, a) = OpenOf(os, a)
    BY <1>1, <1>3 DEF OpenOf
  <2>2. Indexed(qs, open)
    BY <1>2, <2>1 DEF Indexed
  <2> QED
    BY <1>3, <2>2 DEF qs
<1>4. CASE ~IsOpen(q) /\ next = Delisted(open, m, id)
  <2>1. \A a \in Account : a # m => OpenOf(qs, a) = OpenOf(os, a)
    BY <1>1 DEF OpenOf
  <2>2. OpenOf(qs, m) = OpenOf(os, m) \ {id}
    BY <1>1, <1>4 DEF OpenOf
  <2>3. m \in Account /\ IsInjective(open[m])
    BY <1>2
  <2> HIDE DEF m
  <2>4. /\ next \in [Account -> Seq(Nat)]
        /\ \A a \in Account : a # m => next[a] = open[a]
        /\ IsInjective(next[m])
        /\ Range(next[m]) = Range(open[m]) \ {id}
        /\ Len(next[m]) <= Len(open[m])
    <3>1. /\ Delisted(open, m, id) \in [Account -> Seq(Nat)]
          /\ \A a \in Account : a # m => Delisted(open, m, id)[a] = open[a]
          /\ IsInjective(Delisted(open, m, id)[m])
          /\ Range(Delisted(open, m, id)[m]) = Range(open[m]) \ {id}
          /\ Len(Delisted(open, m, id)[m]) <= Len(open[m])
      BY <1>2, <2>3, DelistedList
    <3> QED
      BY <1>4, <3>1
  <2>5. Range(next[m]) = OpenOf(qs, m)
    BY <1>2, <2>2, <2>3, <2>4
  <2>6. Len(next[m]) <= MaxOpenOrders
    <3>1. Len(next[m]) \in Nat /\ Len(open[m]) \in Nat /\ MaxOpenOrders \in Nat
      BY <1>2, <2>3, <2>4, MarketAssumption, LenProperties
    <3> QED
      BY <1>2, <2>3, <2>4, <3>1
  <2>7. ASSUME NEW a \in Account
        PROVE  IsInjective(next[a]) /\ Range(next[a]) = OpenOf(qs, a) /\ Len(next[a]) <= MaxOpenOrders
    <3>1. CASE a = m
      BY <2>4, <2>5, <2>6, <3>1
    <3>2. CASE a # m
      BY <1>2, <2>1, <2>4, <3>2
    <3> QED
      BY <3>1, <3>2
  <2> QED
    BY <2>4, <2>7 DEF Indexed, qs
<1> QED
  BY <1>3, <1>4

\* An open order is appended to the orders and to its maker's list.
LEMMA IndexedAppended ==
  ASSUME NEW os \in Seq(SaneOrders), NEW open, Indexed(os, open), NEW q \in SaneOrders, IsOpen(q),
         Len(open[q.maker]) < MaxOpenOrders
  PROVE  Indexed(Append(os, q), [open EXCEPT ![q.maker] = Append(open[q.maker], Len(os) + 1)])
<1> DEFINE n == Len(os) + 1
           m == q.maker
           s == open[m]
           t == Append(s, n)
           qs == Append(os, q)
           next == [open EXCEPT ![m] = t]
<1>1. m \in Account
  BY DEF SaneOrders, Orders, Order
<1>2. /\ open \in [Account -> Seq(Nat)]
      /\ \A a \in Account : /\ IsInjective(open[a]) /\ Range(open[a]) = OpenOf(os, a)
                            /\ Len(open[a]) <= MaxOpenOrders
  BY DEF Indexed
<1>3. n \in Nat /\ DOMAIN os = 1 .. Len(os) /\ n \notin DOMAIN os
  BY LenProperties
<1>4. /\ DOMAIN qs = DOMAIN os \cup {n} /\ qs[n] = q
      /\ \A i \in DOMAIN os : qs[i] = os[i]
  <2>1. /\ Len(qs) = Len(os) + 1 /\ qs \in Seq(SaneOrders) /\ qs[Len(os) + 1] = q
        /\ \A i \in 1 .. Len(os) : qs[i] = os[i]
    BY AppendProperties
  <2>2. DOMAIN qs = 1 .. Len(os) + 1 /\ Len(os) \in Nat
    BY <2>1, LenProperties
  <2>3. 1 .. Len(os) + 1 = (1 .. Len(os)) \cup {n}
    BY <2>2
  <2> QED
    BY <1>3, <2>1, <2>2, <2>3
<1> HIDE DEF qs, n, m
<1>5. s \in Seq(Nat) /\ IsInjective(s) /\ Range(s) = OpenOf(os, m)
  BY <1>1, <1>2
<1>6. n \notin Range(s)
  BY <1>3, <1>5 DEF OpenOf
<1>7. Len(s) < MaxOpenOrders
  BY DEF m
<1> HIDE DEF s
<1>8. t \in Seq(Nat) /\ Len(t) = Len(s) + 1
  BY <1>3, <1>5, AppendProperties
<1>9. IsInjective(t)
  BY <1>3, <1>5, <1>6, AppendedInjective
<1>10. Range(t) = Range(s) \cup {n}
  BY <1>3, <1>5, AppendedRange
<1> HIDE DEF t
<1>11. /\ next \in [Account -> Seq(Nat)] /\ next[m] = t
       /\ \A a \in Account : a # m => next[a] = open[a]
  BY <1>1, <1>2, <1>8
<1>12. OpenOf(qs, m) = OpenOf(os, m) \cup {n}
  BY <1>4 DEF OpenOf, m
<1>13. \A a \in Account : a # m => OpenOf(qs, a) = OpenOf(os, a)
  BY <1>3, <1>4 DEF OpenOf, m
<1>14. Len(t) <= MaxOpenOrders
  <2>1. Len(s) \in Nat /\ MaxOpenOrders \in Nat
    BY <1>5, MarketAssumption, LenProperties
  <2> QED
    BY <1>7, <1>8, <2>1
<1> HIDE DEF next
<1>15. ASSUME NEW a \in Account
       PROVE  IsInjective(next[a]) /\ Range(next[a]) = OpenOf(qs, a) /\ Len(next[a]) <= MaxOpenOrders
  <2>1. CASE a = m
    BY <1>5, <1>9, <1>10, <1>11, <1>12, <1>14, <2>1
  <2>2. CASE a # m
    BY <1>2, <1>11, <1>13, <2>2
  <2> QED
    BY <2>1, <2>2
<1>16. Indexed(qs, next)
  BY <1>11, <1>15 DEF Indexed
<1> QED
  BY <1>16 DEF qs, next, t, s, n, m

--------------------------------------------------------------------------------
(***************************************************************************)
(* The calls.                                                              *)
(***************************************************************************)

\* What is written back of an order that is filled or cancelled.
LEMMA SaneAfterFill ==
  ASSUME NEW o \in SaneOrders, IsOpen(o), NEW n \in Nat \ {0}, n <= Remaining(o)
  PROVE  /\ AfterFill(o, n) \in SaneOrders
         /\ AfterFill(o, n).maker = o.maker
         /\ IsOpen(AfterFill(o, n)) <=> o.filled + n # o.amount
<1>1. o \in Orders /\ n \in Nat
  BY DEF SaneOrders
<1> DEFINE q == AfterFill(o, n)
<1>2. /\ q \in Orders /\ q.maker = o.maker /\ q.amount = o.amount /\ q.filled = o.filled + n
      /\ q.status = IF o.filled + n = o.amount THEN "Filled" ELSE "PartiallyFilled"
  BY <1>1, AfterFillTyped
<1> HIDE DEF q
<1>3. q \in SaneOrders
  BY <1>2 DEF SaneOrders
<1>4. IsOpen(q) <=> o.filled + n # o.amount
  BY <1>2 DEF IsOpen
<1> QED
  BY <1>2, <1>3, <1>4 DEF q

LEMMA SaneAfterCancel ==
  ASSUME NEW o \in SaneOrders, IsOpen(o)
  PROVE  LET q == [o EXCEPT !.status = "Cancelled"]
         IN  q \in SaneOrders /\ q.maker = o.maker /\ ~IsOpen(q)
<1> DEFINE q == [o EXCEPT !.status = "Cancelled"]
<1>1. /\ o \in Order /\ o.filled <= o.amount
      /\ o.status = "Filled" <=> o.filled = o.amount
  BY DEF SaneOrders, Orders
<1>2. o.filled # o.amount
  BY <1>1 DEF IsOpen
<1>3. q \in Order
  BY <1>1 DEF Order
<1>4. q.maker = o.maker /\ q.filled = o.filled /\ q.amount = o.amount /\ q.status = "Cancelled"
  BY <1>1 DEF Order
<1> HIDE DEF q
<1>5. q \in SaneOrders /\ ~IsOpen(q)
  BY <1>1, <1>2, <1>3, <1>4 DEF SaneOrders, Orders, IsOpen
<1> QED
  BY <1>4, <1>5 DEF q

LEMMA SaneAreOrders ==
  ASSUME NEW os \in Seq(SaneOrders), NEW id \in DOMAIN os
  PROVE  /\ os[id] \in SaneOrders /\ os[id] \in Orders /\ os[id].maker \in Account
         /\ \A q \in SaneOrders : [os EXCEPT ![id] = q] \in Seq(SaneOrders)
<1>1. os[id] \in SaneOrders
  BY ElementOfSeq, LenProperties
<1>2. os[id] \in Orders /\ os[id].maker \in Account
  BY <1>1 DEF SaneOrders, Orders, Order
<1>3. \A q \in SaneOrders : [os EXCEPT ![id] = q] \in Seq(SaneOrders)
  BY ExceptSeq, LenProperties
<1> QED
  BY <1>1, <1>2, <1>3

\* A fill that is made keeps the book sound.
LEMMA FilledSound ==
  ASSUME MarketOffice, NEW x, x.ok => Sound(x.book),
         NEW taker \in Account, NEW id, NEW n \in Int, Filled(x, taker, id, n).ok
  PROVE  Sound(Filled(x, taker, id, n).book)
<1> DEFINE y == Filled(x, taker, id, n)
           w == x.book.held
           os == x.book.orders
           o == os[id]
           s == Settled(w, Settlement(o, taker, n))
           q == AfterFill(o, n)
           done == o.filled + n = o.amount
           next == IF done THEN Delisted(x.book.open, o.maker, id) ELSE x.book.open
<1>1. x.ok /\ FillableBy(x.book, id, n)
  <2> SUFFICES ASSUME ~(x.ok /\ FillableBy(x.book, id, n)) PROVE FALSE
    OBVIOUS
  <2>1. y = [ok |-> FALSE, book |-> x.book]
    BY DEF Filled
  <2>2. ~y.ok
    BY <2>1
  <2> QED
    BY <2>2
<1>2. w \in Purses /\ os \in Seq(SaneOrders) /\ Indexed(os, x.book.open)
  BY <1>1 DEF Sound
<1>3. id \in DOMAIN os /\ IsOpen(o) /\ n <= Remaining(o) /\ n \in Nat \ {0} /\ n \in Nat
  BY <1>1 DEF FillableBy
<1>4. o \in SaneOrders /\ o \in Orders /\ o.maker \in Account
  BY <1>2, <1>3, SaneAreOrders
<1>5. y.book.held = s.wallets
  BY <1>1 DEF Filled
<1>6. y.book.orders = [os EXCEPT ![id] = q]
  BY <1>1 DEF Filled, AfterFill
<1>7. y.book.open = next
  BY <1>1 DEF Filled
<1>8. s.wallets \in Purses
  BY <1>2, <1>3, <1>4, SettlementNatural
<1>9. q \in SaneOrders /\ q.maker = o.maker /\ (IsOpen(q) <=> ~done)
  BY <1>3, <1>4, SaneAfterFill
<1> HIDE DEF s, q, y, done
<1>10. [os EXCEPT ![id] = q] \in Seq(SaneOrders)
  BY <1>2, <1>3, <1>9, SaneAreOrders
<1>11. \/ IsOpen(q) /\ next = x.book.open
       \/ ~IsOpen(q) /\ next = Delisted(x.book.open, o.maker, id)
  BY <1>9
<1> HIDE DEF next
<1>12. Indexed([os EXCEPT ![id] = q], next)
  BY <1>2, <1>3, <1>4, <1>9, <1>11, IndexedRewritten
<1> HIDE DEF os
<1>13. Sound(y.book)
  BY <1>5, <1>6, <1>7, <1>8, <1>10, <1>12 DEF Sound
<1> QED
  BY <1>13 DEF y

LEMMA BatchSound ==
  ASSUME MarketOffice, Sound(Book), NEW taker \in Account, NEW fills, Fillable(fills),
         Outcomes(taker, fills)[Len(fills)].ok
  PROVE  Sound(Outcomes(taker, fills)[Len(fills)].book)
<1> DEFINE L == Len(fills)
           a == Outcomes(taker, fills)
           G == {n \in Nat : n <= L => (a[n].ok => Sound(a[n].book))}
<1>1. L \in Nat /\ \A i \in 1 .. L : fills[i].amount \in Int
  BY DEF Fillable
<1>2. /\ a[0] = [ok |-> TRUE, book |-> Book]
      /\ \A i \in 1 .. L : a[i] = Filled(a[i - 1], taker, fills[i].id, fills[i].amount)
  BY <1>1, OutcomesFollow
<1> HIDE DEF a, L
<1>3. 0 \in G
  BY <1>2
<1>4. ASSUME NEW n \in Nat, n \in G PROVE n + 1 \in G
  <2> SUFFICES ASSUME n + 1 <= L, a[n + 1].ok PROVE Sound(a[n + 1].book)
    OBVIOUS
  <2>1. n + 1 \in 1 .. L /\ (n + 1) - 1 = n /\ n <= L
    BY <1>1
  <2> DEFINE id == fills[n + 1].id
             m == fills[n + 1].amount
             x == a[n]
             y == a[n + 1]
  <2>2. y = Filled(x, taker, id, m) /\ m \in Int
    BY <1>1, <1>2, <2>1
  <2>3. x.ok => Sound(x.book)
    BY <1>4, <2>1
  <2>4. y.ok
    OBVIOUS
  <2> HIDE DEF x, y, id, m
  <2>5. Sound(y.book)
    BY <2>2, <2>3, <2>4, FilledSound
  <2> QED
    BY <2>5 DEF y
<1>5. L \in G
  <2> HIDE DEF G
  <2> QED
    BY <1>1, <1>3, <1>4, InductionOnNat
<1>6. a[L].ok => Sound(a[L].book)
  BY <1>1, <1>5
<1> QED
  BY <1>6 DEF a, L

\* A new order, put into escrow by one who has what it offers.
LEMMA CreateSound ==
  ASSUME Sound(Book), NEW o \in SaneOrders, IsOpen(o), NEW t \in Token, NEW n \in Nat,
         Create(o, t, n)
  PROVE  Sound(Book)'
<1>1. /\ held' = Paid(held, t, o.maker, Market, n)
      /\ orders' = Append(orders, o)
      /\ held[t][o.maker] >= n
      /\ Len(makerOrders[o.maker]) < MaxOpenOrders
  BY DEF Create, CanPay
<1>2. makerOrders' = [makerOrders EXCEPT ![o.maker] = Append(makerOrders[o.maker], Len(orders) + 1)]
  BY Zenon DEF Create
<1>3. held \in Purses /\ orders \in Seq(SaneOrders) /\ Indexed(orders, makerOrders)
  BY DEF Sound, Book
<1>4. o.maker \in Account \cup {Market} /\ Market \in Account \cup {Market}
  BY DEF SaneOrders, Orders, Order
<1>5. held' \in Purses
  BY <1>1, <1>3, <1>4, PaidNatural
<1>6. orders' \in Seq(SaneOrders)
  BY <1>1, <1>3, AppendProperties
<1>7. Indexed(orders', makerOrders')
  BY <1>1, <1>2, <1>3, IndexedAppended
<1>8. Book' = [held |-> held', orders |-> orders', open |-> makerOrders']
  BY DEF Book
<1>9. Sound([held |-> held', orders |-> orders', open |-> makerOrders'])
  BY <1>5, <1>6, <1>7 DEF Sound
<1> QED
  BY <1>8, <1>9 DEF Sound

LEMMA CancelSound ==
  ASSUME Sound(Book), NEW maker \in Account, NEW id, CancelOrder(maker, id)
  PROVE  Sound(Book)'
<1> DEFINE o == orders[id]
           t == Refund(o).token
           n == Refund(o).n
           q == [o EXCEPT !.status = "Cancelled"]
<1>1. /\ id \in DOMAIN orders /\ o.maker = maker /\ IsOpen(o) /\ n > 0
      /\ held[t][Market] >= n
      /\ held' = Paid(held, t, Market, maker, n)
      /\ makerOrders' = Delisted(makerOrders, maker, id)
  BY DEF CancelOrder, CanPay
<1>2. orders' = [orders EXCEPT ![id] = q]
  BY Zenon DEF CancelOrder
<1>3. held \in Purses /\ orders \in Seq(SaneOrders) /\ Indexed(orders, makerOrders)
  BY DEF Sound, Book
<1>4. o \in SaneOrders /\ o \in Orders
  BY <1>1, <1>3, SaneAreOrders
<1>5. q \in SaneOrders /\ q.maker = o.maker /\ ~IsOpen(q)
  BY <1>1, <1>4, SaneAfterCancel
<1>6. t \in Token /\ n \in Nat
  <2>1. /\ o.filled \in Nat /\ o.amount \in Nat /\ o.filled <= o.amount
        /\ o.credits \in Token /\ o.payment \in Token /\ o.price \in Nat
    BY <1>4 DEF Orders, Order
  <2>2. Remaining(o) \in Nat
    BY <2>1 DEF Remaining
  <2>3. Cost(Remaining(o), o.price) \in Nat
    BY <2>1, <2>2, CostIsNatural
  <2> HIDE DEF o
  <2> QED
    BY <2>1, <2>2, <2>3 DEF Refund
<1> HIDE DEF t, n, q
<1>7. maker \in Account \cup {Market} /\ Market \in Account \cup {Market}
  OBVIOUS
<1>8. held' \in Purses
  BY <1>1, <1>3, <1>6, <1>7, PaidNatural
<1>9. orders' \in Seq(SaneOrders)
  BY <1>1, <1>2, <1>3, <1>5, SaneAreOrders
<1>10. Indexed(orders', makerOrders')
  BY <1>1, <1>2, <1>3, <1>5, IndexedRewritten
<1>11. Book' = [held |-> held', orders |-> orders', open |-> makerOrders']
  BY DEF Book
<1>12. Sound([held |-> held', orders |-> orders', open |-> makerOrders'])
  BY <1>8, <1>9, <1>10 DEF Sound
<1> QED
  BY <1>11, <1>12 DEF Sound

\* The invariant: the book is sound, and the fee never exceeds its cap.
BookIInv == MarketOffice /\ Sound(Book)

LEMMA NewOrderSane ==
  ASSUME NEW maker \in Account, NEW side \in {"Buy", "Sell"}, NEW credits \in Token,
         NEW payment \in Token, NEW amount \in Nat \ {0}, NEW price \in Nat \ {0}
  PROVE  LET o == NewOrder(maker, side, credits, payment, amount, price)
         IN  o \in SaneOrders /\ IsOpen(o)
<1> DEFINE o == NewOrder(maker, side, credits, payment, amount, price)
<1>1. o \in Orders /\ o.filled = 0 /\ o.amount = amount
  BY NewOrderTyped
<1>2. o.status = "Open"
  BY DEF NewOrder
<1> HIDE DEF o
<1>3. o \in SaneOrders /\ IsOpen(o)
  BY <1>1, <1>2 DEF SaneOrders, IsOpen
<1> QED
  BY <1>3 DEF o

LEMMA CreatedSound ==
  ASSUME Sound(Book), NEW maker \in Account, NEW credits \in Token, NEW payment \in Token,
         NEW amount \in Int, NEW price \in Int,
         \/ CreateSellOrder(maker, credits, payment, amount, price)
         \/ CreateBuyOrder(maker, credits, payment, amount, price)
  PROVE  Sound(Book)'
<1>1. CASE CreateSellOrder(maker, credits, payment, amount, price)
  <2> DEFINE o == NewOrder(maker, "Sell", credits, payment, amount, price)
  <2>1. Create(o, credits, amount)
    BY <1>1 DEF CreateSellOrder
  <2>2. o.amount = amount /\ o.price = price
    BY DEF NewOrder
  <2> HIDE DEF o
  <2>3. amount \in Nat \ {0} /\ price \in Nat \ {0} /\ amount \in Nat
    BY <2>1, <2>2 DEF Create
  <2>4. o \in SaneOrders /\ IsOpen(o)
    BY <2>3, NewOrderSane DEF o
  <2> QED
    BY <2>1, <2>3, <2>4, CreateSound
<1>2. CASE CreateBuyOrder(maker, credits, payment, amount, price)
  <2> DEFINE o == NewOrder(maker, "Buy", credits, payment, amount, price)
             n == Cost(amount, price)
  <2>1. Create(o, payment, n)
    BY <1>2 DEF CreateBuyOrder
  <2>2. o.amount = amount /\ o.price = price
    BY DEF NewOrder
  <2> HIDE DEF o
  <2>3. amount \in Nat \ {0} /\ price \in Nat \ {0} /\ amount \in Nat /\ price \in Nat
    BY <2>1, <2>2 DEF Create
  <2>4. o \in SaneOrders /\ IsOpen(o)
    BY <2>3, NewOrderSane DEF o
  <2>5. n \in Nat
    BY <2>3, CostIsNatural
  <2> HIDE DEF n
  <2> QED
    BY <2>1, <2>4, <2>5, CreateSound
<1> QED
  BY <1>1, <1>2

LEMMA FillSound ==
  ASSUME MarketOffice, Sound(Book), NEW taker \in Account, NEW fills, Fillable(fills),
         Fill(taker, fills)
  PROVE  Sound(Book)'
<1> DEFINE outcome == Outcomes(taker, fills)[Len(fills)]
<1>1. /\ outcome.ok /\ held' = outcome.book.held /\ orders' = outcome.book.orders
      /\ makerOrders' = outcome.book.open
  BY DEF Fill
<1>2. Sound(outcome.book)
  BY <1>1, BatchSound
<1> HIDE DEF outcome
<1>3. Book' = [held |-> held', orders |-> orders', open |-> makerOrders']
  BY DEF Book
<1>4. Sound([held |-> held', orders |-> orders', open |-> makerOrders'])
  BY <1>1, <1>2 DEF Sound
<1> QED
  BY <1>3, <1>4 DEF Sound

LEMMA SendSound ==
  ASSUME Sound(Book), NEW from \in Account, NEW t \in Token, NEW n \in Int,
         SendToMarket(from, t, n)
  PROVE  Sound(Book)'
<1>1. /\ held' = Paid(held, t, from, Market, n) /\ orders' = orders
      /\ makerOrders' = makerOrders /\ n \in Nat /\ held[t][from] >= n
  BY DEF SendToMarket, CanPay
<1>2. held \in Purses /\ orders \in Seq(SaneOrders) /\ Indexed(orders, makerOrders)
  BY DEF Sound, Book
<1>3. from \in Account \cup {Market} /\ Market \in Account \cup {Market}
  OBVIOUS
<1>4. held' \in Purses
  BY <1>1, <1>2, <1>3, PaidNatural
<1>5. Book' = [held |-> held', orders |-> orders', open |-> makerOrders']
  BY DEF Book
<1>6. Sound([held |-> held', orders |-> orders', open |-> makerOrders'])
  BY <1>1, <1>2, <1>4 DEF Sound
<1> QED
  BY <1>5, <1>6 DEF Sound

LEMMA BookUntouched ==
  ASSUME Sound(Book), held' = held, orders' = orders, makerOrders' = makerOrders
  PROVE  Sound(Book)'
<1>1. Book' = Book
  BY DEF Book
<1> QED
  BY <1>1 DEF Sound

LEMMA BookInit ==
  ASSUME MarketInit
  PROVE  BookIInv
<1>1. MarketOffice
  <2>1. PICK bps \in Fees : bps <= MaxFeeBps /\ fee \in [bps : {bps}, recipient : FeeRecipients]
    BY DEF MarketInit
  <2>2. /\ bps \in Nat /\ MaxFeeBps \in Nat /\ FeeRecipients \subseteq Account \cup {Market}
        /\ FirstAdmin \in Account
    BY MarketAssumption
  <2>3. bps \in 0 .. MaxFeeBps
    BY <2>1, <2>2
  <2>4. fee \in [bps : 0 .. MaxFeeBps, recipient : Account \cup {Market}]
    BY <2>1, <2>2, <2>3
  <2> QED
    BY <2>2, <2>4 DEF MarketInit, MarketOffice
<1>2. /\ held = [t \in Token |-> [a \in Account \cup {Market} |-> IF a = Market THEN 0 ELSE Wealth]]
      /\ orders = <<>> /\ makerOrders = [a \in Account |-> <<>>]
  BY DEF MarketInit
<1>3. held \in Purses
  BY <1>2, MarketAssumption DEF Purses
<1>4. orders \in Seq(SaneOrders) /\ DOMAIN orders = {}
  BY <1>2
<1>5. \A m \in Account : OpenOf(orders, m) = {}
  BY <1>4 DEF OpenOf
<1> DEFINE e == <<>>
<1>6. e \in Seq(Nat) /\ Len(e) = 0 /\ DOMAIN e = {}
  OBVIOUS
<1>7. IsInjective(e) /\ Range(e) = {}
  BY <1>6 DEF IsInjective, Range
<1>8. 0 <= MaxOpenOrders
  BY MarketAssumption
<1>9. makerOrders = [a \in Account |-> e]
  BY <1>2
<1> HIDE DEF e
<1>10. Indexed(orders, makerOrders)
  BY <1>5, <1>6, <1>7, <1>8, <1>9 DEF Indexed
<1>11. Sound(Book)
  BY <1>3, <1>4, <1>10 DEF Sound, Book
<1> QED
  BY <1>1, <1>11 DEF BookIInv

LEMMA BookNext ==
  ASSUME BookIInv, [MarketNext]_marketVars
  PROVE  BookIInv'
<1>1. MarketOffice /\ Sound(Book)
  BY DEF BookIInv
<1>2. CASE UNCHANGED marketVars
  <2>1. /\ held' = held /\ orders' = orders /\ makerOrders' = makerOrders /\ fee' = fee
        /\ marketAdmin' = marketAdmin /\ marketPaused' = marketPaused
    BY <1>2 DEF marketVars
  <2>2. Sound(Book)'
    BY <1>1, <2>1, BookUntouched
  <2>3. MarketOffice'
    BY <1>1, <2>1 DEF MarketOffice
  <2> QED
    BY <2>2, <2>3 DEF BookIInv
<1>3. CASE MarketNext
  <2>1. PICK caller \in Account :
          \/ \E cr \in Credits, pay \in Token, n \in OrderAmounts, p \in Prices :
               \/ CreateSellOrder(caller, cr, pay, n, p)
               \/ CreateBuyOrder(caller, cr, pay, n, p)
          \/ \E f \in Fills : FillOrder(caller, f.id, f.amount)
          \/ \E fills \in UNION {[1 .. k -> Fills] : k \in 0 .. MaxBatchFill} :
               BatchFillOrders(caller, fills)
          \/ \E id \in 1 .. MaxOrders : CancelOrder(caller, id)
          \/ \E new \in Admins : SetMarketAdmin(caller, new)
          \/ \E bps \in Fees, to \in FeeRecipients : SetFee(caller, bps, to)
          \/ PauseMarket(caller)
          \/ UnpauseMarket(caller)
          \/ \E t \in Token, n \in Gifts : SendToMarket(caller, t, n)
    BY <1>3 DEF MarketNext
  <2>2. /\ Credits \subseteq Token /\ OrderAmounts \subseteq Int /\ Prices \subseteq Int
        /\ Gifts \subseteq Int /\ Fees \subseteq Nat /\ FeeRecipients \subseteq Account \cup {Market}
        /\ MaxBatchFill \in Nat /\ Admins \subseteq Account /\ MaxFeeBps \in Nat
    BY MarketAssumption
  <2> DEFINE Ours == fee' = fee /\ marketAdmin' = marketAdmin /\ marketPaused' = marketPaused
  <2>3. Ours => MarketOffice'
    BY <1>1 DEF MarketOffice
  <2>4. ASSUME NEW cr \in Credits, NEW pay \in Token, NEW n \in OrderAmounts, NEW p \in Prices,
               CreateSellOrder(caller, cr, pay, n, p) \/ CreateBuyOrder(caller, cr, pay, n, p)
        PROVE  Sound(Book)' /\ MarketOffice'
    <3>1. Ours
      BY <2>4 DEF CreateSellOrder, CreateBuyOrder, Create
    <3>2. cr \in Token /\ n \in Int /\ p \in Int
      BY <2>2
    <3>3. Sound(Book)'
      BY <1>1, <2>4, <3>2, CreatedSound
    <3> QED
      BY <2>3, <3>1, <3>3
  <2>5. ASSUME NEW f \in Fills, FillOrder(caller, f.id, f.amount)
        PROVE  Sound(Book)' /\ MarketOffice'
    <3> DEFINE fills == <<[id |-> f.id, amount |-> f.amount]>>
    <3>1. f.amount \in Int
      BY <2>2 DEF Fills
    <3>2. Len(fills) = 1 /\ fills[1].amount = f.amount
      OBVIOUS
    <3>3. Fill(caller, fills)
      BY <2>5 DEF FillOrder
    <3> HIDE DEF fills
    <3>4. Fillable(fills)
      BY <3>1, <3>2 DEF Fillable
    <3>5. Sound(Book)'
      BY <1>1, <3>3, <3>4, FillSound
    <3>6. Ours
      BY <3>3 DEF Fill
    <3> QED
      BY <2>3, <3>5, <3>6
  <2>6. ASSUME NEW fills \in UNION {[1 .. k -> Fills] : k \in 0 .. MaxBatchFill},
               BatchFillOrders(caller, fills)
        PROVE  Sound(Book)' /\ MarketOffice'
    <3>1. PICK k \in 0 .. MaxBatchFill : fills \in [1 .. k -> Fills]
      OBVIOUS
    <3>2. k \in Nat
      BY <2>2
    <3>3. Len(fills) = k
      BY <3>1, <3>2
    <3>4. \A f \in Fills : f.amount \in Int
      BY <2>2 DEF Fills
    <3>5. \A i \in 1 .. k : fills[i].amount \in Int
      BY <3>1, <3>4
    <3>6. Fillable(fills)
      BY <3>2, <3>3, <3>5 DEF Fillable
    <3>7. Fill(caller, fills)
      BY <2>6 DEF BatchFillOrders
    <3>8. Sound(Book)'
      BY <1>1, <3>6, <3>7, FillSound
    <3>9. Ours
      BY <3>7 DEF Fill
    <3> QED
      BY <2>3, <3>8, <3>9
  <2>7. ASSUME NEW id \in 1 .. MaxOrders, CancelOrder(caller, id)
        PROVE  Sound(Book)' /\ MarketOffice'
    <3>1. Sound(Book)'
      BY <1>1, <2>7, CancelSound
    <3>2. Ours
      BY <2>7 DEF CancelOrder
    <3> QED
      BY <2>3, <3>1, <3>2
  <2>8. ASSUME NEW new \in Admins, SetMarketAdmin(caller, new)
        PROVE  Sound(Book)' /\ MarketOffice'
    <3>1. Sound(Book)'
      BY <1>1, <2>8, BookUntouched DEF SetMarketAdmin
    <3>2. fee' = fee /\ marketPaused' = marketPaused /\ marketAdmin' \in Account
      BY <2>2, <2>8 DEF SetMarketAdmin
    <3>3. MarketOffice'
      BY <1>1, <3>2 DEF MarketOffice
    <3> QED
      BY <3>1, <3>3
  <2>9. ASSUME NEW bps \in Fees, NEW to \in FeeRecipients, SetFee(caller, bps, to)
        PROVE  Sound(Book)' /\ MarketOffice'
    <3>1. Sound(Book)'
      BY <1>1, <2>9, BookUntouched DEF SetFee
    <3>2. /\ fee' = [bps |-> bps, recipient |-> to] /\ bps <= MaxFeeBps
          /\ marketAdmin' = marketAdmin /\ marketPaused' = marketPaused
      BY <2>9 DEF SetFee
    <3>3. bps \in 0 .. MaxFeeBps /\ to \in Account \cup {Market}
      BY <2>2, <3>2
    <3>4. MarketOffice'
      BY <1>1, <3>2, <3>3 DEF MarketOffice
    <3> QED
      BY <3>1, <3>4
  <2>10. ASSUME PauseMarket(caller) \/ UnpauseMarket(caller)
         PROVE  Sound(Book)' /\ MarketOffice'
    <3>1. Sound(Book)'
      BY <1>1, <2>10, BookUntouched DEF PauseMarket, UnpauseMarket
    <3>2. fee' = fee /\ marketAdmin' = marketAdmin /\ marketPaused' \in BOOLEAN
      BY <2>10 DEF PauseMarket, UnpauseMarket
    <3>3. MarketOffice'
      BY <1>1, <3>2 DEF MarketOffice
    <3> QED
      BY <3>1, <3>3
  <2>11. ASSUME NEW t \in Token, NEW n \in Gifts, SendToMarket(caller, t, n)
         PROVE  Sound(Book)' /\ MarketOffice'
    <3>1. Sound(Book)'
      BY <1>1, <2>2, <2>11, SendSound
    <3>2. Ours
      BY <2>11 DEF SendToMarket
    <3> QED
      BY <2>3, <3>1, <3>2
  <2>12. Sound(Book)' /\ MarketOffice'
    BY <2>1, <2>4, <2>5, <2>6, <2>7, <2>8, <2>9, <2>10, <2>11
  <2> QED
    BY <2>12 DEF BookIInv
<1> QED
  BY <1>2, <1>3

LEMMA AlwaysSound == MarketSpec => []BookIInv
<1>1. MarketInit => BookIInv
  BY BookInit
<1>2. BookIInv /\ [MarketNext]_marketVars => BookIInv'
  BY BookNext
<1> QED
  BY <1>1, <1>2, PTL DEF MarketSpec

\* The type invariant: no balance and no remainder is ever negative, whatever part
\* fills, batches, fee changes and cancellations, and a status says what is filled.
THEOREM MarketTypes == MarketSpec => []MarketTypeOK
<1>1. BookIInv => MarketTypeOK
  <2> SUFFICES ASSUME BookIInv PROVE MarketTypeOK
    OBVIOUS
  <2>1. held \in Purses /\ orders \in Seq(SaneOrders) /\ Indexed(orders, makerOrders) /\ MarketOffice
    BY DEF BookIInv, Sound, Book
  <2>2. \A id \in DOMAIN orders : orders[id] \in SaneOrders
    BY <2>1, SaneAreOrders
  <2>3. SaneOrders \subseteq Order
    BY DEF SaneOrders, Orders
  <2>4. orders \in Seq(Order)
    BY <2>1, <2>3
  <2>5. \A id \in DOMAIN orders : /\ orders[id].filled <= orders[id].amount
                                  /\ orders[id].status = "Filled" <=> orders[id].filled = orders[id].amount
                                  /\ orders[id].status = "Open" => orders[id].filled = 0
    BY <2>2 DEF SaneOrders, Orders
  <2>6. makerOrders \in [Account -> Seq(DOMAIN orders)]
    <3>1. makerOrders \in [Account -> Seq(Nat)]
      BY <2>1 DEF Indexed
    <3>2. ASSUME NEW m \in Account PROVE makerOrders[m] \in Seq(DOMAIN orders)
      <4> DEFINE s == makerOrders[m]
      <4>1. s \in Seq(Nat) /\ Range(s) \subseteq DOMAIN orders
        BY <2>1, <3>1 DEF Indexed, OpenOf
      <4> HIDE DEF s
      <4>2. \A i \in 1 .. Len(s) : s[i] \in DOMAIN orders
        BY <4>1 DEF Range
      <4>3. s \in Seq(DOMAIN orders)
        BY <4>1, <4>2, SeqDef
      <4> QED
        BY <4>3 DEF s
    <3> QED
      BY <3>1, <3>2
  <2> QED
    BY <2>1, <2>4, <2>5, <2>6 DEF MarketTypeOK, MarketOffice, Purses
<1> QED
  BY <1>1, AlwaysSound, PTL

\* A maker's list is the maker's open orders, each once and no more than allowed,
\* whoever fills them, one by one or in batches.
THEOREM OpenOrdersIndexed == MarketSpec => []OpenOrdersAreIndexed
<1>1. BookIInv => OpenOrdersAreIndexed
  <2>1. BookIInv => Indexed(orders, makerOrders)
    BY DEF BookIInv, Sound, Book
  <2>2. \A m \in Account : OpenOf(orders, m) = {id \in OpenIds : orders[id].maker = m}
    BY DEF OpenOf, OpenIds
  <2> QED
    BY <2>1, <2>2 DEF Indexed, OpenOrdersAreIndexed
<1> QED
  BY <1>1, AlwaysSound, PTL
================================================================================
