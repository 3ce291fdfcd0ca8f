--------------------------- MODULE CreditMarketplace ---------------------------
(***************************************************************************)
(* contracts/credit_marketplace: an order book that holds the credits of   *)
(* its sell orders and the payment of its buy orders in escrow.            *)
(*                                                                         *)
(* The tokens are other contracts and are modelled by what the marketplace *)
(* relies on: a transfer moves a positive amount its owner has, or the     *)
(* whole call is refused.  Owners approve the marketplace for what they    *)
(* trade.  Orders are numbered from 1 and never deleted, so they are a     *)
(* sequence, whose length is DataKey::OrderCount.                          *)
(***************************************************************************)
EXTENDS Integers, FiniteSets, Functions, Selections

CONSTANTS
  Account,         \* users of the marketplace
  Market,          \* the marketplace's own address
  Token,           \* the tokens traded and paid with
  Credits,         \* those traded
  FirstAdmin,      \* the admin named to initialize
  Wealth,          \* what each account first has of each token
  OrderAmounts,    \* amounts named to orders and fills
  Prices,          \* prices named to orders
  Gifts,           \* amounts sent to the marketplace outside of any order
  Admins,          \* addresses named to set_admin
  Fees,            \* fees in basis points named to initialize and set_fee
  FeeRecipients,   \* addresses named to initialize and set_fee
  PricePrecision,  \* PRICE_PRECISION
  BpsDenominator,  \* BPS_DENOMINATOR
  MaxFeeBps,       \* MAX_FEE_BPS
  MaxOpenOrders,   \* MAX_OPEN_ORDERS_PER_MAKER
  MaxBatchFill,    \* most fills of one batch (a bound of the model)
  MaxOrders        \* most orders ever created (a bound of the model)

ASSUME MarketAssumption ==
  /\ Market \notin Account
  /\ FirstAdmin \in Account
  /\ Admins \subseteq Account
  /\ FeeRecipients \subseteq Account \cup {Market}
  /\ Credits \subseteq Token
  /\ Wealth \in Nat
  /\ OrderAmounts \subseteq Int
  /\ Prices \subseteq Int
  /\ Gifts \subseteq Int
  /\ Fees \subseteq Nat
  /\ PricePrecision \in Nat \ {0}
  /\ BpsDenominator \in Nat \ {0}
  /\ MaxFeeBps \in 0 .. BpsDenominator
  /\ MaxOpenOrders \in Nat
  /\ MaxBatchFill \in Nat
  /\ MaxOrders \in Nat

VARIABLES
  held,          \* what every address has of every token
  orders,        \* DataKey::Order, by number
  makerOrders,   \* DataKey::MakerOrders
  fee,           \* DataKey::FeeBps and FeeRecipient
  marketAdmin,   \* DataKey::Admin
  marketPaused   \* DataKey::Paused

marketVars == <<held, orders, makerOrders, fee, marketAdmin, marketPaused>>

\* The tokens and the orders change together; a book is both.
Book == [held |-> held, orders |-> orders, open |-> makerOrders]

Order == [ maker : Account, side : {"Buy", "Sell"}, credits : Token, payment : Token,
           amount : Nat \ {0}, filled : Nat, price : Nat \ {0},
           status : {"Open", "PartiallyFilled", "Filled", "Cancelled"} ]

Remaining(o) == o.amount - o.filled
IsOpen(o) == o.status \in {"Open", "PartiallyFilled"}

--------------------------------------------------------------------------------
\* Mutant: a cost is rounded up.
CostRoundedUp(amount, price) == (amount * price + PricePrecision - 1) \div PricePrecision

\* What `amount' credits cost; a cost of zero is refused wherever it is used.
Cost(amount, price) == (amount * price) \div PricePrecision

Fee(cost) == (cost * fee.bps) \div BpsDenominator

\* A token's transfer, and whether the token makes it.
CanPay(wallets, token, from, amount) == wallets[token][from] >= amount
Paid(wallets, token, from, to, amount) ==
  LET debited == [wallets[token] EXCEPT ![from] = @ - amount]
  IN  [wallets EXCEPT ![token] = [debited EXCEPT ![to] = @ + amount]]

\* remove_maker_order.
Delisted(open, maker, id) == [open EXCEPT ![maker] = Chosen(@, Range(@) \ {id})]

--------------------------------------------------------------------------------
\* Creates an order and puts what it offers, `escrow' of `token', into escrow.
Create(order, token, escrow) ==
  /\ Len(orders) < MaxOrders
  /\ ~marketPaused
  /\ order.amount > 0
  /\ order.price > 0
  /\ Cost(order.amount, order.price) > 0
  /\ CanPay(held, token, order.maker, escrow)
  /\ Len(makerOrders[order.maker]) < MaxOpenOrders
  /\ held' = Paid(held, token, order.maker, Market, escrow)
  /\ orders' = Append(orders, order)
  /\ makerOrders' = [makerOrders EXCEPT ![order.maker] = Append(@, Len(orders) + 1)]
  /\ UNCHANGED <<fee, marketAdmin, marketPaused>>

NewOrder(maker, side, credits, payment, amount, price) ==
  [ maker |-> maker, side |-> side, credits |-> credits, payment |-> payment,
    amount |-> amount, filled |-> 0, price |-> price, status |-> "Open" ]

CreateSellOrder(maker, credits, payment, amount, price) ==
  Create(NewOrder(maker, "Sell", credits, payment, amount, price), credits, amount)

CreateBuyOrder(maker, credits, payment, amount, price) ==
  Create(NewOrder(maker, "Buy", credits, payment, amount, price),
         payment, Cost(amount, price))

Transfer(token, from, to, n) == [token |-> token, from |-> from, to |-> to, n |-> n]

\* The three transfers of a fill of order o, in the code's order: what the taker
\* gives, taken from its own account, and what escrow pays.
Settlement(o, taker, amount) ==
  LET cost == Cost(amount, o.price)
  IN  IF o.side = "Sell"
        THEN << Transfer(o.payment, taker, o.maker, cost - Fee(cost)),
                Transfer(o.payment, taker, fee.recipient, Fee(cost)),
                Transfer(o.credits, Market, taker, amount) >>
        ELSE << Transfer(o.credits, taker, o.maker, amount),
                Transfer(o.payment, Market, taker, cost - Fee(cost)),
                Transfer(o.payment, Market, fee.recipient, Fee(cost)) >>

\* Makes a transfer; one that cannot be made refuses those before it too.
Transferred(s, t) ==
  IF s.ok /\ CanPay(s.wallets, t.token, t.from, t.n)
    THEN [ok |-> TRUE, wallets |-> Paid(s.wallets, t.token, t.from, t.to, t.n)]
    ELSE [ok |-> FALSE, wallets |-> s.wallets]

Settled(wallets, transfers) ==
  Transferred(Transferred(Transferred([ok |-> TRUE, wallets |-> wallets],
                                      transfers[1]), transfers[2]), transfers[3])

FillableBy(book, id, amount) ==
  /\ amount > 0
  /\ id \in DOMAIN book.orders
  /\ IsOpen(book.orders[id])
  /\ amount <= Remaining(book.orders[id])
  /\ Cost(amount, book.orders[id].price) > 0

\* Fills `amount' of order id, in a book that may have been refused before.
Filled(outcome, taker, id, amount) ==
  IF ~(outcome.ok /\ FillableBy(outcome.book, id, amount))
    THEN [ok |-> FALSE, book |-> outcome.book]
    ELSE LET book == outcome.book
             o == book.orders[id]
             settled == Settled(book.held, Settlement(o, taker, amount))
             filled == o.filled + amount
             done == filled = o.amount
         IN  [ ok |-> settled.ok,
               book |->
                 [ held |-> settled.wallets,
                   orders |-> [book.orders EXCEPT ![id].filled = filled,
                     ![id].status = IF done THEN "Filled" ELSE "PartiallyFilled"],
                   open |-> IF done THEN Delisted(book.open, o.maker, id) ELSE book.open ] ]

\* One fill, or a batch of them, one after the other; one refused refuses all.
Outcomes(taker, fills) ==
  LET after[i \in 0 .. Len(fills)] ==
        IF i = 0 THEN [ok |-> TRUE, book |-> Book]
                 ELSE Filled(after[i - 1], taker, fills[i].id, fills[i].amount)
  IN  after

Fill(taker, fills) ==
  LET outcome == Outcomes(taker, fills)[Len(fills)]
  IN  /\ ~marketPaused
      /\ outcome.ok
      /\ held' = outcome.book.held
      /\ orders' = outcome.book.orders
      /\ makerOrders' = outcome.book.open
      /\ UNCHANGED <<fee, marketAdmin, marketPaused>>

FillOrder(taker, id, amount) == Fill(taker, <<[id |-> id, amount |-> amount]>>)

BatchFillOrders(taker, fills) == fills # <<>> /\ Fill(taker, fills)

\* What a cancellation gives back.  The rounding of earlier fills stays behind.
Refund(o) ==
  IF o.side = "Sell" THEN [token |-> o.credits, n |-> Remaining(o)]
                     ELSE [token |-> o.payment, n |-> Cost(Remaining(o), o.price)]

\* Mutant: an order that is no longer open is cancelled again.
CancelAnyTime(maker, id) ==
  /\ id \in DOMAIN orders
  /\ orders[id].maker = maker
  /\ CanPay(held, Refund(orders[id]).token, Market, Refund(orders[id]).n)
  /\ held' = Paid(held, Refund(orders[id]).token, Market, maker, Refund(orders[id]).n)
  /\ orders' = [orders EXCEPT ![id].status = "Cancelled"]
  /\ makerOrders' = Delisted(makerOrders, maker, id)
  /\ UNCHANGED <<fee, marketAdmin, marketPaused>>

\* Mutant: a cancelled order stays listed.
CancelKeepingListed(maker, id) ==
  /\ id \in DOMAIN orders
  /\ orders[id].maker = maker
  /\ IsOpen(orders[id])
  /\ CanPay(held, Refund(orders[id]).token, Market, Refund(orders[id]).n)
  /\ held' = Paid(held, Refund(orders[id]).token, Market, maker, Refund(orders[id]).n)
  /\ orders' = [orders EXCEPT ![id].status = "Cancelled"]
  /\ UNCHANGED <<makerOrders, fee, marketAdmin, marketPaused>>

\* Paused or not.  A buy order whose remainder costs nothing is refused.
CancelOrder(maker, id) ==
  /\ id \in DOMAIN orders
  /\ orders[id].maker = maker
  /\ IsOpen(orders[id])
  /\ Refund(orders[id]).n > 0
  /\ CanPay(held, Refund(orders[id]).token, Market, Refund(orders[id]).n)
  /\ held' = Paid(held, Refund(orders[id]).token, Market, maker, Refund(orders[id]).n)
  /\ orders' = [orders EXCEPT ![id].status = "Cancelled"]
  /\ makerOrders' = Delisted(makerOrders, maker, id)
  /\ UNCHANGED <<fee, marketAdmin, marketPaused>>

--------------------------------------------------------------------------------
SetMarketAdmin(caller, new) ==
  /\ caller = marketAdmin
  /\ marketAdmin' = new
  /\ UNCHANGED <<held, orders, makerOrders, fee, marketPaused>>

SetFee(caller, bps, recipient) ==
  /\ caller = marketAdmin
  /\ bps <= MaxFeeBps
  /\ fee' = [bps |-> bps, recipient |-> recipient]
  /\ UNCHANGED <<held, orders, makerOrders, marketAdmin, marketPaused>>

PauseMarket(caller) ==
  /\ caller = marketAdmin
  /\ marketPaused' = TRUE
  /\ UNCHANGED <<held, orders, makerOrders, fee, marketAdmin>>

UnpauseMarket(caller) ==
  /\ caller = marketAdmin
  /\ marketPaused' = FALSE
  /\ UNCHANGED <<held, orders, makerOrders, fee, marketAdmin>>

\* Anyone may send the marketplace tokens outside of any order.
SendToMarket(from, token, amount) ==
  /\ amount > 0
  /\ CanPay(held, token, from, amount)
  /\ held' = Paid(held, token, from, Market, amount)
  /\ UNCHANGED <<orders, makerOrders, fee, marketAdmin, marketPaused>>

--------------------------------------------------------------------------------
\* After initialize, which a deployment is expected to call first.
MarketInit ==
  /\ held = [t \in Token |-> [a \in Account \cup {Market} |->
               IF a = Market THEN 0 ELSE Wealth]]
  /\ orders = <<>>
  /\ makerOrders = [a \in Account |-> <<>>]
  /\ \E bps \in Fees : bps <= MaxFeeBps /\ fee \in [bps : {bps}, recipient : FeeRecipients]
  /\ marketAdmin = FirstAdmin
  /\ marketPaused = FALSE

Fills == [id : 1 .. MaxOrders, amount : OrderAmounts]

MarketNext ==
  \E caller \in Account :
    \/ \E cr \in Credits, pay \in Token, n \in OrderAmounts, p \in Prices :
         \/ CreateSellOrder(caller, cr, pay, n, p)
         \/ CreateBuyOrder(caller, cr, pay, n, p)
    \/ \E f \in Fills : FillOrder(caller, f.id, f.amount)
    \/ \E fills \in UNION {[1 .. k -> Fills] : k \in 0 .. MaxBatchFill} :
         BatchFillOrders(caller, fills)
    \/ \E id \in 1 .. MaxOrders : CancelOrder(caller, id)
    \/ \E new \in Admins : SetMarketAdmin(caller, new)
    \/ \E bps \in Fees, to \in FeeRecipients : SetFee(caller, bps, to)
    \/ PauseMarket(caller)
    \/ UnpauseMarket(caller)
    \/ \E t \in Token, n \in Gifts : SendToMarket(caller, t, n)

MarketSpec == MarketInit /\ [][MarketNext]_marketVars

--------------------------------------------------------------------------------
\* The state keeps its types: no holding and no remainder is ever negative, and
\* an order's status says how far it is filled.
MarketTypeOK ==
  /\ held \in [Token -> [Account \cup {Market} -> Nat]]
  /\ orders \in Seq(Order)
  /\ \A id \in DOMAIN orders :
       /\ orders[id].filled <= orders[id].amount
       /\ orders[id].status = "Filled" <=> orders[id].filled = orders[id].amount
       /\ orders[id].status = "Open" => orders[id].filled = 0
  /\ makerOrders \in [Account -> Seq(DOMAIN orders)]
  /\ fee \in [bps : 0 .. MaxFeeBps, recipient : Account \cup {Market}]
  /\ marketAdmin \in Account
  /\ marketPaused \in BOOLEAN

\* What an order has a claim to, of a token, as long as it is open.
Claim(o, token) ==
  CASE IsOpen(o) /\ o.side = "Sell" /\ o.credits = token -> Remaining(o)
    [] IsOpen(o) /\ o.side = "Buy" /\ o.payment = token  -> Cost(Remaining(o), o.price)
    [] OTHER                                             -> 0

OpenIds == {id \in DOMAIN orders : IsOpen(orders[id])}

\* The escrow covers every open order at once, whatever part fills, batches and
\* fee changes came before: the rounding of each fill never eats into another
\* order's escrow, even when credits are paid for with the same token.
EscrowCoversOpenOrders ==
  \A t \in Token :
    held[t][Market] >= SumFunction([id \in DOMAIN orders |-> Claim(orders[id], t)])

\* Every maker's list holds exactly the maker's open orders, each once and no
\* more than allowed, through fills by others, batches and cancellations.
OpenOrdersAreIndexed ==
  \A m \in Account :
    /\ IsInjective(makerOrders[m])
    /\ Range(makerOrders[m]) = {id \in OpenIds : orders[id].maker = m}
    /\ Len(makerOrders[m]) <= MaxOpenOrders

\* An order's terms never change, what is filled is never unfilled, and an order
\* once filled or cancelled stays as it is.
ClosedOrdersAreFinal ==
  [][ \A id \in DOMAIN orders :
        /\ id \in DOMAIN orders'
        /\ orders'[id] = [orders[id] EXCEPT !.filled = orders'[id].filled,
                                            !.status = orders'[id].status]
        /\ orders'[id].filled >= orders[id].filled
        /\ ~IsOpen(orders[id]) => orders'[id] = orders[id] ]_marketVars

\* "Cancel an open order and return any remaining escrowed tokens to the maker":
\* the maker of any open order gets something back for it.
OpenOrdersCanBeCancelled == \A id \in OpenIds : Refund(orders[id]).n > 0
================================================================================
