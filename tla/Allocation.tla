----------------------------- MODULE Allocation -----------------------------
(***************************************************************************)
(* The calculator's orders (web/src/allocation.ts, and the form of ui.ts    *)
(* that feeds it): target weights from the categories of a form, and what   *)
(* to buy or sell of each fund with a sum of cash.                          *)
(*                                                                         *)
(* Money is in cents and a weight in hundredths of a percent, so that a     *)
(* division loses less than one of them; a fund is a member of a set and a  *)
(* category a set of funds.                                                 *)
(***************************************************************************)
EXTENDS Integers, FiniteSets, FiniteSetsExt

Full == 10000        \* the whole of it, 100 %
WeightSlack == 1     \* what the weights may miss it by, beside what the divisions lose
Unpriced == -1

Total(f, S) == MapThenSumSet(LAMBDA s : f[s], S)
AtLeast(floor, n) == IF n > floor THEN n ELSE floor
Towards0(n, d) == IF n >= 0 THEN n \div d ELSE -((-n) \div d)

----------------------------------------------------------------------------
(* Weights.  A form has the funds' values, its categories with the funds    *)
(* ticked in them, a target for each category and how it is split.          *)
categoryMemberShares(weight, members, value, split) ==
    [s \in members |-> IF split = "value" /\ Total(value, members) > 0
                       THEN (weight * value[s]) \div Total(value, members)
                       ELSE weight \div Cardinality(members)]

\* A category's weight goes to the funds ticked in it.
targeted(form) == {k \in DOMAIN form.target : form.target[k] > 0 /\ form.members[k] # {}}
ticked(form, k) == form.members[k] \cap form.ticked
buildWeights(form) ==
    LET shares == [k \in targeted(form) |->
                      categoryMemberShares(form.target[k], ticked(form, k), form.value, form.split)]
    IN [s \in UNION {ticked(form, k) : k \in targeted(form)} |->
            shares[CHOOSE k \in targeted(form) : s \in form.members[k]][s]]

scaleTo100(w) ==
    LET positive == {s \in DOMAIN w : w[s] > 0}
    IN [s \in positive |-> (w[s] * Full) \div Total(w, positive)]

\* Funds of a targeted category that are held and not ticked: they count, and are
\* never bought.
heldBeside(form, pct) ==
    {s \in UNION {form.members[k] : k \in targeted(form)} :
        s \notin form.ticked /\ s \notin DOMAIN pct /\ form.value[s] > 0}

----------------------------------------------------------------------------
(* The plan.  An order book has the funds' weights, values and prices, the   *)
(* funds not to be bought, the groups that are funded together and the cash. *)
funds(b) == DOMAIN b.pct
buyable(b) == funds(b) \ b.noBuy
targetValue(b) ==
    LET after == Total(b.value, funds(b)) + b.cash
    IN [s \in funds(b) |-> (after * b.pct[s]) \div Full]

\* MUTANT: only the funds one buys count towards their category.
buyOnlyGaps_Own(b, target) ==
    [s \in buyable(b) |->
        LET bought == {g \in b.groups : s \in g}
            own == UNION bought \ b.noBuy
            gap == AtLeast(0, Total(target, own) - Total(b.value, own))
            weight == Total(target, own)
        IN IF weight > 0 THEN (gap * target[s]) \div weight ELSE gap \div Cardinality(own)]

\* What a group lacks of its target, shared by the funds of it one buys.
buyOnlyGaps(b, target) ==
    [s \in buyable(b) |->
        LET group == UNION {g \in b.groups : s \in g}
            own == group \ b.noBuy
            gap == AtLeast(0, Total(target, group) - Total(b.value, group))
            weight == Total(target, own)
        IN IF weight > 0 THEN (gap * target[s]) \div weight ELSE gap \div Cardinality(own)]

\* Short cash is shared by the gaps, cash beyond them by the weights.
planBuyOnly(b, target) ==
    LET gap == buyOnlyGaps(b, target)
        gaps == Total(gap, buyable(b))
        weight == Total(b.pct, buyable(b))
        share(s) == IF weight > 0 THEN ((b.cash - gaps) * b.pct[s]) \div weight
                    ELSE (b.cash - gaps) \div Cardinality(buyable(b))
    IN [s \in funds(b) |->
            CASE s \notin buyable(b) -> 0
              [] s \in buyable(b) /\ gaps > b.cash -> (gap[s] * b.cash) \div gaps
              [] OTHER -> gap[s] + share(s)]

planWithSells(b, target) ==
    [s \in funds(b) |-> IF s \in b.noBuy /\ target[s] > b.value[s] THEN 0 ELSE target[s] - b.value[s]]

\* An order in whole shares never exceeds the sum it is for; fractions are exact.
orderOf(add, price, fractional) ==
    IF price = Unpriced \/ fractional THEN add
    ELSE IF price <= 0 THEN 0 ELSE Towards0(add, price) * price

planRebalance(b) ==
    LET target == targetValue(b)
        add == IF b.allowSell THEN planWithSells(b, target) ELSE planBuyOnly(b, target)
        orders == [s \in funds(b) |-> orderOf(add[s], b.price[s], b.fractional)]
        off == Total(b.pct, funds(b)) - Full
    IN [rejected |-> b.cash < 0 \/ off > WeightSlack \/ -off > WeightSlack + Cardinality(funds(b)),
        orders |-> orders, residual |-> AtLeast(0, b.cash - Total(orders, funds(b)))]

\* The form's button: a target without a ticked fund is refused, as are no targets and no
\* cash to buy with; the held funds join what is planned.
complete(form) ==
    /\ targeted(form) # {} /\ \A k \in targeted(form) : ticked(form, k) # {}
    /\ form.cash > 0 \/ form.allowSell
orderBook(form) ==
    LET pct == scaleTo100(buildWeights(form))
        held == IF form.allowSell THEN {} ELSE heldBeside(form, pct)
        all == DOMAIN pct \cup held
    IN [pct |-> [s \in all |-> IF s \in held THEN 0 ELSE pct[s]],
        value |-> form.value, price |-> form.price, cash |-> form.cash, noBuy |-> held,
        groups |-> {form.members[k] \cap all : k \in DOMAIN form.members} \ {{}},
        allowSell |-> form.allowSell, fractional |-> form.fractional]

----------------------------------------------------------------------------
(* What the orders promise, up to a cent or two for each division. *)
Dust(b) == 3 * Cardinality(funds(b))
Exact(a, b, slack) == a - b <= slack /\ b - a <= slack
oneShare(b) == [s \in funds(b) |-> AtLeast(0, b.price[s])]

\* Buying only: nothing is sold, nothing beyond the cash is spent, and only funds that
\* are ticked are bought; what is not spent is less than a share of each fund.
OnlyBuys(b, p) ==
    LET spent == Total(p.orders, funds(b))
        kept == IF b.fractional THEN 0 ELSE Total(oneShare(b), buyable(b))
    IN /\ \A s \in funds(b) : p.orders[s] >= 0 /\ (s \in b.noBuy => p.orders[s] = 0)
       /\ p.residual = b.cash - spent
       /\ (\A s \in buyable(b) : b.price[s] # 0) => p.residual <= kept + Dust(b)

\* Cash goes where it lacks: none to a category that is funded, the funds one merely
\* holds counted, while another still lacks more than it was given; of a fund whose price
\* is zero no whole share can be ordered.
FundsTheShort(b, p) ==
    LET target == targetValue(b)
        lacks(g) == Total(target, g) - Total(b.value, g)
        given(g) == Total(p.orders, g)
        open == {g \in b.groups : g \ b.noBuy # {}}
        fundable == {h \in open : b.fractional \/ \A s \in h \ b.noBuy : b.price[s] # 0}
    IN \A g \in open, h \in fundable :
          given(g) > AtLeast(0, lacks(g)) + Dust(b) =>
              given(h) + Total(oneShare(b), h) + Dust(b) >= lacks(h)

\* What an order may miss its sum by: nothing, all of it without a price, or a share.
offBy(b, s) ==
    IF b.fractional \/ b.price[s] = Unpriced THEN 0
    ELSE IF b.price[s] = 0 THEN AtLeast(targetValue(b)[s] - b.value[s], b.value[s] - targetValue(b)[s])
    ELSE b.price[s]

\* Selling too: every fund ends within a share of its target, and what is bought beyond
\* the cash and the sales is less than the shares that sales were rounded down by.
ReachesTargets(b, p) ==
    LET target == targetValue(b)
        off == [s \in funds(b) |-> offBy(b, s)]
        sold == {s \in funds(b) : target[s] < b.value[s]}
    IN /\ \A s \in funds(b) : Exact(b.value[s] + p.orders[s], target[s], off[s])
       /\ Total(p.orders, funds(b)) <= b.cash + Total(off, sold) + Dust(b)

OrdersRight(form) ==
    LET b == orderBook(form)
        p == planRebalance(b)
    IN complete(form) =>
          /\ ~p.rejected
          /\ IF b.allowSell THEN ReachesTargets(b, p) ELSE OnlyBuys(b, p) /\ FundsTheShort(b, p)
=============================================================================
