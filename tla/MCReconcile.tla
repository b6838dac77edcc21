---------------------------- MODULE MCReconcile ----------------------------
(* Inputs of up to three lines that meet every branch of the engine.       *)
EXTENDS Reconcile, SequencesExt

Coin(asset, text) == [asset |-> asset, text |-> text]
Num(n, text) == [number |-> n, text |-> text]
Rec(name, ref, value, equity) == [name |-> name, ref |-> ref, value |-> value, equity |-> equity]
Holds(shape, items) == [shape |-> shape, items |-> items]
Ex(id, at, route, body) ==
    [form |-> "object", id |-> id, provider |-> "bybit", at |-> at, scope |-> "default",
     route |-> route, flaws |-> {}, body |-> body]

Btc == Coin("BTC", "BTC")
One == Num(1, "1")
Two == Num(2, "2.0")

\* Exchanges of Bybit that an input may hold: the same position twice, spelt otherwise,
\* and a third time with other figures; two balances that differ in equity; funding
\* without a time; one trade id twice; an unknown route and unknown bodies.
BybitGood == {
    Ex("x1", 1, "positions", Holds("array", <<Rec(Btc, "Buy", One, Missing)>>)),
    Ex("x2", 2, "position_list",
       Holds("result.list", <<Rec(Coin("BTC", "btc"), "Buy", Num(1, "1.00"), Missing), Junk>>)),
    Ex("x3", 3, "positions",
       Holds("list", <<Rec(Btc, "Buy", Two, Missing), Rec(Missing, "Buy", One, Missing)>>)),
    Ex("x4", 2, "wallet_balance", Holds("result.single", <<Rec(Btc, Missing, One, Two)>>)),
    Ex("x5", 3, "balance", Holds("result", <<Rec(Btc, Missing, One, Missing)>>)),
    Ex("x6", 1, "funding", Holds("array", <<Rec(Btc, Missing, One, Missing), Rec(Btc, Missing, One, Missing),
                                           Rec(Btc, Missing, Num(NotANumber, "NaN"), Missing)>>)),
    Ex("x7", 2, "fills", Holds("array", <<Rec(Btc, "t1", One, Missing), Rec(Coin("ETH", "eth"), "t1", One, Missing)>>)),
    Ex("x8", 1, "orders", Holds("array", <<>>)),
    Ex("x9", 1, "closed_pnl", Holds("foreign", <<>>)),
    Ex("x10", 1, "pnl", Holds("scalar", <<>>))}

\* What the validator or the parser refuses, and an extra field that --no-strict lets through.
BybitBad == {
    [Ex("x1", 1, "positions", Holds("scalar", <<>>)) EXCEPT !.flaws = {"request"}],
    [Ex(Missing, 1, "positions", Holds("scalar", <<>>)) EXCEPT !.flaws = {"auth"}],
    [Ex("x11", 2, "positions", Holds("single", <<Rec(Btc, "Buy", One, Missing)>>))
        EXCEPT !.scope = "alt", !.flaws = {"unknown_field"}],
    [Ex("x12", 1, "positions", Holds("scalar", <<>>)) EXCEPT !.provider = "lighter"],
    Ex("x13", Missing, "positions", Holds("hollow", <<>>)),
    [form |-> "blank"], [form |-> "broken"]}

Lighter(e) == [e EXCEPT !.provider = "lighter"]
LighterGood == {Lighter(e) : e \in {
    Ex("y1", 1, "account_positions", Holds("data", <<Rec(Btc, Missing, One, Missing)>>)),
    Ex("y2", 3, "positions", Holds("data.section", <<Rec(Btc, "LONG", One, Missing)>>)),
    Ex("y3", 2, "account_trades", Holds("section", <<Rec(Btc, "t1", One, Missing), Rec(Btc, Missing, One, Missing)>>)),
    Ex("y4", 2, "funding_payments", Holds("array", <<Rec(Btc, "10:00", One, Missing)>>)),
    Ex("y5", 3, "account_pnl", Holds("single", <<Rec(Btc, "t1", Two, Missing)>>)),
    Ex("y6", 2, "balances", Holds("data.single", <<Rec(Btc, Missing, Missing, Missing)>>)),
    Ex("y7", 2, "account", Holds("hollow", <<>>)),
    Ex("y8", 2, "wallet_balance", Holds("array", <<>>))}}

Asked(provider, source, lines, maxAge, strict) ==
    [source |-> source, readable |-> TRUE, provider |-> provider, asOf |-> 3,
     maxAge |-> maxAge, strict |-> strict, lines |-> lines]

GoodCalls ==
    {Asked("bybit", "file", lines, 1, TRUE) : lines \in BoundedSeq(BybitGood, 3)}
    \cup {Asked("lighter", "items", lines, 0, TRUE) : lines \in BoundedSeq(LighterGood, 2)}
MixedCalls ==
    {Asked("bybit", source, lines, 0, strict) :
        <<source, lines, strict>> \in {"text", "items"} \X BoundedSeq(BybitGood \cup BybitBad, 2) \X BOOLEAN}
OddCalls ==
    LET plain == Asked("bybit", "file", <<>>, 0, TRUE)
    IN {[plain EXCEPT !.source = "other"], [plain EXCEPT !.readable = FALSE],
        [plain EXCEPT !.provider = "kraken"], [plain EXCEPT !.maxAge = -1], [plain EXCEPT !.asOf = Missing]}
AllCalls == GoodCalls \cup MixedCalls \cup OddCalls
=============================================================================
