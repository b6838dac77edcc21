-------------------------- MODULE ExchangeAdapters --------------------------
(***************************************************************************)
(* The two adapters of motim/reconcile/adapters: which routes they know,   *)
(* where in a response body the records are, and what facts one record     *)
(* stands for.                                                             *)
(*                                                                         *)
(* A record is [name, ref, value, equity]: the symbol or coin, the second  *)
(* identifier (side, trade id, time or order id), the figures as one, and  *)
(* the figure of the equity.  Anything may be Missing.  A name is          *)
(* [asset, text] and a figure [number, text]: what the text says and how   *)
(* it is spelt, of which only the first survives the conversions.  Junk is *)
(* an entry of a list that is no object.  A report is one raw fact:        *)
(*     key    what it is deduplicated by, without the account scope        *)
(*     id     the fact_id                                                  *)
(*     data   the canonical fields                                         *)
(***************************************************************************)
EXTENDS Integers, Sequences

CONSTANTS Missing,       \* absent; of all but figures and sides, also null or empty
          NotANumber,    \* a figure that is null, that Decimal() refuses or that
                         \* is not finite
          Junk           \* an entry of a list that is not a dict

Providers == {"bybit", "lighter"}

BybitRoutes ==
    [positions |-> "position", position_list |-> "position", execution_list |-> "fill",
     fills |-> "fill", funding_history |-> "funding", funding |-> "funding",
     wallet_balance |-> "balance", balance |-> "balance", closed_pnl |-> "pnl", pnl |-> "pnl"]

LighterRoutes ==
    [positions |-> "position", account_positions |-> "position", trades |-> "fill",
     fills |-> "fill", account_trades |-> "fill", funding_payments |-> "funding",
     funding |-> "funding", account |-> "balance", balances |-> "balance",
     pnl |-> "pnl", account_pnl |-> "pnl"]

\* The adapter get_adapter() finds, as its table of routes.
Routes(provider) == IF provider = "bybit" THEN BybitRoutes ELSE LighterRoutes

(***************************************************************************)
(* Bodies.  "hollow" is an object with one of the wrapper keys and no      *)
(* list or record under it, "foreign" an object without any known key,     *)
(* "scalar" neither an object nor a list.                                  *)
(***************************************************************************)
BybitItems(body) ==
    IF body.shape \in {"array", "result.list", "result.single", "result", "list", "single"}
    THEN body.items ELSE <<>>

LighterItems(body) ==
    IF body.shape \in {"array", "data", "data.section", "data.single", "section", "single"}
    THEN body.items ELSE <<>>

Items(provider, body) == IF provider = "bybit" THEN BybitItems(body) ELSE LighterItems(body)

\* An adapter gives an exchange up: its route is unknown, or its body an
\* object that has neither records nor a wrapper.
Unsupported(provider, exchange) ==
    \/ exchange.route \notin DOMAIN Routes(provider)
    \/ exchange.body.shape = "foreign"

(***************************************************************************)
(* Conversions.                                                            *)
(***************************************************************************)
NormalizeAsset(raw) == IF raw = Missing THEN Missing ELSE raw.asset

Canonical(raw, default) == IF raw = Missing THEN default ELSE raw.number

OrElse(ref, default) == IF ref = Missing THEN default ELSE ref

Report(key, id, data) == [key |-> key, id |-> id, data |-> data]

\* compute_dedup_key(): the native id where the record has one, else its content.
DedupKey(type, native, data) ==
    IF native = Missing THEN <<type, "hash", data>> ELSE <<type, "native", native>>

(***************************************************************************)
(* One record of each family.  No report: the record is malformed.         *)
(***************************************************************************)
PositionReports(rec, noSide) ==
    LET symbol == NormalizeAsset(rec.name)
        side == OrElse(rec.ref, noSide)
        data == <<symbol, side, Canonical(rec.value, 0)>>
    IN IF symbol = Missing \/ data[3] = NotANumber THEN {}
       ELSE {Report(DedupKey("position", <<symbol, side>>, data), <<"position", symbol, side>>, data)}

\* Fault: fills deduplicated by symbol and trade id, but named by the trade id alone.
FillReportsBySymbol(rec) ==
    LET symbol == NormalizeAsset(rec.name)
        data == <<symbol, rec.ref, Canonical(rec.value, 0)>>
    IN IF symbol = Missing \/ rec.ref = Missing \/ data[3] = NotANumber THEN {}
       ELSE {Report(DedupKey("fill", <<symbol, rec.ref>>, data), <<"fill", rec.ref>>, data)}

FillReports(rec) ==
    LET symbol == NormalizeAsset(rec.name)
        data == <<symbol, rec.ref, Canonical(rec.value, 0)>>
    IN IF symbol = Missing \/ rec.ref = Missing \/ data[3] = NotANumber THEN {}
       ELSE {Report(DedupKey("fill", <<rec.ref>>, data), <<"fill", rec.ref>>, data)}

\* Funding and PnL: without the second identifier there is no native id.
TimedReports(type, rec) ==
    LET symbol == NormalizeAsset(rec.name)
        data == <<symbol, rec.ref, Canonical(rec.value, 0)>>
        native == IF rec.ref = Missing THEN Missing ELSE <<symbol, rec.ref>>
    IN IF symbol = Missing \/ data[3] = NotANumber THEN {}
       ELSE {Report(DedupKey(type, native, data), <<type, symbol, OrElse(rec.ref, "0")>>, data)}

\* A balance is two facts, or none: every conversion comes before the first append.
BalanceReports(rec) ==
    LET coin == NormalizeAsset(rec.name)
        wallet == Canonical(rec.value, 0)
        equity == Canonical(rec.equity, wallet)
    IN IF coin = Missing \/ NotANumber \in {wallet, equity} THEN {}
       ELSE {Report(DedupKey("balance", <<coin>>, <<>>), <<"balance", coin>>, <<coin, wallet>>),
             Report(DedupKey("equity", <<coin>>, <<>>), <<"equity", coin>>, <<coin, equity>>)}

BybitReports(family, rec) ==
    CASE family = "position" -> PositionReports(rec, "None")
      [] family = "fill" -> FillReports(rec)
      [] family = "balance" -> BalanceReports(rec)
      [] OTHER -> TimedReports(family, rec)

LighterReports(family, rec) ==
    CASE family = "position" -> PositionReports(rec, "LONG")
      [] family = "fill" -> FillReports(rec)
      [] family = "balance" -> BalanceReports(rec)
      [] OTHER -> TimedReports(family, rec)

Reports(provider, exchange, rec) ==
    LET family == Routes(provider)[exchange.route]
    IN IF provider = "bybit" THEN BybitReports(family, rec) ELSE LighterReports(family, rec)
=============================================================================
