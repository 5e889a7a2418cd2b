----------------------------- MODULE CarryLedger -----------------------------
(***************************************************************************)
(* run_carry of lines/carry_ledger.cpp: the same notional long on one leg  *)
(* and short on the other, opened and closed as taker fills, with every    *)
(* settlement inside the span both histories share charged to its leg.     *)
(* A leg is [symbol, rates, long, taker_rate].                             *)
(***************************************************************************)
EXTENDS Portfolio

UsdUnitPrice == 1

(* usd_notional_leg: one quantity unit is one dollar. *)
UsdNotionalLeg(leg) ==
  [face |-> 1, multiplier |-> 1, scale |-> 1, taker_rate |-> leg.taker_rate,
   fee_per_share |-> 0]

(* The span the two histories share. *)
CarryWindow(a, b) ==
  [start |-> Max({Head(a.rates.points).ts, Head(b.rates.points).ts}),
   end |-> Min({Last(a.rates.points).ts, Last(b.rates.points).ts})]

(* What run_carry throws on. *)
CarryRefused(a, b, notional) ==
  \/ a.symbol = b.symbol
  \/ notional <= 0
  \/ a.rates.points = <<>> \/ b.rates.points = <<>>
  \/ CarryWindow(a, b).end <= CarryWindow(a, b).start

(* fill: one leg as a taker execution at the venue's published rate. *)
CarryFill(p, leg, side, notional, ts) ==
  LET s == UsdNotionalLeg(leg)
  IN ApplyReport(s, p, [kind |-> "Trade", symbol |-> leg.symbol, side |-> side,
                        price |-> UsdUnitPrice, quantity |-> notional, role |-> "Taker",
                        fee |-> FeeOnFill(s, s.taker_rate, UsdUnitPrice, notional), ts |-> ts])

(* apply_leg: settlements up to the window's start are consumed and not applied,
   those up to its end accrue; the account, the leg's funding and the count. *)
ApplyLeg(p, leg, window) ==
  LET s == UsdNotionalLeg(leg)
      applied == TakenSettlements(TakeSettlements(leg.rates, window.start), window.end)
      funding(q, x) == IntervalFlow(s, q, leg.symbol, -x.rate, UsdUnitPrice)
  IN FoldLeft(LAMBDA t, x :
                [account |-> AccrueIntervalFlow(s, t.account, leg.symbol, -x.rate, UsdUnitPrice),
                 funding |-> t.funding + funding(t.account, x),
                 settlements |-> t.settlements + 1],
              [account |-> p, funding |-> 0, settlements |-> 0], applied)

OtherSide(side) == IF side = "Buy" THEN "Sell" ELSE "Buy"

LegSide(leg) == IF leg.long THEN "Buy" ELSE "Sell"

(* The signed value of a leg in the ledger. *)
LegValue(p, leg) == p.positions[leg.symbol].quantity * UsdUnitPrice

(* run_carry past its checks: open both legs, settle each, close both. *)
RunCarry(a, b, notional) ==
  LET window == CarryWindow(a, b)
      opened == CarryFill(CarryFill([NewPortfolio EXCEPT !.cash = notional, !.equity = notional],
                                    a, LegSide(a), notional, window.start),
                          b, LegSide(b), notional, window.start)
      legA == ApplyLeg(opened, a, window)
      legB == ApplyLeg(legA.account, b, window)
      closed == CarryFill(CarryFill(legB.account, a, OtherSide(LegSide(a)), notional, window.end),
                          b, OtherSide(LegSide(b)), notional, window.end)
  IN [account |-> closed,
      gross |-> AbsOf(LegValue(opened, a)) + AbsOf(LegValue(opened, b)),
      net |-> AbsOf(LegValue(opened, a) + LegValue(opened, b)),
      window |-> window,
      settlements |-> legA.settlements + legB.settlements,
      funding |-> legA.funding + legB.funding,
      fees |-> closed.fees,
      net_usd |-> legA.funding + legB.funding - closed.fees]
=============================================================================
