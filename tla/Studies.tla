------------------------------- MODULE Studies -------------------------------
(***************************************************************************)
(* The computations that run over a whole history at once: the carry of    *)
(* two funding histories, read from their files and then run, the drawdown *)
(* of an equity curve, and the backtest of a recorded run's trades.  A     *)
(* study is its input, then its result.                                    *)
(***************************************************************************)
EXTENDS CarryLedger, BacktestDriver

VARIABLE study

NoStudy == [what |-> "none"]

(* main of the carry line: both files are read, then run_carry either throws or
   returns. *)
StudyCarry ==
  /\ study.what = "carry"
  /\ LET leg(x) == [symbol |-> x.symbol, long |-> x.long, taker_rate |-> 1,
                    rates |-> ReadSeries(x.format, x.symbol, x.rows)]
         a == leg(study.a)
         b == leg(study.b)
     IN study' = IF ~a.rates.ok \/ ~b.rates.ok \/ CarryRefused(a, b, study.notional)
                 THEN [what |-> "refused", input |-> study]
                 ELSE [what |-> "carried", input |-> study, result |-> RunCarry(a, b, study.notional)]

(* The report of a run measures its equity curve. *)
StudyCurve ==
  /\ study.what = "curve"
  /\ study' = [what |-> "measured", curve |-> study.curve,
               drawdown |-> MaxDrawdown(study.curve),
               duration |-> MaxDrawdownDuration(study.curve)]

(* The backtest either throws or reports, over its ticks as sorted. *)
StudyBacktest ==
  /\ study.what = "backtest"
  /\ \E ticks \in TickOrders(study.ticks) :
       study' = IF BacktestRefused(study) THEN [what |-> "refused", input |-> study]
                ELSE [what |-> "backtested", input |-> study, ticks |-> ticks,
                      result |-> RunBacktest(study, ticks)]

Study == StudyCarry \/ StudyCurve \/ StudyBacktest

-----------------------------------------------------------------------------
(* Properties. *)

(* The rows of a file that are this leg's. *)
Own(x) == {k \in DOMAIN x.rows : x.format # "okx" \/ x.rows[k].symbol = x.symbol}

(* The settlements of a leg after both histories have begun and before either ends. *)
Shared(x, y) ==
  LET times(z) == {z.rows[j].ts : j \in Own(z)}
      start == Max({Min(times(x)), Min(times(y))})
      end == Min({Max(times(x)), Max(times(y))})
  IN {k \in Own(x) : start < x.rows[k].ts /\ x.rows[k].ts <= end}

LegFunding(x, y, notional) ==
  (IF x.long THEN -1 ELSE 1) * (notional \div RateScale)
    * MapThenSumSet(LAMBDA k : x.rows[k].rate, Shared(x, y))

(* carry_ledger.cpp run_carry: a finished carry is flat, its cash moved by exactly
   the funding of the settlements both histories span, no other, less the four
   fills' fees; opposite legs net to nothing while they are open. *)
CarryBalances ==
  study.what = "carried" =>
    LET a == study.input.a
        b == study.input.b
        n == study.input.notional
        r == study.result
    IN /\ \A x \in Symbols : r.account.positions[x].quantity = 0
       /\ r.settlements = Cardinality(Shared(a, b)) + Cardinality(Shared(b, a))
       /\ r.funding = LegFunding(a, b, n) + LegFunding(b, a, n)
       /\ r.account.cash = n + r.net_usd
       /\ r.gross = 2 * n /\ r.net = (IF a.long = b.long THEN 2 * n ELSE 0)

(* Cash and holdings after the trades up to ts, and what the holdings are worth at
   the last prices of the first n ticks. *)
CashUpTo(in, ts) ==
  InitialCash
    - MapThenSumSet(LAMBDA k : BacktestFee(in, in.trades[k])
                                 + (IF in.trades[k].side = "Buy" THEN 1 ELSE -1)
                                     * in.trades[k].quantity * ExecPrice(in, in.trades[k]),
                    {k \in DOMAIN in.trades : in.trades[k].ts <= ts})

HeldUpTo(in, symbol, ts) ==
  MapThenSumSet(LAMBDA k : (IF in.trades[k].side = "Buy" THEN 1 ELSE -1) * in.trades[k].quantity,
                {k \in DOMAIN in.trades : in.trades[k].ts <= ts /\ in.trades[k].symbol = symbol})

WorthAt(in, ticks, n, ts) ==
  LET seen(x) == {k \in 1..n : ticks[k].symbol = x}
  IN MapThenSumSet(LAMBDA x : HeldUpTo(in, x, ts) * ticks[Max(seen(x))].price,
                   {x \in Symbols : seen(x) # {}})

(* backtest_driver.cpp run: the sample of a tick is the cash and the holdings of the
   trades up to its time, no later one, at the prices of the ticks so far; trades
   after the last tick each get a sample, and none is lost or applied twice. *)
BacktestBalances ==
  study.what = "backtested" =>
    LET in == study.input
        n == Len(study.ticks)
        curve == study.result.curve
        all == Max({0} \cup {in.trades[k].ts : k \in DOMAIN in.trades})
        late == {k \in DOMAIN in.trades : \A j \in 1..n : in.trades[k].ts > study.ticks[j].ts}
    IN /\ \A k \in 1..n :
            curve[k].equity = CashUpTo(in, study.ticks[k].ts)
                                + WorthAt(in, study.ticks, k, study.ticks[k].ts)
       /\ Len(curve) = Max({1, n + Cardinality(late)})
       /\ study.result.account.cash = CashUpTo(in, all)
       /\ study.result.account.equity = CashUpTo(in, all) + WorthAt(in, study.ticks, n, all)

(* The falls of a curve: a sample, a later one, and how far below it. *)
Falls(c) ==
  {<<c[i].equity - c[j].equity, c[i].equity>> :
     <<i, j>> \in {p \in (DOMAIN c) \X (DOMAIN c) : p[1] <= p[2] /\ c[p[1]].equity > 0}}

(* Spells below a peak: from a sample no earlier one exceeds, while every sample in
   between is below it, to one below it or to the one that wins it back. *)
Spells(c) ==
  {c[p[2]].ts - c[p[1]].ts :
     p \in {q \in (DOMAIN c) \X (DOMAIN c) :
              /\ q[1] < q[2]
              /\ \A k \in 1..(q[1] - 1) : c[k].equity <= c[q[1]].equity
              /\ \A k \in (q[1] + 1)..(q[2] - 1) : c[k].equity < c[q[1]].equity
              /\ c[q[2]].equity < c[q[1]].equity \/ q[2] > q[1] + 1}}

(* performance.cpp compute_max_drawdown and compute_max_drawdown_duration: one pass
   with a running peak finds the deepest of all falls and the longest spell. *)
DrawdownIsDeepest ==
  study.what = "measured" =>
    /\ \A f \in Falls(study.curve) : ~MoreThan(f, study.drawdown)
    /\ study.drawdown = NoDrawdown \/ study.drawdown \in Falls(study.curve)
    /\ study.duration = Max({0} \cup Spells(study.curve))
=============================================================================
