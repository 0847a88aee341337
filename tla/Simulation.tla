----------------------------- MODULE Simulation -----------------------------
(***************************************************************************)
(* The simulation of a backtest: bar by bar, oldest first, a position is    *)
(* closed by its stop or target, by the strategy's exit monitor or by the   *)
(* rules of the sessions; then the strategy looks for a crossover, the      *)
(* gates decide, and a position is opened at the close of the bar.          *)
(*                                                                          *)
(* Prices and money are small integers.  Of the moving averages a bar keeps *)
(* only whether the fast one is above (1) or below (-1) the slow one, or on *)
(* it (0); filters, confidence and the distance an exit asks for are an     *)
(* arbitrary choice.                                                        *)
(***************************************************************************)
EXTENDS Sessions, Sequences

CONSTANTS
  Params,     \* the parameter snapshots a run may have
  Enabled,    \* the sessions that are on in the asset settings
  Frame,      \* hours of a bar
  First, Last,   \* bound: the hours of the run
  Prices,     \* bound
  Margin,     \* the equity of the run at its start
  MaxTrades   \* bound: positions that are opened

Far == 1000       \* the distance of a level that is not set
DefaultUnits == 3 \* of a position without a stop (1000 in the code)

VARIABLES
  params,
  hour,      \* of the bar that came last
  ema,       \* the sides of the latest bars, oldest first
  pos,       \* the position, or Flat
  equity,    \* realised
  sinceStop, \* bars since a stop closed a position, as far as the cool-down asks
  close,     \* the close of the last bar
  status,
  trade,     \* the last closed trade
  opened     \* positions opened so far

vars == <<params, hour, ema, pos, equity, sinceStop, close, status, trade, opened>>

Flat == [dir |-> 0]
NoTrade == [pnl |-> 0, units |-> 1, risk |-> 0]

TypeOK ==
  /\ params \in Params /\ hour \in Int /\ ema \in Seq(-1..1)
  /\ pos.dir \in -1..1 /\ equity \in Int /\ close \in Prices
  /\ status \in {"running", "completed", "cancelled"}

Init ==
  /\ params \in Params
  /\ hour = First /\ ForexOpen(First)
  /\ ema \in [1..params.confirm + 1 -> -1..1]
  /\ pos = Flat /\ equity = Margin /\ close \in Prices
  /\ sinceStop = params.cooldown
  /\ status = "running" /\ trade = NoTrade /\ opened = 0

-----------------------------------------------------------------------------
(* Opening and closing a position                                           *)

StopDistance(p) == IF p.stop = 0 THEN Far ELSE p.stop
Stop(p, dir, entry) == entry - dir * StopDistance(p)

TakeDistance(p) ==
  CASE p.take = "fixed_pips" -> p.pips
    [] p.take = "risk_reward" /\ p.stop # 0 -> p.stop * p.ratio
    [] OTHER -> Far
Take(p, dir, entry) == entry + dir * TakeDistance(p)

\* The nearest number of units that risk the percentage, one at least.
Units(p, eq) ==
  IF p.stop = 0 THEN DefaultUnits
  ELSE Max({1, (2 * eq * p.riskPct + 100 * p.stop) \div (200 * p.stop)})

Pnl(q, price) == q.dir * (price - q.entry) * q.units

\* bars: how many bars it will have been held at the next one.
NewPosition(p, dir, price, eq, now) ==
  [dir |-> dir, entry |-> price, units |-> Units(p, eq), at |-> now, bars |-> 1,
   stop |-> Stop(p, dir, price), take |-> Take(p, dir, price),
   risk |-> eq * p.riskPct]

-----------------------------------------------------------------------------
(* What closes a position at a bar, in the order of the code.  An exit is a *)
(* reason and a price.                                                      *)

Stay == [reason |-> "none", price |-> 0]

Worst(q, bar) == IF q.dir = 1 THEN bar.low ELSE bar.high
Best(q, bar) == IF q.dir = 1 THEN bar.high ELSE bar.low

Level(q, bar) ==
  IF q.dir * Worst(q, bar) <= q.dir * q.stop
    THEN [reason |-> "stop_loss", price |-> q.stop]
  ELSE IF q.dir * Best(q, bar) >= q.dir * q.take
    THEN [reason |-> "take_profit", price |-> q.take]
  ELSE Stay

\* The last bars are all on the other side, and the one before is not.
Reversed(q, sides) ==
  /\ \A k \in 2..Len(sides) : sides[k] = -q.dir
  /\ sides[1] # -q.dir

Monitor(q, bar, sides, p) ==
  IF \/ p.monitor = "reverse_crossover" /\ q.bars >= p.minBars
        /\ Reversed(q, sides) /\ bar.apart
     \/ p.monitor = "trailing_stop" /\ bar.apart
    THEN [reason |-> p.monitor, price |-> bar.close]
    ELSE Stay

\* A bug: the rules look at the bar before.
RuleMutant(p, now) ==
  IF ForceBoundary(p, Enabled, hour, Frame) THEN "session_boundary"
  ELSE IF ForceMarket(p, Enabled, hour) THEN "market_close"
  ELSE "none"

\* The rule of the sessions that closes a position at this bar.
Rule(p, now) ==
  IF ForceBoundary(p, Enabled, now, Frame) THEN "session_boundary"
  ELSE IF ForceMarket(p, Enabled, now) THEN "market_close"
  ELSE "none"

Hold(bar, rule) == IF rule = "none" THEN Stay ELSE [reason |-> rule, price |-> bar.close]

\* A bug: the session rules come before the stop.
ExitMutant(q, bar, sides, p, rule) ==
  IF q = Flat THEN Stay
  ELSE IF Hold(bar, rule) # Stay THEN Hold(bar, rule)
  ELSE IF Level(q, bar) # Stay THEN Level(q, bar) ELSE Monitor(q, bar, sides, p)

Exit(q, bar, sides, p, rule) ==
  IF q = Flat THEN Stay
  ELSE IF Level(q, bar) # Stay THEN Level(q, bar)
  ELSE IF Monitor(q, bar, sides, p) # Stay THEN Monitor(q, bar, sides, p)
  ELSE Hold(bar, rule)

-----------------------------------------------------------------------------
(* Entering                                                                 *)

\* The side of the two last bars: a crossover completes on the last one.
Crossover(sides) ==
  LET prev == sides[Len(sides) - 1]
      cur == sides[Len(sides)]
  IN IF cur # 0 /\ prev * cur <= 0 THEN cur ELSE 0

InSession(p, now) ==
  Covered(Effective(Enabled, p.sessions), now) /\ ~BlockLate(p, Enabled, now)

\* The gates: after an exit only a free pair passes, and a reversal that has
\* just closed the position does not open the opposite one.
Gate(p, bar, exit, free, since) ==
  /\ bar.passes
  /\ free
  /\ exit.reason # "reverse_crossover"
  /\ since >= p.cooldown

Kept(q, p) == IF q = Flat THEN Flat
              ELSE [q EXCEPT !.bars = Min({@ + 1, p.minBars + 1})]

Step(bar, sides, now, rule, open) ==
  LET p == params
      exit == Exit(pos, bar, sides, p, rule)
      free == pos = Flat \/ exit # Stay
      eq == equity + (IF exit = Stay THEN 0 ELSE Pnl(pos, exit.price))
      since == IF exit.reason = "stop_loss" THEN 0 ELSE Min({sinceStop + 1, p.cooldown})
      dir == Crossover(sides)
      enters == dir \in p.directions /\ opened < MaxTrades /\ open /\ Gate(p, bar, exit, free, since)
  IN /\ equity' = eq
     /\ sinceStop' = since
     /\ trade' = IF exit = Stay THEN trade
                 ELSE [pnl |-> Pnl(pos, exit.price), units |-> pos.units, risk |-> pos.risk]
     /\ pos' = IF enters THEN NewPosition(p, dir, bar.close, eq, now)
               ELSE IF free THEN Flat ELSE Kept(pos, p)
     /\ opened' = opened + (IF enters THEN 1 ELSE 0)

Bars ==
  {bar \in [low : Prices, high : Prices, close : Prices, passes : BOOLEAN, apart : BOOLEAN] :
     bar.low <= bar.close /\ bar.close <= bar.high}

Bar ==
  /\ status = "running" /\ hour < Last
  /\ LET now == NextBar(hour, Frame)
         rule == Rule(params, now)
         open == InSession(params, now)
     IN /\ hour' = now
        /\ \E bar \in Bars, side \in -1..1 :
             /\ ema' = Append(Tail(ema), side)
             /\ close' = bar.close
             /\ Step(bar, Append(Tail(ema), side), now, rule, open)
  /\ UNCHANGED <<params, status>>

\* The run is cancelled between two bars; its position is not closed.
Cancel ==
  /\ status = "running" /\ hour < Last
  /\ status' = "cancelled"
  /\ UNCHANGED <<params, hour, ema, pos, equity, sinceStop, close, trade, opened>>

\* After the last bar a position is closed at its close.
Finish ==
  /\ status = "running" /\ hour >= Last
  /\ status' = "completed"
  /\ pos' = Flat
  /\ IF pos = Flat THEN UNCHANGED <<equity, trade>>
     ELSE /\ equity' = equity + Pnl(pos, close)
          /\ trade' = [pnl |-> Pnl(pos, close), units |-> pos.units, risk |-> pos.risk]
  /\ UNCHANGED <<params, hour, ema, sinceStop, close, opened>>

Next == Bar \/ Cancel \/ Finish

Spec == Init /\ [][Next]_vars

-----------------------------------------------------------------------------

\* A trade never loses more than the share of the equity its parameters allow,
\* but for the rounding of its size, and unless it has the smallest size.
RiskBounded ==
  params.stop # 0 /\ trade.units > 1
    => -100 * trade.pnl <= trade.risk + 50 * params.stop

\* Whoever does not want to hold between sessions holds a position outside of
\* them only if it was opened in their very last bar; and none is held near
\* the close of the week if entries are refused as early as exits are forced.
HeldInSessions ==
  pos # Flat =>
    LET ids == Effective(Enabled, params.sessions) IN
    /\ params.between /\ ~Covered(ids, hour) => Leaves(ids, pos.at, Frame)
    /\ params.market /\ params.late /\ params.closeHours \in 1..params.lateHours
         => ~NearClose(ids, hour, params.closeHours)
=============================================================================
