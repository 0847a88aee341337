----------------------------- MODULE MCServices -----------------------------
(***************************************************************************)
(* Small instances of the services: two browsers, three days of reports     *)
(* around a Sunday, a strategy, two models of a provider, a backtest, an    *)
(* entry and an exit analysis, a branch and a pinned release, an order and  *)
(* a read, two callers, a simulated strategy from a Thursday evening to the *)
(* end of the week in candles of four hours, two sections of the settings,   *)
(* a report of two contributors with three sources of news.                 *)
(***************************************************************************)
EXTENDS Records, TLC

\* The bounds, for the parts that have one.
Calls0 == [p \in {"account", "sources", "feedback", "history", "updates"} |-> 3]
            @@ "strategies" :> 2 @@ "research" :> 1
Faults0 == [p \in {"account", "research", "history", "calls", "book"} |-> 1]
             @@ [p \in {"feedback", "updates", "report"} |-> 2]

\* The unit of time is half a day; reports are due at noon.
Noon == [k \in {"daily", "brief", "debrief"} |-> 1]

\* What a model may write: values out of bounds, a path twice or unknown, and a
\* priority of 0.
Change(p, v, n) == [path |-> p, to |-> v, priority |-> n]
Written == {<<>>, <<Change(1, 1, 2), Change(2, 9, 1), Change(2, 2, 1)>>,
            <<Change(1, 9, 1), Change(3, 1, 1), Change(2, 1, 1), Change(1, 2, 1),
              Change(2, 2, 0)>>}

\* Settings of a simulated strategy: three that differ in stop, exit, cooldown
\* and session rules.
Preset == [stop |-> 1, take |-> "risk_reward", ratio |-> 2, pips |-> 1, riskPct |-> 20,
           monitor |-> "reverse_crossover", confirm |-> 1, minBars |-> 2, cooldown |-> 2,
           directions |-> {-1, 1}, sessions |-> {"london"}, between |-> TRUE,
           market |-> TRUE, closeHours |-> 4, late |-> TRUE, lateHours |-> 4]
Presets ==
    {Preset,
     [Preset EXCEPT !.monitor = "trailing_stop", !.take = "fixed_pips", !.directions = {1},
                    !.sessions = {}, !.cooldown = 0],
     [Preset EXCEPT !.stop = 2, !.confirm = 2, !.minBars = 0, !.take = "none",
                    !.sessions = {"asia", "ny"}, !.closeHours = 2]}

\* What a source of news may answer: articles that share a title or have no
\* address.
Articles == {<<>>, <<[url |-> "u1", title |-> "t1"]>>,
             <<[url |-> "none", title |-> "t1"], [url |-> "u2", title |-> "t1"]>>}
Chosen == {<<>>, <<"m1">>, <<"m1", "m2">>}
Asked == <<"newsapi", "rss", "web">>
OneFeed == <<"f1">>

\* A short retention with an instant and a restart, and one with room for changes
\* that are dropped as redundant.
TwoSections == <<"prefs", "rows">>
Rooms == {[changes |-> 1, fulls |-> 1, made |-> 2, slots |-> 1, crashes |-> 1],
          [changes |-> 3, fulls |-> 1, made |-> 4, slots |-> 0, crashes |-> 0]}
=============================================================================
