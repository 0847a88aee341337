---------------------------- MODULE DailyReport ----------------------------
(***************************************************************************)
(* One run of the daily report: news of every group of currency pairs is    *)
(* searched in several sources at once, each contributing model analyses    *)
(* each group, and a synthesis model makes one report of what they wrote.   *)
(* Any call may be limited, refused or fail; the run goes on with the rest. *)
(*                                                                          *)
(* When a run is due, and what its mark does, is module Research.  A group  *)
(* stands for its pairs; prompts, headers and costs are left out.           *)
(***************************************************************************)
EXTENDS Integers, FiniteSets, Sequences

CONSTANTS
  Models,         \* models that are connected
  Lists,          \* sequences of the contributors that may be chosen
  Groups,         \* groups of pairs
  Order,          \* the news sources in use: of newsapi, rss, web, x, in this order
  Answers,        \* sequences of articles a source may answer with
  Feeds,          \* sequence of the RSS feeds that are switched on
  FeedLimit,      \* MAX_RSS_ARTICLES
  NewsLimit,      \* MAX_GROUP_ARTICLES
  Grok,           \* models that are not asked again without a reasoning effort
  Queries,        \* NewsAPI queries of a group
  Retries,        \* _RATE_LIMIT_MAX_RETRIES
  SearchLimit,    \* research_search_concurrency
  AnalysisLimit,  \* research_analysis_concurrency
  MaxFaults       \* bound: answers that are no result

None == "none"
Nothing == [x \in {} |-> 0]
Members(s) == {s[i] : i \in DOMAIN s}
SourceSet == Members(Order)

VARIABLES
  plan,      \* the settings of the run
  stage,     \* where the run is
  feeds,     \* feeds[f]: the articles read from a feed, none if it failed
  call,      \* call[c]: the calls <<group, whom>> of the stage
  found,     \* found[c]: the articles a source has answered with
  articles,  \* articles[g]: the places of the news of g once its sources have answered
  turn,      \* position of the contributor at work
  sections,  \* sections[m]: the groups m has analysed
  errors,    \* pairs of a model and a group, or "all", that the run reports
  files,     \* contributors with a file of their own
  report,    \* the report that was written
  faults

vars == <<plan, stage, feeds, call, found, articles, turn, sections, errors, files, report, faults>>

Ended == {"done", "skipped", "nothing", "raised"}
Waiting == [st |-> "wait", posts |-> 0, effort |-> FALSE]

TypeOK ==
  /\ stage \in {"begin", "feeds", "search", "analysis", "merge", "save"} \cup Ended
  /\ \A c \in DOMAIN call : call[c].st \in {"wait", "sent", "ok", "failed"}
  /\ \A c \in DOMAIN call : call[c].posts \in 0..(Retries + Queries)
  /\ DOMAIN feeds \subseteq Members(Feeds) /\ DOMAIN articles \subseteq Groups /\ turn \in 1..(Len(plan.models) + 1)
  /\ sections \in [Models -> SUBSET Groups] /\ files \subseteq Models
  /\ errors \subseteq Models \X (Groups \cup {"all"})
  /\ faults \in 0..MaxFaults

Plans == [models : Lists, synthesis : Models \cup {None}, enabled : BOOLEAN,
          groups : SUBSET Groups, effort : BOOLEAN]

Init ==
  /\ plan \in Plans /\ stage = "begin" /\ feeds = Nothing /\ call = Nothing /\ found = Nothing
  /\ articles = Nothing /\ turn = 1
  /\ sections = [m \in Models |-> {}] /\ errors = {} /\ files = {}
  /\ report = None /\ faults = 0

-----------------------------------------------------------------------------
(* Who takes part                                                           *)

\* Several contributors need a model that merges them.
Unmerged(p) == p.synthesis = None /\ Len(p.models) > 1

\* The report of a lone contributor is not merged, but for another model to redo it.
Redone(p) == Len(p.models) = 1 /\ p.synthesis # p.models[1]

\* The positions of the contributors that wrote an analysis.
Written == {i \in DOMAIN plan.models : sections[plan.models[i]] # {}}

Merged == /\ plan.synthesis # None
          /\ Cardinality(Written) > 1 \/ Redone(plan)

\* The only contributor, if it also merges, has no file of its own.
Alone(p) == Len(p.models) = 1 /\ p.synthesis \in {None, p.models[1]}

Targets(p) == IF p.enabled THEN p.groups ELSE {}

\* The synthesis always has an effort.
Calls(gs, who) ==
  [c \in gs \X who |-> [Waiting EXCEPT !.effort = plan.effort \/ gs = {"all"}]]

\* What the run does not have, and what it is not told to do, ends it.
Begin ==
  /\ stage = "begin"
  /\ stage' = IF plan.models = <<>> \/ Unmerged(plan) \/ Order = <<>> \/ Targets(plan) = {}
              THEN "skipped" ELSE "feeds"
  /\ UNCHANGED <<plan, feeds, call, found, articles, turn, sections, errors, files, report, faults>>

\* The feeds are read once, before the groups, if they are a source; one that fails
\* has no articles.
Fetch(f, as) ==
  /\ stage = "feeds" /\ "rss" \in SourceSet /\ f \notin DOMAIN feeds
  /\ feeds' = [x \in DOMAIN feeds \cup {f} |-> IF x = f THEN as ELSE feeds[x]]
  /\ UNCHANGED <<plan, stage, call, found, articles, turn, sections, errors, files, report, faults>>

\* News sources are asked about every group before any model is.
Fetched ==
  /\ stage = "feeds"
  /\ "rss" \in SourceSet => DOMAIN feeds = Members(Feeds)
  /\ stage' = "search"
  /\ call' = Calls(Targets(plan), SourceSet)
  /\ found' = [c \in Targets(plan) \X SourceSet |-> <<>>]
  /\ UNCHANGED <<plan, feeds, articles, turn, sections, errors, files, report, faults>>

-----------------------------------------------------------------------------
(* Calls                                                                    *)

Over(c) == call[c].st \in {"ok", "failed"}
Of(g) == {c \in DOMAIN call : c[1] = g}
Busy == {g \in {c[1] : c \in DOMAIN call} : \E c \in Of(g) : call[c].st = "sent"}
Slots == CASE stage = "search" -> SearchLimit [] stage = "analysis" -> AnalysisLimit
           [] OTHER -> 1

\* A group takes a place among those at work, and all its calls are sent; a model
\* is not asked about a group without news.
Start(g) ==
  /\ stage \in {"search", "analysis", "merge"}
  /\ Of(g) # {} /\ \A c \in Of(g) : call[c].st = "wait"
  /\ Cardinality(Busy) < Slots
  /\ LET mute == stage = "analysis" /\ articles[g] = {} IN
     call' = [c \in DOMAIN call |->
                IF c \notin Of(g) THEN call[c]
                ELSE [call[c] EXCEPT !.st = IF mute THEN "failed" ELSE "sent"]]
  /\ UNCHANGED <<plan, stage, feeds, found, articles, turn, sections, errors, files, report, faults>>

Ends(c, st) == call' = [call EXCEPT ![c].st = st]
Again(c) == call' = [call EXCEPT ![c].posts = @ + 1]
IsModel(c) == c[2] \notin {"newsapi", "rss"}

Unchanged == UNCHANGED <<plan, stage, feeds, articles, turn, sections, errors, files, report>>

\* The places <<i, k>> of articles, the k-th of the i-th list, in their order.
Places(lists) == UNION {{i} \X DOMAIN lists[i] : i \in DOMAIN lists}
Before(p, q) == p[1] < q[1] \/ (p[1] = q[1] /\ p[2] < q[2])
Earlier(set, p) == {q \in set : Before(q, p)}
At(lists, p) == lists[p[1]][p[2]]

\* Two articles of the feeds are one by their address, or by their title if
\* neither has one.
Key(a) == IF a.url = None THEN <<"title", a.title>> ELSE <<"url", a.url>>

\* The articles of all feeds in order, each once, up to a limit.
IsRead(kept, lists) ==
  \A p \in Places(lists) :
    p \in kept <=> /\ Cardinality(Earlier(kept, p)) < FeedLimit
                  /\ \A q \in Earlier(kept, p) : Key(At(lists, q)) # Key(At(lists, p))

\* Those that concern a group, the newest first.
AboutGroup(as) ==
  LET lists == [i \in DOMAIN Feeds |-> feeds[Feeds[i]]] IN
  \E kept \in SUBSET Places(lists) :
    /\ IsRead(kept, lists)
    /\ Members(as) \subseteq {At(lists, p) : p \in kept}
    /\ \A i, j \in DOMAIN as : as[i] = as[j] => i = j

\* NewsAPI is asked with broader queries until one finds something; the feeds
\* were read before, and their articles are only looked through.
Finds(c, as) ==
  /\ call[c].st = "sent" /\ stage = "search"
  /\ c[2] = "rss" => AboutGroup(as)
  /\ IF as = <<>> /\ c[2] = "newsapi" /\ call[c].posts + 1 < Queries
     THEN Again(c) /\ UNCHANGED found
     ELSE Ends(c, "ok") /\ found' = [found EXCEPT ![c] = as]
  /\ UNCHANGED faults /\ Unchanged

Writes(c) ==
  /\ call[c].st = "sent" /\ stage # "search"
  /\ Ends(c, "ok")
  /\ UNCHANGED <<found, faults>> /\ Unchanged

Faulty(c) ==
  /\ call[c].st = "sent" /\ faults < MaxFaults
  /\ faults' = faults + 1
  /\ UNCHANGED found /\ Unchanged

\* 429: the call is repeated after a while, at most Retries times.
Limited(c) ==
  /\ IsModel(c) /\ Faulty(c)
  /\ IF call[c].posts < Retries THEN Again(c) ELSE Ends(c, "failed")

\* 400: the call is repeated once without the reasoning effort.
Refused(c) ==
  /\ IsModel(c) /\ Faulty(c)
  /\ IF call[c].effort /\ stage # "search" /\ c[2] \notin Grok
     THEN call' = [call EXCEPT ![c] = [Waiting EXCEPT !.st = "sent"]]
     ELSE Ends(c, "failed")

\* Any other status, a lost connection, or an answer without text.
Fails(c) ==
  /\ c[2] # "rss" /\ Faulty(c)
  /\ Ends(c, "failed")

-----------------------------------------------------------------------------
(* The news of a group                                                      *)

\* A bug: an article is taken for another one with its title.
SameMutant(a, b) == a.url = b.url \/ a.title = b.title

\* The same address, or the same title when the second has no address.
Same(a, b) == IF b.url = None THEN a.title = b.title ELSE a.url = b.url

\* The sources' articles in order, each once, up to the limit.
Answered(g) == [i \in DOMAIN Order |-> found[<<g, Order[i]>>]]
IsMerged(kept, lists) ==
  \A p \in Places(lists) :
    p \in kept <=> /\ Cardinality(Earlier(kept, p)) < NewsLimit
                  /\ \A q \in Earlier(kept, p) : ~Same(At(lists, q), At(lists, p))

Gather(g) ==
  /\ stage = "search" /\ g \in Targets(plan) \ DOMAIN articles
  /\ \A c \in Of(g) : Over(c)
  /\ \E kept \in SUBSET Places(Answered(g)) :
       /\ IsMerged(kept, Answered(g))
       /\ articles' = [h \in DOMAIN articles \cup {g} |-> IF h = g THEN kept ELSE articles[h]]
  /\ UNCHANGED <<plan, stage, feeds, call, found, turn, sections, errors, files, report, faults>>

\* The first contributor begins when every group has its news.
Prefetched ==
  /\ stage = "search" /\ DOMAIN articles = Targets(plan)
  /\ stage' = "analysis" /\ found' = Nothing
  /\ call' = Calls(Targets(plan), {plan.models[1]})
  /\ UNCHANGED <<plan, feeds, articles, turn, sections, errors, files, report, faults>>

-----------------------------------------------------------------------------
(* Analysis and synthesis                                                   *)

Analysed(st) == {c[1] : c \in {d \in DOMAIN call : call[d].st = st}}

\* A contributor without any analysis has no part in the report.  Writing its
\* file may fail, which ends the run.
EndModel(ok) ==
  LET m == plan.models[turn] IN
  /\ stage = "analysis" /\ turn <= Len(plan.models) /\ \A c \in DOMAIN call : Over(c)
  /\ sections' = [sections EXCEPT ![m] = Analysed("ok")]
  /\ errors' = errors \cup {<<m, g>> : g \in Analysed("failed")}
  /\ turn' = turn + 1
  /\ IF Analysed("ok") = {} \/ Alone(plan)
     THEN ok /\ UNCHANGED <<files, faults>>
     ELSE /\ files' = IF ok THEN files \cup {m} ELSE files
          /\ faults' = IF ok THEN faults ELSE faults + 1
          /\ faults' <= MaxFaults
  /\ stage' = IF ok THEN "analysis" ELSE "raised"
  /\ call' = IF ok /\ turn < Len(plan.models)
             THEN Calls(Targets(plan), {plan.models[turn + 1]}) ELSE Nothing
  /\ UNCHANGED <<plan, feeds, found, articles, report>>

Analyses ==
  /\ stage = "analysis" /\ turn > Len(plan.models)
  /\ stage' = IF Written = {} THEN "nothing" ELSE IF Merged THEN "merge" ELSE "save"
  /\ call' = IF stage' = "merge" THEN Calls({"all"}, {plan.synthesis}) ELSE Nothing
  /\ UNCHANGED <<plan, feeds, found, articles, turn, sections, errors, files, report, faults>>

Synthesised ==
  /\ stage = "merge" /\ \A c \in DOMAIN call : Over(c)
  /\ stage' = "save"
  /\ errors' = errors \cup {<<c[2], "all">> : c \in {d \in DOMAIN call : call[d].st = "failed"}}
  /\ UNCHANGED <<plan, feeds, call, found, articles, turn, sections, files, report, faults>>

\* The models whose analyses the report shows: all that were merged, or else the
\* first that wrote one.
Earliest == {i \in Written : \A j \in Written : i <= j}
Final ==
  {plan.models[i] : i \in IF \E c \in DOMAIN call : call[c].st = "ok" THEN Written ELSE Earliest}

Save(ok) ==
  /\ stage = "save"
  /\ IF ok THEN stage' = "done" /\ report' = Final /\ UNCHANGED faults
     ELSE /\ faults < MaxFaults /\ faults' = faults + 1
          /\ stage' = "raised" /\ UNCHANGED report
  /\ UNCHANGED <<plan, feeds, call, found, articles, turn, sections, errors, files>>

Next ==
  \/ Begin \/ Fetched \/ Prefetched \/ Analyses \/ Synthesised
  \/ \E g \in Groups \cup {"all"} : Start(g)
  \/ \E g \in Groups : Gather(g)
  \/ \E f \in Members(Feeds), as \in Answers : Fetch(f, as)
  \/ \E c \in DOMAIN call :
       \/ \E as \in Answers : Finds(c, as)
       \/ Writes(c) \/ Limited(c) \/ Refused(c) \/ Fails(c)
  \/ \E ok \in BOOLEAN : EndModel(ok) \/ Save(ok)

Spec == Init /\ [][Next]_vars

-----------------------------------------------------------------------------

\* While the news of a group are those of its sources: no address comes twice,
\* and what a source found is there unless the limit is reached.
NewsKept ==
  stage = "search" =>
    \A g \in DOMAIN articles :
      LET kept == articles[g]
          lists == Answered(g) IN
        /\ \A p, q \in kept :
             At(lists, p).url = At(lists, q).url /\ At(lists, p).url # None => p = q
        /\ \/ Cardinality(kept) = NewsLimit
           \/ \A p \in Places(lists) : \E q \in kept :
                IF At(lists, p).url = None THEN At(lists, q).title = At(lists, p).title
                ELSE At(lists, q).url = At(lists, p).url

\* A report that is written shows somebody's analysis, and for every contributor
\* and group the analysis is there or an error says that it is missing; if one
\* contributor's analysis is left out of it, an error says that too, or the
\* contributor wrote nothing.
Accounted ==
  stage = "done" =>
    /\ report # {} /\ \A m \in report : sections[m] # {}
    /\ \A m \in Members(plan.models), g \in Targets(plan) :
         /\ g \in sections[m] \/ <<m, g>> \in errors
         /\ g \in sections[m] => articles[g] # {}
    /\ \A m \in Members(plan.models) :
         m \in report \/ sections[m] = {} \/ <<plan.synthesis, "all">> \in errors
=============================================================================
