------------------------- MODULE ResearchPipeline -------------------------
(***************************************************************************)
(* The research half of a pipeline run: the Universe, Macro, Signal, Risk, *)
(* News, Data Freshness Gate, Portfolio and Advisory agents of             *)
(* PIPELINE_STEPS.  Each agent is a program of its own: it reads the CSV   *)
(* files the earlier ones left in runtime/state, fetches what it needs     *)
(* from the market-data provider, and replaces its own files.  Nothing     *)
(* removes the files of an earlier run, so what an agent reads may be      *)
(* older than the run it works for.                                        *)
(*                                                                         *)
(* A price is represented by the exchange session it covers.  `session' is *)
(* the latest completed session; it advances while agents are at work.     *)
(* The rows of signal_setups, final_shortlist and portfolio_orders carry   *)
(* `by', the run that computed them, and `obs', the session of the price   *)
(* behind them: the files have no such columns, they are the ground truth  *)
(* the properties speak about.                                             *)
(***************************************************************************)
EXTENDS Integers, Sequences, FiniteSets, SequencesExt

CONSTANTS
  Tickers,      \* universe_source.csv, numbered in alphabetical order
  Sector,       \* SECTOR_MAP
  LeadScores,   \* the scores an asset may reach in the Universe Agent
  Scores,       \* the setup scores the signals may reach
  MaxRuns,      \* bound: pipeline runs
  MaxSession,   \* bound: exchange sessions that complete
  None

ASSUME SectorAssumption == Tickers \subseteq Nat \ {0} /\ DOMAIN Sector = Tickers

VARIABLES
  session,      \* ExchangeCalendar.latest_completed_session(now)
  run, pc,      \* the run and the agent at work ("idle" between runs)
  todo, found, fetched,  \* the loop of that agent: tickers left, results, health rows
  health,       \* data_source_health.csv
  leads,        \* top_leads.csv and watchlist.csv together
  regime,       \* macro_regime.csv
  setups,       \* signal_setups.csv
  shortlist,    \* final_shortlist.csv
  orders,       \* portfolio_orders.csv
  advice,       \* advisory_trades.csv
  held,         \* tickers with an open row in portfolio_state.csv
  gated,        \* the session at which this run passed the gate (history)
  climate       \* the regime this run's proxies showed (history)

loop == <<todo, found, fetched>>
vars == <<session, run, pc, todo, found, fetched, health, leads, regime, setups,
          shortlist, orders, advice, held, gated, climate>>

Init ==
  /\ session = 1 /\ run = 0 /\ pc = "idle"
  /\ todo = {} /\ found = <<>> /\ fetched = {}
  /\ health = {} /\ leads = None /\ regime = "absent"
  /\ setups = None /\ shortlist = None /\ orders = None /\ advice = None
  /\ held = {} /\ gated = 0 /\ climate = "absent"

----------------------------------------------------------------------------
(* The pipeline driver and the loop of an agent *)

At(agent) == pc = agent

\* run_module: a non-zero exit status ends the run at that agent.
Exit(next) == pc' = next /\ todo' = {} /\ found' = <<>> /\ fetched' = {}

\* load_assets: the source file is read, validated, and every ticker kept once.
LoadAssets == Tickers

StartRun ==
  /\ At("idle") /\ run < MaxRuns
  /\ run' = run + 1 /\ pc' = "universe" /\ todo' = LoadAssets
  /\ gated' = 0 /\ climate' = "absent"
  /\ UNCHANGED <<session, found, fetched, health, leads, regime, setups, shortlist,
                 orders, advice, held>>

\* Trading closes for the day, whatever the agents are doing.
SessionCloses ==
  /\ session < MaxSession
  /\ session' = session + 1
  /\ UNCHANGED <<run, pc, loop, health, leads, regime, setups, shortlist, orders,
                 advice, held, gated, climate>>

----------------------------------------------------------------------------
(* Freshness of one observation *)

\* assess_freshness for the latest_completed_session policy.
Outcome(obs) ==
  CASE obs = 0 -> "missing"
    [] obs > session -> "future"
    [] obs \in 1 .. (session - 1) -> "stale"
    [] OTHER -> "fresh"

\* _mode_for_failure and _evaluate_metadata: every policy of
\* config/freshness.yaml is critical, and whatever is not fresh is no_trade.
Assess(obs) == IF Outcome(obs) = "fresh" THEN "normal" ELSE "no_trade"

\* fetch_history: an error or nothing at all (0), the previous session's bar,
\* the current one, or the unfinished bar of a session that is still trading.
\* No agent configures a cache or a retry.
Answers == {0, session - 1, session, session + 1}

\* The key of the three macro proxies, which count as one source here.
Proxies == 0

\* market_data_health_row
HealthRow(key, obs) ==
  [kind |-> "price", key |-> key, obs |-> obs, mode |-> Assess(obs)]

\* market_data_is_actionable
IsActionable(obs) == Assess(obs) = "normal"

\* write_ and append_market_data_health_artifact
ReplaceHealth(rows) == health' = rows
AppendHealth(rows) == health' = health \cup rows

\* One pass of the loop `for asset in assets': the row for the health file,
\* and a result only when the answer is actionable and long enough.
Gather(t, obs, result) ==
  /\ t \in todo /\ \A u \in todo : t <= u
  /\ todo' = todo \ {t}
  /\ fetched' = fetched \cup {HealthRow(t, obs)}
  /\ found' = IF IsActionable(obs) /\ result # None
              THEN [u \in DOMAIN found \cup {t} |-> IF u = t THEN result ELSE found[u]]
              ELSE found
  /\ UNCHANGED pc

----------------------------------------------------------------------------
(* Universe and Macro *)

\* An invalid source file fails the agent before it has fetched or written
\* anything.
LoadAssetsFails ==
  /\ At("universe") /\ todo = LoadAssets /\ fetched = {}
  /\ Exit("idle")
  /\ UNCHANGED <<session, run, health, leads, regime, setups, shortlist, orders,
                 advice, held, gated, climate>>

LeadStatus(score) ==
  IF score >= 5 THEN "pass" ELSE IF score >= 2 THEN "watch" ELSE "reject"

\* fetch_asset_data: how many of six conditions hold; no score with fewer than
\* 61 closes.
UniverseFetch(t, obs, score) ==
  /\ At("universe")
  /\ Gather(t, obs, IF score = None THEN None ELSE LeadStatus(score))
  /\ UNCHANGED <<session, run, health, leads, regime, setups, shortlist, orders,
                 advice, held, gated, climate>>

\* The rest of universe_agent.main: health is replaced; no result at all
\* removes the four output files and fails, otherwise they are replaced.
UniverseWrite ==
  /\ At("universe") /\ todo = {}
  /\ ReplaceHealth(fetched)
  /\ IF found = <<>>
       THEN leads' = None /\ Exit("idle")
       ELSE /\ leads' = {t \in DOMAIN found : found[t] # "reject"}
            /\ Exit("macro")
  /\ UNCHANGED <<session, run, regime, setups, shortlist, orders, advice, held,
                 gated, climate>>

\* fetch_market_proxy_data: actionable, and at least fifty closes.
ProxiesRead(obs, enough) == IsActionable(obs) /\ enough

RegimeOf(score) == CASE score = 3 -> "risk_on" [] score = 2 -> "neutral" [] OTHER -> "risk_off"

\* Mutant: the previous regime file stays and the run goes on.
MacroKeeping(obs, enough, score) ==
  /\ At("macro")
  /\ AppendHealth({HealthRow(Proxies, obs)})
  /\ IF ProxiesRead(obs, enough)
       THEN regime' = RegimeOf(score) /\ climate' = RegimeOf(score)
       ELSE UNCHANGED <<regime, climate>>
  /\ Exit("signal")
  /\ UNCHANGED <<session, run, leads, setups, shortlist, orders, advice, held, gated>>

\* macro_agent.main: SPY, QQQ and ^VIX, all three or none.  obs is the worst
\* of the three answers; too few closes also leave a proxy out.
Macro(obs, enough, score) ==
  /\ At("macro")
  /\ AppendHealth({HealthRow(Proxies, obs)})
  /\ IF ProxiesRead(obs, enough)
       THEN regime' = RegimeOf(score) /\ climate' = RegimeOf(score) /\ Exit("signal")
       ELSE regime' = "absent" /\ Exit("idle") /\ UNCHANGED climate
  /\ UNCHANGED <<session, run, leads, setups, shortlist, orders, advice, held, gated>>

----------------------------------------------------------------------------
(* Signal and Risk *)

\* main: no candidate is a normal return, and signal_setups.csv stays as the
\* last run that had one left it.
SignalStart ==
  /\ At("signal")
  /\ IF leads \in {None, {}}
       THEN Exit("risk")
       ELSE pc' = "signals" /\ todo' = leads /\ UNCHANGED <<found, fetched>>
  /\ UNCHANGED <<session, run, health, leads, regime, setups, shortlist, orders,
                 advice, held, gated, climate>>

\* A setup in a risk_off market loses a point.
Adjusted(score) ==
  IF regime = "risk_off" THEN (IF score = 0 THEN 0 ELSE score - 1) ELSE score

SetupStatus(score) ==
  IF score >= 5 THEN "actionable" ELSE IF score >= 3 THEN "watch" ELSE "weak"

\* fetch_signal_data, with the number of risk flags its figures will raise.
Setup(score, flags) ==
  [score |-> Adjusted(score), flags |-> flags, by |-> run, obs |-> session]

SignalFetch(t, obs, score, flags) ==
  /\ At("signals") /\ Gather(t, obs, Setup(score, flags))
  /\ UNCHANGED <<session, run, health, leads, regime, setups, shortlist, orders,
                 advice, held, gated, climate>>

SignalWrite ==
  /\ At("signals") /\ todo = {}
  /\ AppendHealth(fetched)
  /\ IF found = <<>>
       THEN setups' = None /\ Exit("idle")
       ELSE setups' = found /\ Exit("risk")
  /\ UNCHANGED <<session, run, leads, regime, shortlist, orders, advice, held,
                 gated, climate>>

\* apply_risk_checks
Decision(row) ==
  CASE SetupStatus(row.score) = "weak" \/ row.flags >= 2 -> "veto"
    [] SetupStatus(row.score) # "weak" /\ row.flags = 1 -> "caution"
    [] OTHER -> "approved"

\* risk_agent.main: setups not vetoed; without setups the old shortlist stays.
Risk ==
  /\ At("risk")
  /\ shortlist' = IF setups = None THEN shortlist
                  ELSE [t \in {u \in DOMAIN setups : Decision(setups[u]) # "veto"}
                          |-> setups[t]]
  /\ Exit("news")
  /\ UNCHANGED <<session, run, health, leads, regime, setups, orders, advice, held,
                 gated, climate>>

----------------------------------------------------------------------------
(* News and the Data Freshness Gate *)

\* The shortlist as News, Portfolio and Journal load it: missing is empty.
Shortlisted == IF shortlist = None THEN {} ELSE DOMAIN shortlist

\* fetch_news: a ticker without a headline, or with an old one only, is an
\* answer that is not fresh.
NewsRow(t, fresh) ==
  [kind |-> "news", key |-> t, obs |-> session,
   mode |-> IF fresh THEN "normal" ELSE "no_trade"]

\* news_agent.main: one request per shortlisted ticker.
News(fresh) ==
  /\ At("news")
  /\ AppendHealth({NewsRow(t, t \in fresh) : t \in Shortlisted})
  /\ Exit("gate")
  /\ UNCHANGED <<session, run, leads, regime, setups, shortlist, orders, advice,
                 held, gated, climate>>

PriceRows == {row \in health : row.kind = "price"}

\* Mutant: the mode noted when the answer came is trusted.
ActionableOnArrival(aged) ==
  /\ health # {} /\ ~aged
  /\ \A row \in health : row.mode = "normal"

\* assert_actionable_health_frame: no row may say no_trade, and every row is
\* assessed once more now.  News is measured by its age, not by the session;
\* `aged' says that a headline turned a day old since.
Actionable(aged) ==
  /\ health # {} /\ ~aged
  /\ \A row \in health : row.mode = "normal"
  /\ \A row \in PriceRows : Assess(row.obs) = "normal"

Gate(aged) ==
  /\ At("gate")
  /\ aged => health # PriceRows
  /\ IF Actionable(aged) THEN gated' = session /\ Exit("portfolio")
     ELSE Exit("idle") /\ UNCHANGED gated
  /\ UNCHANGED <<session, run, health, leads, regime, setups, shortlist, orders,
                 advice, held, climate>>

----------------------------------------------------------------------------
(* Portfolio and Advisory *)

\* get_regime_settings; an unknown regime counts as risk_off.
MaxPositions(r) == CASE r = "risk_on" -> 5 [] r = "neutral" -> 3 [] OTHER -> 2
MaxPerSector(r) == IF r = "risk_on" THEN 2 ELSE 1

\* risk_priority_value
Priority(row) == IF Decision(row) = "approved" THEN 0 ELSE 1

\* sort_values(by=[score desc, risk priority, ticker])
Ahead(t, u) ==
  LET a == shortlist[t]
      b == shortlist[u]
  IN \/ a.score > b.score
     \/ a.score = b.score /\ Priority(a) < Priority(b)
     \/ a.score = b.score /\ Priority(a) = Priority(b) /\ t < u

Candidates == SetToSortSeq(Shortlisted \ held, Ahead)

\* apply_sector_limits: one pass in that order, stopping when full.
SectorLimited(sequence, most, perSector) ==
  FoldLeft(LAMBDA chosen, t :
             IF \/ Len(chosen) >= most
                \/ Cardinality({i \in DOMAIN chosen : Sector[chosen[i]] = Sector[t]})
                     >= perSector
             THEN chosen ELSE Append(chosen, t),
           <<>>, sequence)

\* load_macro_regime: a missing file reads as neutral.
LoadedRegime == IF regime = "absent" THEN "neutral" ELSE regime

\* build_portfolio_orders copies the shortlisted row, latest_close included.
OrderRow(t) == [ticker |-> t, by |-> shortlist[t].by, obs |-> shortlist[t].obs]

\* main: the run id stamped on the orders is that of the run at work; every
\* early return writes the empty files.
Portfolio ==
  LET chosen == SectorLimited(Candidates, MaxPositions(LoadedRegime),
                              MaxPerSector(LoadedRegime))
  IN /\ At("portfolio")
     /\ orders' = [run |-> run, rows |-> [i \in DOMAIN chosen |-> OrderRow(chosen[i])]]
     /\ Exit("advisory")
     /\ UNCHANGED <<session, run, health, leads, regime, setups, shortlist, advice,
                    held, gated, climate>>

\* determine_open_position_block.  No file the News Agent writes has the
\* severity columns determine_news_block reads, so news never changes a status.
AdviceStatus(t) == IF t \in held THEN "blocked" ELSE "ready_for_manual_review"

\* advisory_agent.run: one row of advice per order of this run.
Advisory ==
  /\ At("advisory")
  /\ advice' = IF orders.run # run THEN {}
               ELSE {[ticker |-> row.ticker, status |-> AdviceStatus(row.ticker)] :
                       row \in Range(orders.rows)}
  /\ Exit("fill")
  /\ UNCHANGED <<session, run, health, leads, regime, setups, shortlist, orders,
                 held, gated, climate>>

\* The Fill Agent and the agents after it, seen from here: positions the
\* operator's recorded fills open or close.
Fill(opened, closed) ==
  /\ At("fill")
  /\ opened \subseteq {a.ticker : a \in {b \in advice : b.status # "blocked"}}
  /\ closed \subseteq held
  /\ held' = (held \ closed) \cup opened
  /\ Exit("idle")
  /\ UNCHANGED <<session, run, health, leads, regime, setups, shortlist, orders,
                 advice, gated, climate>>

----------------------------------------------------------------------------
Next ==
  \/ StartRun \/ SessionCloses
  \/ \E t \in Tickers, obs \in Answers, score \in LeadScores \cup {None} :
       UniverseFetch(t, obs, score)
  \/ LoadAssetsFails \/ UniverseWrite
  \/ \E obs \in Answers, enough \in BOOLEAN, score \in 1 .. 3 :
       Macro(obs, enough, score)
  \/ SignalStart
  \/ \E t \in Tickers, obs \in Answers, score \in Scores, flags \in 0 .. 2 :
       SignalFetch(t, obs, score, flags)
  \/ SignalWrite \/ Risk
  \/ \E fresh \in SUBSET Shortlisted : News(fresh)
  \/ \E aged \in BOOLEAN : Gate(aged)
  \/ Portfolio \/ Advisory
  \/ \E opened, closed \in SUBSET Tickers : Fill(opened, closed)

Spec == Init /\ [][Next]_vars

----------------------------------------------------------------------------
(* Properties *)

Issued == IF orders = None \/ pc # "advisory" THEN {} ELSE Range(orders.rows)

\* An order that rests on setups of its own run rests on the price of the
\* session that was the latest completed one when that run passed the Data
\* Freshness Gate, however the close of trading fell among the agents: the
\* gate assesses every health row again instead of trusting the agents.
OrdersRestOnFreshPrices == \A row \in Issued : row.by = run => row.obs = gated

\* The orders of a run keep to the limits of the regime its own Macro Agent
\* measured: never more positions, nor more in one sector, than that regime
\* admits, and none at all when the proxies gave no regime.  The regime file,
\* the shortlist order and the greedy sector pass have to agree on this.
OrdersObeyRegime ==
  /\ Issued # {} => climate # "absent"
  /\ Cardinality(Issued) <= MaxPositions(climate)
  /\ \A s \in Range(Sector) :
       Cardinality({row \in Issued : Sector[row.ticker] = s}) <= MaxPerSector(climate)

\* Every order of a run rests on setups that run computed: stale evidence
\* stops the pipeline before portfolio construction.
OrdersRestOnThisRun == \A row \in Issued : row.by = run
============================================================================
