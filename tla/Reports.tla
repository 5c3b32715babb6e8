------------------------------ MODULE Reports ------------------------------
(* Performance reports: the feed's scheduler generates what is due, users and   *)
(* the command line generate on demand, while trades go on closing. A day is    *)
(* DayLength instants of the clock and a week WeekLength days (Monday first);   *)
(* a report is its metrics, asOf the journal entries committed when it was made. *)
EXTENDS Integers, Sequences, FiniteSets, FiniteSetsExt, SequencesExt

CONSTANTS Writers,       \* the processes and requests that generate reports
          Strategies, Profits,    \* of the trades that close
          Past,          \* the trades closed before the clock starts
          StartingCash,  \* of all paper accounts
          DayLength, WeekLength,
          MaxNow, MaxTrades, MaxRequests     \* bounds

ASSUME ReportConstants == DayLength \in Nat \ {0} /\ WeekLength \in Nat \ {0}
ASSUME ReportTrades ==
    /\ Profits \subseteq Int /\ Past \in Seq(Range(Past))
    /\ \A t \in Range(Past) : t.exit \in Nat /\ t.pnl \in Int

VARIABLES
    now,
    journal,    \* closed trades in the order of their commits: [exit, pnl, strategy]
    closing,    \* trades whose exit_ts is set and whose transaction has not committed
    reports,    \* performance_reports: a set of [kind, start, end, metrics, by, asOf]
    job,        \* writer -> NoJob, or the step it is at
    requests,
    ticked      \* history: days on which a tick ran to its end
reportVars == <<now, journal, closing, reports, job, requests, ticked>>

NoJob == [at |-> "idle"]
Set(w, state) == job' = [job EXCEPT ![w] = state]
ReportsInit ==
    /\ now = 0 /\ journal = Past /\ closing = {} /\ reports = {} /\ requests = 0
    /\ job = [w \in Writers |-> NoJob] /\ ticked = {}

Today == now \div DayLength
ThisWeek == Today \div WeekLength
(* day_bounds, week_bounds: the start, and the next period's start             *)
Bounds(kind, n) ==
    LET length == IF kind = "daily" THEN DayLength ELSE DayLength * WeekLength
    IN  <<n * length, (n + 1) * length>>

-----------------------------------------------------------------------------
(* AnalyticsService._load_trades, as the places of the trades in the journal,   *)
(* and PerformanceMetrics.compute; the averages and ratios are quotients of     *)
(* these, and the Sharpe ratio is left out.                                    *)
TradesTouching(start, end) == {i \in DOMAIN journal : start <= journal[i].exit /\ journal[i].exit <= end}
TradesOf(start, end) == {i \in DOMAIN journal : start <= journal[i].exit /\ journal[i].exit < end}
SumPnl(trades) == SumFunction([i \in trades |-> journal[i].pnl])
Winners(trades) == {i \in trades : journal[i].pnl > 0}
Losers(trades) == {i \in trades : journal[i].pnl < 0}
(* By exit, and in the order of the rows when two exits are the same.          *)
EquityCurve(trades) ==
    LET until(i) == {j \in trades : \/ journal[j].exit < journal[i].exit
                                    \/ journal[j].exit = journal[i].exit /\ j <= i}
    IN  [gone \in {{}} \cup {until(i) : i \in trades} |-> StartingCash + SumPnl(gone)]
MaxDrawdown(trades) ==
    LET curve == EquityCurve(trades)
    IN  Max({curve[p[1]] - curve[p[2]] :
             p \in {ab \in (DOMAIN curve) \X (DOMAIN curve) : ab[1] \subseteq ab[2]}})
Metrics(trades) ==
    LET total == Cardinality(trades)
        wins == Cardinality(Winners(trades))
        losses == Cardinality(Losers(trades))
    IN  [total |-> total, wins |-> wins, losses |-> losses, breakeven |-> total - wins - losses,
         profit |-> SumPnl(Winners(trades)), loss |-> -SumPnl(Losers(trades)), net |-> SumPnl(trades),
         drawdown |-> MaxDrawdown(trades), equity |-> StartingCash + SumPnl(trades)]
ByStrategy(trades) ==
    [s \in {journal[i].strategy : i \in trades} |-> Metrics({i \in trades : journal[i].strategy = s})]

(* ReportService.generate as far as the upsert's flush                         *)
Report(kind, n) ==
    LET b == Bounds(kind, n)
        trades == TradesOf(b[1], b[2])
    IN  [kind |-> kind, start |-> b[1], end |-> b[2], metrics |-> Metrics(trades),
         by |-> ByStrategy(trades), asOf |-> Len(journal)]
Same(r, s) == r.kind = s.kind /\ r.start = s.start
Stored(kind, n) == {r \in reports : r.kind = kind /\ r.start = Bounds(kind, n)[1]}

(* latest: the stored report of the latest period                              *)
LatestStart(kind) == Max({r.start : r \in {x \in reports : x.kind = kind}} \cup {-1})
DueIfNone ==
    {kind \in {"daily", "weekly"} :
        LET last == (IF kind = "daily" THEN Today ELSE ThisWeek) - 1
        IN  last >= 0 /\ LatestStart(kind) = -1}
(* due_reports; before the first finished period the negative ones stand for   *)
(* the days before the system was installed and are not counted as due.        *)
Due ==
    {kind \in {"daily", "weekly"} :
        LET last == (IF kind = "daily" THEN Today ELSE ThisWeek) - 1
        IN  last >= 0 /\ LatestStart(kind) < Bounds(kind, last)[1]}

-----------------------------------------------------------------------------
Tick == now < MaxNow /\ now' = now + 1 /\ UNCHANGED <<journal, closing, reports, job, requests, ticked>>

(* _close stamps exit_ts and commits later, perhaps after midnight.            *)
Close ==
    /\ Len(journal) + Cardinality(closing) < Len(Past) + MaxTrades
    /\ \E s \in Strategies, p \in Profits :
         closing' = closing \cup {[exit |-> now, pnl |-> p, strategy |-> s]}
    /\ UNCHANGED <<now, journal, reports, job, requests, ticked>>
CloseCommits ==
    /\ \E t \in closing : journal' = Append(journal, t) /\ closing' = closing \ {t}
    /\ UNCHANGED <<now, reports, job, requests, ticked>>

(* ReportScheduler.tick, by the feed or by --kind auto: what is due, if any ... *)
Look(w) ==
    /\ job[w] = NoJob
    /\ IF Due = {} THEN ticked' = ticked \cup {Today} /\ UNCHANGED job
       ELSE Set(w, [at |-> "due", due |-> Due, day |-> Today]) /\ UNCHANGED ticked
    /\ UNCHANGED <<now, journal, closing, reports, requests>>
(* ... then yesterday's and last week's, by the clock at that moment; the clock *)
(* and the journal are taken to stand still between the two reports ...         *)
Generate(w) ==
    /\ job[w].at = "due"
    /\ LET n(kind) == (IF kind = "daily" THEN Today ELSE ThisWeek) - 1
       IN  Set(w, [at |-> "made", day |-> job[w].day, made |-> {Report(kind, n(kind)) : kind \in job[w].due},
                   found |-> {kind \in job[w].due : Stored(kind, n(kind)) # {}}])
    /\ UNCHANGED <<now, journal, closing, reports, requests, ticked>>
(* POST /reports/generate and --kind daily or weekly: the current period.      *)
Request(w) ==
    /\ job[w] = NoJob /\ requests < MaxRequests /\ requests' = requests + 1
    /\ \E kind \in {"daily", "weekly"} :
         LET n == IF kind = "daily" THEN Today ELSE ThisWeek
         IN  Set(w, [at |-> "made", day |-> -1, made |-> {Report(kind, n)},
                     found |-> {k \in {kind} : Stored(kind, n) # {}}])
    /\ UNCHANGED <<now, journal, closing, reports, ticked>>
(* The commit: a found row is updated; an insert meets the unique key on       *)
(* (kind, period_start) and fails, with everything else of the transaction.    *)
CommitReports(w) ==
    /\ job[w].at = "made"
    /\ LET made == job[w].made
           clash == {r \in made : r.kind \notin job[w].found /\ \E s \in reports : Same(r, s)}
       IN  IF clash # {} THEN UNCHANGED <<reports, ticked>>
           ELSE /\ reports' = {s \in reports : \A r \in made : ~Same(r, s)} \cup made
                /\ ticked' = ticked \cup {job[w].day}
    /\ Set(w, NoJob)
    /\ UNCHANGED <<now, journal, closing, requests>>

ReportsNext ==
    \/ Tick \/ Close \/ CloseCommits
    \/ \E w \in Writers : Look(w) \/ Generate(w) \/ Request(w) \/ CommitReports(w)
ReportsSpec == ReportsInit /\ [][ReportsNext]_reportVars

-----------------------------------------------------------------------------
(* In every report the strategies' figures add up to the totals, and the daily  *)
(* reports of a week to the weekly one, once each has seen all trades of it.   *)
Figures == {"total", "wins", "losses", "breakeven", "profit", "loss", "net"}
SawAll(r, start, end) ==
    \A i \in DOMAIN journal : start <= journal[i].exit /\ journal[i].exit < end => i <= r.asOf
ReportsAddUp ==
    /\ \A r \in reports : \A f \in Figures : SumFunction([s \in DOMAIN r.by |-> r.by[s][f]]) = r.metrics[f]
    /\ \A r \in reports :
         LET days == {d \in reports : d.kind = "daily" /\ r.start <= d.start /\ d.end <= r.end}
         IN  r.kind = "weekly" /\ Cardinality(days) = WeekLength
               /\ (\A d \in days \cup {r} : SawAll(d, r.start, r.end))
             => \A f \in Figures : SumFunction([d \in days |-> d.metrics[f]]) = r.metrics[f]

(* A scheduler's tick of a day leaves yesterday's report, or that of a later    *)
(* day, stored; and no period has two.                                         *)
TickLeavesReport ==
    /\ \A d \in ticked : d > 0 => LatestStart("daily") >= Bounds("daily", d - 1)[1]
    /\ \A r, s \in reports : Same(r, s) => r = s

(* "A daily report for yesterday is due once we are past midnight UTC and it    *)
(* has not yet been generated": after a tick of a day, yesterday's is there.    *)
YesterdayReported ==
    \A d \in ticked : d > 0 => Stored("daily", d - 1) # {}
=============================================================================
