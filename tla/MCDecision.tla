----------------------------- MODULE MCDecision -----------------------------
(* Nine markets chosen so that each strategy fires, in both directions where   *)
(* it has two, and every branch of the regime is met.  The validation of the    *)
(* library shares no state with the decisions: a behaviour shows one or the     *)
(* other, its scene.                                                           *)
EXTENDS Decision, Validation

VARIABLE scene
sceneVars == <<scene, vars, validationVars>>
SceneInit ==
    /\ Init /\ ValidationInit
    /\ \/ scene = "decision"
       \/ scene = "validation" /\ market = CHOOSE m \in Markets : TRUE
SceneNext ==
    /\ \/ scene = "decision" /\ Next /\ UNCHANGED validationVars
       \/ scene = "validation" /\ ValidationNext /\ UNCHANGED vars
    /\ UNCHANGED scene
SceneSpec == SceneInit /\ [][SceneNext]_sceneVars

Rising ==
    [symbol |-> "infy", sector |-> "it", n5 |-> 60, n1 |-> 60, minutes |-> 60,
     close5 |-> 12600, prev5 |-> 12380, low5 |-> 12300, high5 |-> 12700, orHigh |-> 12500, orLow |-> 12200,
     vol5 |-> 3000, mean5 |-> 2000, vwap |-> 12400, atr5 |-> 200,
     close1 |-> 12600, open1 |-> 12300, low1 |-> 12250, high1 |-> 12700, high20 |-> 12500,
     vol1 |-> 5000, mean1 |-> 2000, atr1 |-> 240, e9 |-> 12500, e21 |-> 12300, e50 |-> 12000,
     adx1 |-> 27, rsi1 |-> 60, close10 |-> 11700, ranges |-> <<300, 280, 260, 240, 230, 220, 210>>,
     priorHigh |-> 12300, priorLow |-> 12060, priorClose |-> 12200, prevClose |-> 12200, dayOpen |-> 12420,
     strength |-> 400, news |-> None, pcr |-> None, maxPain |-> None, ivPercentile |-> None]
Falling ==
    [Rising EXCEPT !.symbol = "sbin", !.sector = "bank",
     !.close5 = 11400, !.prev5 = 11620, !.low5 = 11300, !.high5 = 11700, !.orHigh = 11800, !.orLow = 11500,
     !.vwap = 11600, !.close1 = 11400, !.open1 = 11700, !.low1 = 11300, !.high1 = 11750, !.high20 = 12500,
     !.e9 = 11500, !.e21 = 11700, !.e50 = 12000, !.rsi1 = 40, !.close10 = 12300,
     !.ranges = <<200, 280, 260, 240, 230, 220, 210>>,
     !.priorHigh = 11940, !.priorLow = 11700, !.priorClose = 11800, !.prevClose = 11800, !.dayOpen = 11580,
     !.strength = -400]
(* A pullback to the averages in either trend, with calm indicators *)
Pullback ==
    [Rising EXCEPT !.symbol = "tcs", !.sector = "it", !.orHigh = 12800, !.prev5 = 12450, !.close5 = 12500,
     !.vwap = 12350, !.low5 = 12340, !.high20 = 12900, !.low1 = 12290, !.close1 = 12500, !.close10 = 12300,
     !.rsi1 = 55, !.dayOpen = 12230, !.adx1 = None, !.priorLow = 11500, !.strength = 100]
Rally ==
    [Falling EXCEPT !.symbol = "hdfc", !.sector = None, !.orLow = 11200, !.prev5 = 11550, !.close5 = 11500,
     !.vwap = 11650, !.high5 = 11660, !.high1 = 11710, !.close1 = 11500, !.close10 = 11700, !.rsi1 = 45,
     !.dayOpen = 11770, !.strength = -100, !.priorHigh = 12400]
(* A gap that fills, up and down, in a range; no daily history for the second *)
FillDown == [Rising EXCEPT !.symbol = "itc", !.sector = "fmcg", !.dayOpen = 12400, !.prev5 = 12350,
             !.close5 = 12300, !.orLow = 12250, !.n1 = 20, !.rsi1 = 74]
FillUp == [Falling EXCEPT !.symbol = "lt", !.sector = "fmcg", !.dayOpen = 11600, !.prev5 = 11640,
           !.close5 = 11700, !.n1 = None, !.vol5 = 900, !.pcr = 60, !.news = 50]
(* Option and news inputs, for callers that supply them *)
Supported == [Rising EXCEPT !.pcr = 140, !.maxPain = 12900, !.ivPercentile = 15, !.news = 60, !.sector = None]
Opposed == [Rising EXCEPT !.pcr = 60, !.maxPain = 12000, !.ivPercentile = 90, !.news = -50, !.rsi1 = 76,
            !.strength = -300, !.vol5 = 2500, !.sector = "auto", !.symbol = "tata"]

(* An opening range without height, before there are bars enough for an ATR *)
Still == [Rising EXCEPT !.symbol = "ntpc", !.sector = "power", !.n5 = 8, !.n1 = None, !.atr5 = None,
          !.orHigh = 12500, !.orLow = 12500, !.minutes = 40]

Index == [n |-> 60, e21 |-> 12300, e50 |-> 12000, adx |-> 30, close |-> 12500, slope |-> 1, position |-> 60,
          breadth |-> None, atr |-> 180, prevClose |-> 12400, dayOpen |-> 12450, riskOff |-> None, events |-> {}]
Sliding == [Index EXCEPT !.e21 = 11900, !.close = 11700, !.dayOpen = 11650, !.prevClose = 11700, !.slope = -1]
Quiet == [Index EXCEPT !.adx = 15, !.atr = 90, !.position = 30]
TheMarkets == {
    [index |-> Index, contexts |-> <<Rising, Pullback, Rally>>],
    [index |-> Index, contexts |-> <<Still, Pullback>>],
    [index |-> [Index EXCEPT !.events = {"expiry_day"}, !.dayOpen = 12500], contexts |-> <<Opposed, Falling>>],
    [index |-> Index, contexts |-> <<Supported, Pullback, Opposed, Falling>>],
    [index |-> Sliding, contexts |-> <<Falling, Rally, Rising>>],
    [index |-> [Sliding EXCEPT !.dayOpen = 11500, !.atr = 300], contexts |-> <<Falling, Rally>>],
    [index |-> Quiet, contexts |-> <<Rising, FillDown, FillUp>>],
    [index |-> [Quiet EXCEPT !.position = 70, !.slope = -1, !.breadth = 80], contexts |-> <<FillDown, FillUp, Rising>>],
    [index |-> [Index EXCEPT !.n = 20, !.prevClose = None], contexts |-> <<FillUp, FillDown, Rising>>]}

Fresh == [equity |-> 1000000, heat |-> 0, drawdown |-> 0, dailyLoss |-> 0, maxHeat |-> 600,
          maxDrawdown |-> 1200, maxDailyLoss |-> 300, perTrade |-> 100, open |-> <<>>]
ThePortfolios == {
    Fresh, [Fresh EXCEPT !.heat = 550], [Fresh EXCEPT !.heat = 500, !.equity = 200],
    [Fresh EXCEPT !.drawdown = 1200],
    [Fresh EXCEPT !.heat = 200, !.open = <<[sector |-> "it"], [sector |-> "it"]>>]}
ThePayloads == {
    DefaultConfig,
    [DefaultConfig EXCEPT !.disabled = {"devil", "risk"}, !.act = 10],
    [DefaultConfig EXCEPT !.weights = [risk |-> 0, pm |-> 50], !.act = 5, !.strong = 20],
    [DefaultConfig EXCEPT !.weights = [r \in RoleSet |-> 0]],
    [DefaultConfig EXCEPT !.disabled = RoleSet, !.twice = {"risk"}],
    [DefaultConfig EXCEPT !.act = 70]}

(* A trade that gains two risks, late; one that loses and one that gains half,  *)
(* early.                                                                      *)
TheSuite == <<"orb", "gap_fill", "vcp">>
TheOutcomes == {[entry |-> 100, risk |-> 2, profit |-> 4, exit |-> 2], [entry |-> 100, risk |-> 1, profit |-> -1, exit |-> 1],
                [entry |-> 200, risk |-> 4, profit |-> 2, exit |-> 1]}
(* Falls with the net sum: the thresholds of three are 16, 33 and 50.            *)
ThePValue(net) ==
    CASE SumOf(net) > 35000 -> 15 [] SumOf(net) \in 20000 .. 35000 -> 30 [] SumOf(net) \in 5000 .. 19999 -> 50
      [] OTHER -> 600
=============================================================================
