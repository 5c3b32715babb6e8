----------------------------- MODULE MCEventBus -----------------------------
(* The feed's bus in small: the indicator engine takes closed candles and   *)
(* publishes their indicators to a forwarder; the paper-trading handler     *)
(* shares the candles and may hang.                                         *)
EXTENDS EventBus

CONSTANTS candle, indicator

MCTopic == <<candle, candle, indicator>>
MCEmits == <<indicator, Silent, Silent>>
MCHealthy == {1, 3}
MCMaxQueue == <<2, 1, 1>>
MCTopics == {candle, indicator}
=============================================================================
