------------------------------ MODULE MCRiskGate ------------------------------
(* Instances of RiskGate: a handful of files, with limits set twice, a list *)
(* that replaces another, an empty list, a list longer than a line, and     *)
(* lines that are no directives.                                            *)
EXTENDS RiskGate

CONSTANTS SPY, GME

D(k, v) == [key |-> k, val |-> v]

MCFiles == {
    <<>>,
    <<D("MAX_POSITION_SIZE", 1), D("unknown key", 0)>>,
    <<D("MAX_POSITION_SIZE", 1), D("MAX_POSITION_SIZE", 2),
      D("MAX_ORDER_NOTIONAL", 3)>>,
    <<D("MIN_POSITION_SIZE", 2), D("MAX_DRAWDOWN_PCT", 0)>>,
    <<D("ALLOWED_SYMBOLS", <<SPY>>), D("MAX_DAILY_LOSS", 0)>>,
    <<D("ALLOWED_SYMBOLS", <<SPY>>), D("ALLOWED_SYMBOLS", <<>>), D("no '='", 0)>>,
    <<D("BLOCKED_SYMBOLS", <<SPY>>), D("BLOCKED_SYMBOLS", <<GME>>)>>,
    <<D("ALLOWED_SYMBOLS", <<SPY, GME>>), D("BLOCKED_SYMBOLS", <<GME>>)>>,
    <<D("BLOCKED_SYMBOLS", <<GME, SPY, GME>>)>> }

MCDefaults == [
    MAX_POSITION_SIZE |-> 3, MIN_POSITION_SIZE |-> 1, MAX_ORDER_NOTIONAL |-> 4,
    MAX_ORDERS_PER_DAY |-> 2, MAX_DRAWDOWN_PCT |-> 1, MAX_DAILY_LOSS |-> 1,
    ALLOWED_SYMBOLS |-> {}, BLOCKED_SYMBOLS |-> {}]

===============================================================================
