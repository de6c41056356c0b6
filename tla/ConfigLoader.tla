---------------------------- MODULE ConfigLoader ----------------------------
(***************************************************************************)
(* LoadConfig (internal/app/config.go): reads a configuration file line by *)
(* line on top of the defaults.  The loader trims every line, so that it   *)
(* never sees the indentation; it keeps a section, an exchange and a list  *)
(* key instead, and a line means what these three make of it.              *)
(*                                                                         *)
(* A line is given cut: [indent, kind, key, value] of kind "header" (a key *)
(* whose value is empty), "pair" or "item".  Blank lines, comments and     *)
(* lines without a colon are passed over by the code and left out here.    *)
(* Numbers are in thousandths, durations in milliseconds.                  *)
(***************************************************************************)
EXTENDS Integers, Sequences, SequencesExt, FiniteSetsExt

CONSTANTS
  Thousandths,   \* texts that strconv.ParseFloat accepts, and what they mean
  Whole          \* texts that strconv.Atoi accepts, and what they mean

VARIABLES
  doc,       \* the lines read so far
  section,   \* the three variables of LoadConfig
  exchange,
  listKey,
  cfg,       \* the configuration so far
  failed     \* an error was returned: main prints it and exits

vars == <<doc, section, exchange, listKey, cfg, failed>>

-----------------------------------------------------------------------------
(* What the keys are, and the defaults.                                    *)

NoText == ""

Sections == {"app", "trading", "exchanges", "fees", "risk", "strategy", "execution", "storage"}

In(s, keys) == {<<s, k>> : k \in keys}

TextKeys ==
  In("app", {"environment", "log_level", "admin_addr"}) \cup In("trading", {"mode"})
    \cup In("execution", {"order_type"}) \cup In("storage", {"redis_addr", "redis_password"})

BoolKeys ==
  In("trading", {"enabled"}) \cup In("execution", {"manual_intervention_on_partial_fill"})
    \cup In("storage", {"redis_enabled"})

FloatKeys ==
  In("risk", {"max_trade_usd", "max_daily_volume_usd", "max_daily_loss_usd", "min_profit_pct",
              "min_profit_usd", "max_slippage_pct"})
    \cup In("strategy", {"min_expected_carry_pct", "min_expected_carry_usd", "basis_risk_pct",
                         "default_funding_rate_pct"})

MinuteKeys ==
  In("strategy", {"funding_interval_minutes", "min_time_to_funding_minutes", "max_hold_time_minutes"})

IntKeys ==
  In("risk", {"max_orderbook_age_ms", "stop_after_consecutive_failures"})
    \cup In("strategy", {"max_depth_levels"})
    \cup In("execution", {"retry_count", "order_timeout_ms", "cancel_unfilled_after_ms"})
    \cup In("storage", {"redis_db", "redis_history_limit", "redis_operation_timeout_ms"})

Keys == TextKeys \cup BoolKeys \cup FloatKeys \cup MinuteKeys \cup IntKeys

Fee(maker, taker) == [maker_pct |-> maker, taker_pct |-> taker]

DefaultSettings ==
  [app |->
     [environment |-> "local", log_level |-> "info", admin_addr |-> ":8080"],
   trading |->
     [enabled |-> FALSE, mode |-> "paper"],
   risk |->
     [max_trade_usd |-> 100000, max_daily_volume_usd |-> 1000000, max_daily_loss_usd |-> 50000,
      min_profit_pct |-> 250, min_profit_usd |-> 1000, max_slippage_pct |-> 100,
      max_orderbook_age_ms |-> 500, stop_after_consecutive_failures |-> 3],
   strategy |->
     [max_depth_levels |-> 5, min_expected_carry_pct |-> 50, min_expected_carry_usd |-> 250,
      basis_risk_pct |-> 30, default_funding_rate_pct |-> 10,
      funding_interval_minutes |-> 28800000, min_time_to_funding_minutes |-> 900000,
      max_hold_time_minutes |-> 32400000],
   execution |->
     [order_type |-> "limit_ioc", retry_count |-> 1, order_timeout_ms |-> 800,
      cancel_unfilled_after_ms |-> 500, manual_intervention_on_partial_fill |-> TRUE],
   storage |->
     [redis_enabled |-> TRUE, redis_addr |-> "redis:6379", redis_password |-> NoText, redis_db |-> 0,
      redis_history_limit |-> 10000, redis_operation_timeout_ms |-> 500]]

DefaultConfig ==
  [settings  |-> DefaultSettings,
   symbols   |-> <<"BTC/USDT", "ETH/USDT">>,
   exchanges |-> [x \in {"bybit", "okx", "htx", "kucoin"} |-> TRUE],
   fees      |-> [x \in {"bybit", "okx", "htx", "kucoin"} |->
                    CASE x = "bybit" -> Fee(20, 55)
                      [] x = "okx"   -> Fee(20, 50)
                      [] OTHER       -> Fee(20, 60)]]

-----------------------------------------------------------------------------
(* Values.                                                                 *)

ParseBool(text) == text \in {"true", "yes", "1"}

\* Whether a key takes this text; text and bool keys take any, and a key that is
\* not known is passed over.
Parses(path, text) ==
  /\ path \in FloatKeys => text \in DOMAIN Thousandths
  /\ path \in IntKeys \cup MinuteKeys => text \in DOMAIN Whole

Parsed(path, text) ==
  CASE path \in TextKeys   -> text
    [] path \in BoolKeys   -> ParseBool(text)
    [] path \in FloatKeys  -> Thousandths[text]
    [] path \in IntKeys    -> Whole[text]
    [] path \in MinuteKeys -> Whole[text] * 60000

AppendIfMissing(values, value) ==
  IF \E i \in DOMAIN values : values[i] = value THEN values ELSE Append(values, value)

\* f with f[x] = y, x new or not.
With(f, x, y) == [z \in DOMAIN f \cup {x} |-> IF z = x THEN y ELSE f[z]]

-----------------------------------------------------------------------------
Init ==
  /\ doc = <<>>
  /\ section = NoText /\ exchange = NoText /\ listKey = <<>>
  /\ cfg = DefaultConfig /\ failed = FALSE

Item(line) ==
  /\ line.kind = "item"
  /\ cfg' = IF listKey = <<"trading", "symbols">>
            THEN [cfg EXCEPT !.symbols = AppendIfMissing(@, line.value)]
            ELSE cfg
  /\ UNCHANGED <<section, exchange, listKey, failed>>

SectionHeader(line) ==
  /\ line.kind = "header" /\ line.key \in Sections
  /\ section' = line.key /\ exchange' = NoText /\ listKey' = <<>>
  /\ UNCHANGED <<cfg, failed>>

SymbolsHeader(line) ==
  /\ line.kind = "header" /\ line.key = "symbols"
  /\ listKey' = <<section, "symbols">>
  /\ cfg' = IF section = "trading" THEN [cfg EXCEPT !.symbols = <<>>] ELSE cfg
  /\ UNCHANGED <<section, exchange, failed>>

\* Only filling in a fee that is missing, as a header of an exchange with fees
\* does, but for the exchanges themselves (a broken variant).
KeepListed(x) ==
  IF x \in DOMAIN cfg.exchanges THEN cfg ELSE [cfg EXCEPT !.exchanges = With(@, x, FALSE)]

\* An exchange that is listed starts out disabled.
Listed(x) == [cfg EXCEPT !.exchanges = With(@, x, FALSE)]

WithFees(x) ==
  IF x \in DOMAIN cfg.fees THEN cfg ELSE [cfg EXCEPT !.fees = With(@, x, Fee(0, 0))]

\* Any other header names an exchange, or is passed over: the section stays.
OtherHeader(line) ==
  /\ line.kind = "header" /\ line.key \notin Sections \cup {"symbols"}
  /\ listKey' = <<>>
  /\ exchange' = IF section \in {"exchanges", "fees"} THEN line.key ELSE exchange
  /\ cfg' = CASE section = "exchanges" -> Listed(line.key)
              [] section = "fees"      -> WithFees(line.key)
              [] OTHER                 -> cfg
  /\ UNCHANGED <<section, failed>>

ExchangePair(line) ==
  /\ line.kind = "pair" /\ section = "exchanges"
  /\ cfg' = IF exchange # NoText /\ line.key = "enabled"
            THEN [cfg EXCEPT !.exchanges = With(@, exchange, ParseBool(line.value))]
            ELSE cfg
  /\ UNCHANGED <<section, exchange, listKey, failed>>

SetFee(key, text) == [cfg EXCEPT !.fees[exchange][key] = Thousandths[text]]

FeePair(line) ==
  /\ line.kind = "pair" /\ section = "fees"
  /\ LET applies == exchange # NoText /\ line.key \in {"maker_pct", "taker_pct"}
         bad     == applies /\ line.value \notin DOMAIN Thousandths
     IN  /\ failed' = bad
         /\ cfg' = IF applies /\ ~bad THEN SetFee(line.key, line.value) ELSE cfg
  /\ UNCHANGED <<section, exchange, listKey>>

\* A number that does not parse is passed over (a broken variant).
NeverFails(path, text) == FALSE

Fails(path, text) == ~Parses(path, text)

SettingPair(line) ==
  /\ line.kind = "pair" /\ section \notin {"exchanges", "fees"}
  /\ LET path == <<section, line.key>>
     IN  /\ failed' = Fails(path, line.value)
         /\ cfg' = IF path \in Keys /\ Parses(path, line.value)
                   THEN [cfg EXCEPT !.settings[section][line.key] = Parsed(path, line.value)]
                   ELSE cfg
  /\ UNCHANGED <<section, exchange, listKey>>

Read(line) ==
  /\ ~failed
  /\ doc' = Append(doc, line)
  /\ \/ Item(line)
     \/ SectionHeader(line) \/ SymbolsHeader(line) \/ OtherHeader(line)
     \/ ExchangePair(line) \/ FeePair(line) \/ SettingPair(line)
=============================================================================
