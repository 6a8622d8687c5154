---------------------------- MODULE PlannerInput -----------------------------
(***************************************************************************)
(* What a planner is shown for a signal: buildPlannerInput reads the last  *)
(* bars of the market and its active plan when the job runs, which may be  *)
(* long after the signal, and summarizes the bars; the deterministic       *)
(* planner answers from the signal, its context and the active plan, and   *)
(* so does the deterministic reviser, about the active plan.               *)
(*                                                                         *)
(* Prices are integers that count ticks, Cent of them in 0.01; what the    *)
(* code rounds to two decimals may go either way when both are as near,    *)
(* which the binary fraction decides.  Percentages of the window are       *)
(* rounded down.  Left out: average ranges, extensions in ATR, sequences   *)
(* of regimes and the states of other timeframes, which only the model     *)
(* reads.                                                                  *)
(***************************************************************************)
EXTENDS Integers, SequencesExt

CONSTANTS
  Times,        \* bar times
  Contexts,     \* what a payload says of its bar
  Signals,      \* direction, alignment, rank, gain, pain
  WindowSize,   \* recentSnapshotWindow
  LatestPlans,  \* the latest plan version of the market: state and bias; None for none
  RiskUnit,     \* the unit of a percentage of the equity
  Cent,         \* ticks of 0.01
  None          \* null

(***************************************************************************)
(* A chart closes a bar between its low and its high.  The schema lets a   *)
(* close be zero.                                                          *)
(***************************************************************************)
ASSUME InputAssumption ==
  /\ Times \subseteq Nat
  /\ \A c \in Contexts :
       /\ {c.low, c.close, c.high, c.ema20, c.ema50, c.ema100, c.ema200, c.atr} \subseteq Nat
       /\ c.low <= c.close /\ c.close <= c.high
       /\ {c.momentum, c.osc} \subseteq {"bull", "bear", "neutral"}
  /\ \A s \in Signals : /\ s.direction \in {"long", "short"}
                        /\ s.alignment \in {"align", "counter", "neutral"}
                        /\ s.rank \in 1..4 /\ s.gain \in Nat /\ s.pain \in Nat
  /\ WindowSize \in Nat \ {0}
  /\ RiskUnit \in Nat \ {0} /\ RiskUnit % 400 = 0
  /\ Cent \in Nat \ {0}
  /\ None \notin Int

VARIABLES
  history,  \* market_states_history of the market: a context per bar time
  latest,   \* its latest plan version; None if there is none
  signal,   \* the signal and its own context; None before it arrives
  input     \* the PlannerInput; None before the job runs

-----------------------------------------------------------------------------
(* summarizeRecentSnapshots *)

(* The bars in ascending order of time, whatever order they arrived in. *)
Older(t) == {u \in DOMAIN history : u < t}
SortedTimes ==
  [i \in 1..Cardinality(DOMAIN history) |->
     CHOOSE t \in DOMAIN history : Cardinality(Older(t)) = i - 1]

Column(bars, field) == [i \in DOMAIN bars |-> bars[i][field]]
Highs(bars) == Column(bars, "high")
Lows(bars) == Column(bars, "low")

(* More than a quarter of a percent, of the first close. *)
InferNetDirection(firstClose, lastClose) ==
  CASE firstClose = 0 -> "unknown"
    [] firstClose # 0 /\ 400 * (lastClose - firstClose) > firstClose -> "bull"
    [] firstClose # 0 /\ 400 * (firstClose - lastClose) > firstClose -> "bear"
    [] firstClose # 0 /\ 400 * (lastClose - firstClose) \in -firstClose..firstClose -> "flat"

InferDirectionalBias(directions) ==
  LET seen == ToSet(directions)
  IN  CASE {"bull", "bear"} \subseteq seen -> "mixed"
        [] "bull" \in seen /\ "bear" \notin seen -> "bull"
        [] "bear" \in seen /\ "bull" \notin seen -> "bear"
        [] {"bull", "bear"} \intersect seen = {} -> "flat"

(* Four equal averages are a bull stack: the first test wins. *)
InferLatestEmaStack(c) ==
  IF c.ema20 >= c.ema50 /\ c.ema50 >= c.ema100 /\ c.ema100 >= c.ema200 THEN "bull"
  ELSE IF c.ema20 <= c.ema50 /\ c.ema50 <= c.ema100 /\ c.ema100 <= c.ema200 THEN "bear"
  ELSE "mixed"

CountUpStepsFromFirst(values) == \* mutant: compares with the first bar
  Cardinality({i \in 2..Len(values) : values[i] > values[1]})
CountUpSteps(values) == Cardinality({i \in 2..Len(values) : values[i] > values[i - 1]})
CountDownSteps(values) == Cardinality({i \in 2..Len(values) : values[i] < values[i - 1]})

CloseLocationInRange(close, low, high) ==
  IF high = low THEN 50 ELSE (100 * (close - low)) \div (high - low)

EmptySummary ==
  [count |-> 0, rangeHigh |-> None, rangeLow |-> None, netDirection |-> "unknown",
   closeLocation |-> None, above |-> {}, emaStack |-> "unknown",
   higherHighs |-> 0, higherLows |-> 0, lowerHighs |-> 0, lowerLows |-> 0,
   momentumBias |-> "unknown", oscBias |-> "unknown"]

Summarize(bars) ==
  LET last == bars[Len(bars)]
      rangeHigh == Max(ToSet(Highs(bars)))
      rangeLow == Min(ToSet(Lows(bars)))
  IN  [count |-> Len(bars), rangeHigh |-> rangeHigh, rangeLow |-> rangeLow,
       netDirection |-> InferNetDirection(bars[1].close, last.close),
       closeLocation |-> CloseLocationInRange(last.close, rangeLow, rangeHigh),
       above |-> {e \in {"ema20", "ema50", "ema200"} : last.close >= last[e]},
       emaStack |-> InferLatestEmaStack(last),
       higherHighs |-> CountUpSteps(Highs(bars)),
       higherLows |-> CountUpSteps(Lows(bars)),
       lowerHighs |-> CountDownSteps(Highs(bars)),
       lowerLows |-> CountDownSteps(Lows(bars)),
       momentumBias |-> InferDirectionalBias(Column(bars, "momentum")),
       oscBias |-> InferDirectionalBias(Column(bars, "osc"))]

-----------------------------------------------------------------------------
(* The job and what it reads *)

(***************************************************************************)
(* A payload of a bar is written to the history of its market; the first   *)
(* one of a bar stays.  A signal brings its own context.                   *)
(***************************************************************************)
Recorded(t, c) == [u \in DOMAIN history \union {t} |->
                     IF u \in DOMAIN history THEN history[u] ELSE c]

RecordMarketState(t, c) ==
  /\ input = None
  /\ history' = Recorded(t, c)
  /\ UNCHANGED <<latest, signal, input>>

ReceiveSignal(t, c, s) ==
  /\ signal = None
  /\ history' = Recorded(t, c)
  /\ signal' = [asked |-> s, context |-> c]
  /\ UNCHANGED <<latest, input>>

(* order by bar_time_ms desc limit n, reversed *)
RecentTimesOldest(n) == SubSeq(SortedTimes, 1, Min({n, Len(SortedTimes)})) \* mutant
RecentTimes(n) ==
  SubSeq(SortedTimes, Max({1, Len(SortedTimes) - n + 1}), Len(SortedTimes))

HasActivePlan == latest # None /\ latest.state \notin {"closed", "expired"}

BuildPlannerInput ==
  /\ signal # None
  /\ input = None
  /\ LET times == RecentTimes(WindowSize)
         bars == [i \in DOMAIN times |-> history[times[i]]]
     IN  input' = [times |-> times, bars |-> bars, activePlan |-> HasActivePlan,
                   summary |-> IF bars = << >> THEN EmptySummary ELSE Summarize(bars)]
  /\ UNCHANGED <<history, latest, signal>>

-----------------------------------------------------------------------------
(* generateDeterministicTradePlan *)

ShouldSkip(s) == s.alignment # "align" \/ s.rank <= 2 \/ s.gain <= s.pain

Distance(x, y) == IF x < y THEN y - x ELSE x - y

(* The integers nearest to n / d: two if both are as near. *)
Nearest(n, d) == {y \in {n \div d, n \div d + 1} : 2 * Distance(n, y * d) <= d}

(* ema50 -+ atr * 0.25, to two decimals *)
ZoneEnds(x) == {Cent * y : y \in Nearest(x, 4 * Cent)}

EntryZonesFlipped(c, direction) == \* mutant: a short's zone upside down
  IF direction = "long"
  THEN [low : ZoneEnds(4 * c.ema50 - c.atr), high : ZoneEnds(4 * c.ema50 + c.atr)]
  ELSE [low : ZoneEnds(4 * c.ema50 + c.atr), high : ZoneEnds(4 * c.ema50 - c.atr)]
EntryZones(c, direction) ==
  [low : ZoneEnds(4 * c.ema50 - c.atr), high : ZoneEnds(4 * c.ema50 + c.atr)]

(* 1% or 0.75%; a rank below 3 is skipped *)
InferRiskPct(s) ==
  IF s.rank >= 4 /\ 2 * s.gain > 3 * s.pain THEN RiskUnit \div 100 ELSE 3 * (RiskUnit \div 400)

DeterministicPlans(sig, active) ==
  LET s == sig.asked
  IN  IF ShouldSkip(s)
      THEN {[action |-> IF active THEN "keep" ELSE "skip", state |-> "watch",
             bias |-> "neutral", low |-> None, high |-> None, riskPct |-> 0]}
      ELSE {[action |-> IF active THEN "patch" ELSE "create", state |-> "armed",
             bias |-> s.direction, low |-> zone.low, high |-> zone.high,
             riskPct |-> InferRiskPct(s)] : zone \in EntryZones(sig.context, s.direction)}

-----------------------------------------------------------------------------
(* generateDeterministicPlanRevision *)

TradableSignalLowRank(s) == s.alignment = "align" /\ s.rank >= 2 /\ s.gain > s.pain \* mutant
TradableSignal(s) == s.alignment = "align" /\ s.rank >= 3 /\ s.gain > s.pain

SameDirection(s, active) == active.bias # "neutral" /\ s.direction = active.bias

Conflicts(s, active) ==
  active.bias # "neutral" /\ s.alignment # "neutral" /\ ~SameDirection(s, active)

(***************************************************************************)
(* The first rule that applies.  held: an open position; extended: the     *)
(* last bar is 1.2 ATR above its average or 1.35 times the usual range.    *)
(***************************************************************************)
DeterministicRevision(s, active, held, extended) ==
  LET setup == active.state \in {"armed", "pending_entry"}
  IN  IF Conflicts(s, active) THEN IF held THEN "close_full" ELSE "invalidate"
      ELSE IF ~TradableSignal(s) /\ setup THEN "downgrade_to_watch"
      ELSE IF TradableSignal(s) /\ SameDirection(s, active) /\ active.state = "watch"
           THEN "upgrade"
      ELSE IF SameDirection(s, active) /\ (setup \/ active.state = "managing") /\ extended
           THEN "tighten"
      ELSE "keep"

-----------------------------------------------------------------------------
(* Properties *)

(***************************************************************************)
(* The planner sees the newest bars that the market has, each once and in  *)
(* order of time, however late or often their payloads came: no recorded   *)
(* bar outside the window is newer than one inside.                        *)
(***************************************************************************)
WindowIsRecent ==
  input # None =>
    /\ Len(input.times) = Min({WindowSize, Cardinality(DOMAIN history)})
    /\ \A i, j \in DOMAIN input.times : i < j => input.times[i] < input.times[j]
    /\ \A t \in DOMAIN history \ ToSet(input.times), u \in ToSet(input.times) : t < u
    /\ \A i \in DOMAIN input.times : input.bars[i] = history[input.times[i]]

(***************************************************************************)
(* The counts, the range and the location of the summary tell one story:   *)
(* a range whose top is not that of the first bar was climbed to, one      *)
(* whose top is not that of the last bar was left, likewise for the        *)
(* bottom; the last close lies in the range; and a window with no step     *)
(* down of the lows or highs has not fallen below its first low.           *)
(***************************************************************************)
SummaryTellsWindow ==
  input # None =>
    LET sum == input.summary
        bars == input.bars
        last == bars[Len(bars)]
    IN  /\ sum.closeLocation \in 0..100
        /\ sum.higherHighs = 0 => sum.rangeHigh = bars[1].high
        /\ sum.lowerHighs = 0 => sum.rangeHigh = last.high
        /\ sum.higherLows = 0 => sum.rangeLow = last.low
        /\ sum.lowerLows = 0 => sum.rangeLow = bars[1].low
        /\ sum.higherHighs + sum.lowerHighs < sum.count
        /\ sum.higherLows + sum.lowerLows < sum.count
        /\ sum.lowerLows = 0 => last.close >= bars[1].low

(***************************************************************************)
(* The reviser and the planner, asked about one signal, do not contradict  *)
(* each other about an active plan with a bias: a setup is kept or         *)
(* tightened exactly if the planner would arm its side anew, and a watched *)
(* plan is upgraded exactly if the planner would arm it.                   *)
(***************************************************************************)
RevisionAgrees ==
  (signal # None /\ HasActivePlan /\ latest.bias # "neutral") =>
    \A held, extended \in BOOLEAN, p \in DeterministicPlans(signal, TRUE) :
      LET says == DeterministicRevision(signal.asked, latest, held, extended)
          rearms == p.state = "armed" /\ p.bias = latest.bias
      IN  /\ latest.state \in {"armed", "pending_entry"} =>
               (says \in {"keep", "tighten"} <=> rearms)
          /\ latest.state = "watch" => (says = "upgrade" <=> rearms)

(***************************************************************************)
(* What the reads rest on: a signal has its bar in the history, and no     *)
(* input is built before the signal.                                       *)
(***************************************************************************)
MarketRead ==
  /\ IsFiniteSet(DOMAIN history) /\ DOMAIN history \subseteq Times
  /\ history \in [DOMAIN history -> Contexts]
  /\ latest \in LatestPlans
  /\ signal # None => /\ signal \in [asked : Signals, context : Contexts]
                     /\ DOMAIN history # {}
  /\ input # None => signal # None /\ input.activePlan = HasActivePlan
=============================================================================
