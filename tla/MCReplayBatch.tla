--------------------------- MODULE MCReplayBatch ----------------------------
(***************************************************************************)
(* A batch of two fixtures and one of a single fixture of the same list; a *)
(* Hermes worker takes the jobs of one market, with another model.         *)
(***************************************************************************)
EXTENDS ReplayBatch, TLC

CONSTANTS btc, aapl

TwoLists == << {btc, aapl}, {aapl} >>
AllMarkets == {"crypto", "us_equity"}
Markets == btc :> "crypto" @@ aapl :> "us_equity"
Timeframes == btc :> "240" @@ aapl :> "60"
ReplayJobs == {<<1, btc>>, <<1, aapl>>, <<2, aapl>>}
Attempts == [j \in ReplayJobs |-> IF j = <<1, aapl>> THEN 2 ELSE 1]
TwoModels == [batch |-> "candidate", hermes |-> "live"]
AcceptedMarkets == [batch |-> AllMarkets, hermes |-> {"us_equity"}]
TwoAnswers == {[action |-> "create", state |-> "armed"],
               [action |-> "skip", state |-> "watch"]}
=============================================================================
