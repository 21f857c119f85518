----------------------------- MODULE MCChartPage -----------------------------
(* Small instances of ChartPage: a message that is repeated, two messages   *)
(* of one millisecond, expiry while the page polls, and overlapping polls. *)
EXTENDS ChartPage
=============================================================================
