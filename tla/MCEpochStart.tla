---------------------------- MODULE MCEpochStart ----------------------------
(* Small instances of EpochStart for TLC. *)
EXTENDS EpochStart

\* A short and a long round trip: the first makes an offer 5 ticks ahead, the
\* second finds that too close and offers again.
SmallRtts == {0, 5}

\* The estimate of the host's clock is early or late by one tick.
SmallErrors == {-1, 1}

\* For two epochs in a row: one offer is enough, the estimate is exact.
OneRtt == {0}
Exact == {0}
=============================================================================
