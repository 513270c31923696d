---------------------------- MODULE MCEpochBarrier ----------------------------
(* Small instances of EpochBarrier for TLC. *)
EXTENDS EpochBarrier, TLC

\* Parts of a session: the kinds of epochs as they follow each other.
RoundRetry == <<"Round", "Retry">>
RoundRoundRetrySelectRound == <<"Round", "Round", "Retry", "Select", "Round">>
=============================================================================
