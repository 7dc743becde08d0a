-------------------------- MODULE MCTelegramPolling --------------------------
(***************************************************************************)
(* Small instances of TelegramPolling: what the runs have in common.       *)
(***************************************************************************)
EXTENDS TelegramPolling

\* One entry in the middle of the queue that carries no readable update_id.
OneMalformed == {1}

\* The bounds are large enough for each exceptional step to happen.
ASSUME MaxUpdateId >= 1 /\ MaxFaults >= 1

==============================================================================
