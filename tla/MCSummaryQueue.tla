--------------------------- MODULE MCSummaryQueue ---------------------------
(***************************************************************************)
(* Summaries requested again while workers compute them, on a small        *)
(* instance.                                                               *)
(***************************************************************************)
EXTENDS SummaryQueue, TLC
=============================================================================
