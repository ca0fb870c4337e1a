-------------------------- MODULE MCFlowScheduler --------------------------
(***************************************************************************)
(* The flow files of the check, with start times in eps units:            *)
(*  - two flows at the same time and a later one, so one call starts a     *)
(*    batch and reschedules itself;                                        *)
(*  - a file whose lines are not sorted by start time;                     *)
(*  - an unreadable second line, which shrinks flow_num to 1;              *)
(*  - an unreadable first line, which sets flow_num to 0;                  *)
(* each under a header that declares 2 or 3 flows, so a file may also end *)
(* before the declared count.                                              *)
(***************************************************************************)
EXTENDS FlowScheduler

CONSTANT BadLine

MCFiles == { <<0, 0, 3>>, <<2, 1>>, <<1, BadLine, 2>>, <<BadLine, 1>> }
=============================================================================
