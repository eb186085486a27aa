---------------------------- MODULE MCTraceIngest ----------------------------
(***************************************************************************)
(* Instances of TraceIngest.  "kid" starts with the root, "late" after it. *)
(***************************************************************************)
EXTENDS TraceIngest, TLC

MCSpans == {"root", "kid", "late"}
MCStart == [s \in MCSpans |-> IF s = "late" THEN 2 ELSE 1]

\* The trace in one batch, its children twice more (one re-sent with an error and
\* with other events), and the children without the root.
MCBatches == {"whole", "kids", "again"}
MCSpansOf == [b \in MCBatches |-> CASE b = "whole" -> {"root", "kid"}
                                    [] b = "kids"  -> {"kid", "late"}
                                    [] b = "again" -> {"late"}]
MCEventsOf == [b \in MCBatches |-> CASE b = "whole" -> {"kid"}
                                     [] b = "kids"  -> {"kid", "late"}
                                     [] b = "again" -> {}]
MCErrorsOf == [b \in MCBatches |-> CASE b = "kids" -> {"late"} [] OTHER -> {}]
=============================================================================
