--------------------------- MODULE MCShmBenchmark ---------------------------
(* ShmBenchmark for TLC.                                                    *)
EXTENDS ShmBenchmark
=============================================================================
