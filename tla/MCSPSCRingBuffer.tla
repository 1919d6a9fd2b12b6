-------------------------- MODULE MCSPSCRingBuffer --------------------------
(* SPSCRingBuffer for TLC.                                                  *)
EXTENDS SPSCRingBuffer
=============================================================================
