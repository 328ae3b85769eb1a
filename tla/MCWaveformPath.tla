--------------------------- MODULE MCWaveformPath ---------------------------
(* Two rates whose periods are no whole number of nanoseconds, windows of two *)
(* and three frames, and packets from empty to too long.                    *)
EXTENDS WaveformPath

CONSTANTS a, b
=============================================================================
