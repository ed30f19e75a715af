------------------------------- MODULE MCHMI -------------------------------
(* A small HMI for TLC: two manual speeds (a stop and a run), AI speeds on *)
(* both sides of the working range, inference every second cycle.          *)
EXTENDS HMI

mcManualSpeeds == {0, 300}
mcAiSpeeds == {-1, 700}
mcReadings == {0, 5}
=============================================================================
