------------------------- MODULE MCSendReceiveData -------------------------
(* Instances of SendReceiveData for TLC.                                   *)
EXTENDS SendReceiveData, TLC

CONSTANTS good, toy, old, d1, d2, t1, t2

AllFunctions == {"init", "deinit", "sendIR", "decodeIR"}

\* A plug-in with a hand-over, another usable one, and one that cannot decode.
ExportsToy == (toy :> AllFunctions) @@ (good :> AllFunctions)
              @@ (old :> {"init", "deinit"})
=============================================================================
