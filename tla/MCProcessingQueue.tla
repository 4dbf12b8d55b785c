------------------------- MODULE MCProcessingQueue -------------------------
(***************************************************************************)
(* Instances of ProcessingQueue for TLC.                                   *)
(***************************************************************************)
EXTENDS ProcessingQueue, TLC

CONSTANTS w1, w2, here, container

TwoWorkers == {w1, w2}
TwoHosts   == w1 :> here @@ w2 :> container
OneHost    == w1 :> here @@ w2 :> here
=============================================================================
