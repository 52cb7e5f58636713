----------------------------- MODULE MCTransfer -----------------------------
(* The benchmark with one file of two chunks, or with an empty file before *)
(* one of one chunk; every file at both levels.                            *)
EXTENDS MqttTransfer

CONSTANTS f, h, empty, c1, c2

OneFile == <<f>>
TwoFiles == <<empty, h>>
TransferContent == (f :> <<c1, c2>>) @@ (empty :> <<>>) @@ (h :> <<c1>>)
TransferSize == (c1 :> 5) @@ (c2 :> 4)
=============================================================================
