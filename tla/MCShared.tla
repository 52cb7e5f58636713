------------------------------ MODULE MCShared ------------------------------
(* Two files, of two chunks and of one that fits in the writer's buffer;   *)
(* the first is sent three times, once after the other.                    *)
EXTENDS SharedData

CONSTANTS f, g, c1, c2, tail

TwoFiles == (f :> <<c1, c2>>) @@ (g :> <<tail>>)
Sizes == (c1 :> 5) @@ (c2 :> 4) @@ (tail :> 1)
FourSends == <<f, f, g, f>>
=============================================================================
