----------------------------- MODULE MCReceiver -----------------------------
(* Four files for MqttReceiver: two of two chunks that share the first, an *)
(* empty one and one that cannot be opened.                                *)
EXTENDS MqttReceiver

CONSTANTS f, g, empty, locked,   \* files
          c1, c2, tail           \* chunks

(* A file that ends in a small tail and one that ends in a large chunk.    *)
FileContent == (f :> <<c1, tail>>) @@ (g :> <<c1, c2>>) @@ (empty :> <<>>)
                  @@ (locked :> <<c2>>)

Sizes == (c1 :> 5) @@ (c2 :> 4) @@ (tail :> 1)
=============================================================================
