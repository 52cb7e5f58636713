------------------------------- MODULE MCCoap -------------------------------
(* Four files for both versions of the CoAP benchmark.  The plain name is  *)
(* carried by both; version 1 cuts the one with "="; the empty file, with  *)
(* an escape behind a second "file=", is saved by version 2 under that     *)
(* very name; and the last cannot be sent.                                 *)
EXTENDS CoapUpload

Plain == <<"b">>
Equals == <<"a", "=">>
Empty == <<"c", "&file=", "a", "%3D">>
Fragment == <<"b", "#">>

FourFiles == {Plain, Equals, Empty, Fragment}
FourSizes == [f \in FourFiles |-> IF f = Empty THEN 0 ELSE Len(f)]
EqualsSign == [c \in {"%3D"} |-> "="]

(* DATA_DIR holds any three of them.                                       *)
SmallBatch == Len(files) <= 3
=============================================================================
