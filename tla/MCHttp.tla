------------------------------- MODULE MCHttp -------------------------------
(* Three PUTs of payloads of two blocks, one or none and of two names.     *)
EXTENDS HttpUpload
CONSTANTS q1, q2, q3, name1, name2, a, b, c
Short == <<c>>
Long == <<a, b>>
Nothing == <<>>
Payloads == {Nothing, Short, Long}
Threads == Permutations({q1, q2, q3})
=============================================================================
