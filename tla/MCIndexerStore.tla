--------------------------- MODULE MCIndexerStore ---------------------------
(* A file with two functions, a file with one, and a file with none.        *)
EXTENDS IndexerStore

MCSignatures == [f1 |-> <<"a", "b">>, f2 |-> <<"b">>, f3 |-> << >>]
=============================================================================
