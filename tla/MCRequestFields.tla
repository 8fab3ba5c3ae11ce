--------------------------- MODULE MCRequestFields ---------------------------
(* Values for TLC: two spellings of a header that is joined, and one of a  *)
(* header whose duplicates are discarded in two spellings.                 *)
EXTENDS RequestFields

LowerCase == [n \in Names |-> CASE n = "Accept" -> "accept"
                                [] n = "Host" -> "host"
                                [] OTHER -> n]
=============================================================================
