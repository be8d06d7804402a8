-------------------------- MODULE MCActivityStream --------------------------
(***************************************************************************)
(* A short job with two fetches and one phase event.                        *)
(***************************************************************************)
EXTENDS ActivityStream, TLC

ShortJob == [k \in Kinds |-> IF k = "fetch" THEN 2 ELSE 1]
=============================================================================
