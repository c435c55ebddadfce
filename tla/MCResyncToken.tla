--------------------------- MODULE MCResyncToken ---------------------------
(* Headers of up to three extension parameters named autn, AUTN or ck.     *)
EXTENDS ResyncToken, TLC

MCFold == [n \in {"autn", "AUTN", "ck"} |-> IF n = "ck" THEN "ck" ELSE "autn"]
=============================================================================
