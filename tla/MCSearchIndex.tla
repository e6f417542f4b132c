---- MODULE MCSearchIndex ----
(* Small instances of SearchIndex for TLC: the second version of the scanner's
   signatures finds message 2 infected. *)
EXTENDS SearchIndex, TLC

TwoMails == <<1, 2>>
Signatures == (1 :> {}) @@ (2 :> {2})
====
