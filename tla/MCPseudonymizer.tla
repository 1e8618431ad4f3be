--------------------------- MODULE MCPseudonymizer ---------------------------
(***************************************************************************)
(* TLC instances of Pseudonymizer: two addresses of one person, and a      *)
(* third value whose HMAC begins with the same digits.                     *)
(***************************************************************************)
EXTENDS Pseudonymizer

MCType  == {"EMAIL", "API_KEY"}
MCValue == {"jo@a", "jo@b", "key"}

(* For an e-mail address the local part is hashed, otherwise the value.    *)
MCDigits == {"AC51", "B921"}
MCSuffix ==
    [t \in MCType |-> [v \in MCValue |->
        IF t = "EMAIL" \/ v # "jo@b" THEN "AC51" ELSE "B921"]]
=============================================================================
