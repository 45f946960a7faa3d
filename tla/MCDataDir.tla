----------------------------- MODULE MCDataDir -----------------------------
EXTENDS DataDir

(* One peer, which the daemon dials and which connects itself, and one added   *)
(* by hand.                                                                  *)
MCAddresses == {"peer", "added"}

=============================================================================
