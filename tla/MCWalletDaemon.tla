--------------------------- MODULE MCWalletDaemon ---------------------------
(* Two addresses and two passphrases: a wallet that is encrypted, locked,   *)
(* unlocked with either, given another passphrase and back, and restarted.  *)
EXTENDS WalletDaemon, TLC

(* Nothing is left to violate when both exceptions have happened: neither     *)
(* is ever taken back.                                                      *)
SomethingLeft == ~ (stale /\ stray)

WalletSymmetry == Permutations(Address) \cup Permutations(Pass)

=============================================================================
