------------------------------- MODULE MCVault -------------------------------
(* One person's two vaults: two states of one, and an old one of another.    *)
EXTENDS Vault

CONSTANTS p1, p2, s1, s2, e1, e2

Mine(es, kdf) == [salt |-> s1, kdf |-> kdf, key |-> Derive(p1, s1, kdf), entries |-> es]
Other1 == [salt |-> s2, kdf |-> "legacy", key |-> Derive(p2, s2, "legacy"), entries |-> {e2}]

Some == {Mine({e1}, "current"), Other1}
OldOnes == {Mine({e1}, "legacy")}
==============================================================================
