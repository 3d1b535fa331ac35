----------------------------- MODULE MCAccounts -----------------------------
EXTENDS Accounts, TLC

CONSTANTS u1, u2, m1, m2

\* Users are interchangeable, and so are markets.
Symmetric == {users @@ markets : users \in Permutations({u1, u2}), markets \in Permutations({m1, m2})}
=============================================================================
