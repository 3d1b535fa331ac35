------------------------------ MODULE MCConfig ------------------------------
EXTENDS Config, TLC

CONSTANTS k1, k2, k3, c1, c2

\* Keys are interchangeable, and so are configurations.
Symmetric == {keys @@ configs : keys \in Permutations({k1, k2, k3}), configs \in Permutations({c1, c2})}
=============================================================================
