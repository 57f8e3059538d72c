----------------------------- MODULE MCInstall -----------------------------
\* Builds, hosts and files are alike.
EXTENDS Install, TLC

Symmetric == Permutations(Builds) \cup Permutations(Hosts) \cup Permutations(Files)
=============================================================================
