--------------------------- MODULE MCLinuxDiscovery ---------------------------
EXTENDS LinuxDiscovery, TLC

CONSTANTS s1, s2, d1, d2

Names == Permutations({s1, s2}) \cup Permutations({d1, d2})
=============================================================================
