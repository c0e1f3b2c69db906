---------------------------- MODULE MCShmcRegion ----------------------------
EXTENDS ShmcRegion, TLC

CONSTANTS c1, c2, a1, a2

\* The processes are interchangeable within each role.
RoleSymmetry == Permutations(Creators) \cup Permutations(Attachers)

=============================================================================
