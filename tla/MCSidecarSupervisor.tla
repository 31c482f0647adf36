------------------------ MODULE MCSidecarSupervisor ------------------------
EXTENDS SidecarSupervisor, TLC

CONSTANTS q1, q2

Symmetry == Permutations({q1, q2})

=============================================================================
