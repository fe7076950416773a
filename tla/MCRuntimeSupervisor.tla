------------------------- MODULE MCRuntimeSupervisor -------------------------
(* Instances of RuntimeSupervisor for TLC: users do not differ, nor do slots *)
(* that start alike.  Only safety runs use the symmetry.                     *)
EXTENDS RuntimeSupervisor, TLC

Symmetry == Permutations(User) \cup Permutations(Slot \ Lost)
=============================================================================
