--------------------------- MODULE MCModuleManager --------------------------
(* Model-checking instances of ModuleManager. *)
EXTENDS ModuleManager, TLC

\* Workers and addresses are interchangeable.
Symmetry == Permutations(Readers) \cup Permutations(Modules)

\* The files do not change while modules are loaded and reclaimed: every image,
\* a bad one too, is at some path.
LoadsInit == Init /\ {disk[p] : p \in Paths} = Images
LoadsNext == Next /\ UNCHANGED disk
LoadsSpec == LoadsInit /\ [][LoadsNext]_vars /\ Fairness
=============================================================================
