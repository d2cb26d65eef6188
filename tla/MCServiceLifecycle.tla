-------------------------- MODULE MCServiceLifecycle --------------------------
EXTENDS ServiceLifecycle, TLC
PidSymmetry == Permutations(Pids)
=============================================================================
