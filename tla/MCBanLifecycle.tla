--------------------------- MODULE MCBanLifecycle ---------------------------
(* Small instances of BanLifecycle for TLC.                                *)
EXTENDS BanLifecycle, TLC

\* The tasks of a kind and the targets are interchangeable.
Interchangeable ==
    Permutations(Targets) \cup Permutations(Watchers) \cup Permutations(Clients)
=============================================================================
