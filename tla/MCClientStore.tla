--------------------------- MODULE MCClientStore ----------------------------
(***************************************************************************)
(* ClientStore for TLC.  Slots and Channels are interchangeable, and what  *)
(* the store does never depends on the read markers or the badges.         *)
(***************************************************************************)
EXTENDS ClientStore, TLC

Symmetry == Permutations(Slots) \cup Permutations(Channels)

WithoutMarks == <<host, at, mode, load, calls, active, view, known, total,
                  olderLoading, owed, faults>>
=============================================================================
