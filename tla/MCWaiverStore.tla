---------------------------- MODULE MCWaiverStore ----------------------------
(***************************************************************************)
(* Three waiver commands on one file, for findings at two sites.           *)
(***************************************************************************)
EXTENDS WaiverStore, TLC

MCSites == 1..2
MCKey == [s \in MCSites |-> s]
MCEnvironment == [s \in MCSites |-> "default"]
MCScopes == {{1}, {2}}
MCWaiverNumbers == 1..3
Symmetry == Permutations(Commands)
=============================================================================
