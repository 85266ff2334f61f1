-------------------------- MODULE MCMetadataRecovery --------------------------
(***************************************************************************)
(* MetadataRecovery on a small instance.                                   *)
(***************************************************************************)
EXTENDS MetadataRecovery, TLC

CONSTANTS library, sessions, presets

(* MetadataFileKind::ALL; or a kind that repair does not compare and one   *)
(* that it does.                                                           *)
AllKinds == <<library, sessions, presets>>
TwoKinds == <<library, sessions>>

(* read_source_locked hashes the sessions and the presets. *)
HashedKinds == Files \ {library}

(* SessionRepository leaves a missing file alone while there is a last-good *)
(* copy; or nobody opens a repository whose file is missing.                *)
CreatedKinds == Files \ {sessions}
NoKinds == {}

(* Windows are interchangeable. *)
Symmetric == Permutations(Apps)
===============================================================================
