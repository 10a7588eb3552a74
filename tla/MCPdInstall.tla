----------------------------- MODULE MCPdInstall -----------------------------
(***************************************************************************)
(* A small switch for PdInstall: three PD entries, a pipeline c1 that      *)
(* translates p1 and p2, a pipeline c2 that translates only p1, a pipeline *)
(* c3 whose P4Info CreateIrP4Info refuses, and an entry p3 that no         *)
(* pipeline translates.                                                     *)
(***************************************************************************)
EXTENDS PdInstall, TLC

CONSTANTS p1, p2, p3, c1, c2, c3

MCPdEntries == {p1, p2, p3}

MCConfigs == {c1, c2, c3}

MCValidConfigs == {c1, c2}

MCConvertible == (c1 :> {p1, p2}) @@ (c2 :> {p1})
=============================================================================
