-------------------------- MODULE PdInstallAbstract --------------------------
(***************************************************************************)
(* What a call of InstallPdTableEntries or InstallPdTableEntry promises,   *)
(* seen from the switch's table: the call returns, and it returns in one   *)
(* step that adds to the table the PI form of some of its PD entries, all  *)
(* translated under one P4Info that can translate them.  It reports OK     *)
(* only when every entry of the request was written.  Meanwhile another    *)
(* controller may become primary, push a pipeline and write entries.       *)
(***************************************************************************)
CONSTANTS PdEntries, Configs, ValidConfigs, Convertible

VARIABLES table, switchConfig, primary, call, batch, status

vars == <<table, switchConfig, primary, call, batch, status>>

(* The PI form of the PD entries b under the P4Info of config c. *)
Translation(c, b) == {<<c, e>> : e \in b}

Init == /\ table = {}
        /\ switchConfig \in Configs
        /\ primary = TRUE
        /\ call = "idle"
        /\ batch = {}
        /\ status = "none"

Call(b) == /\ call \in {"idle", "done"}
           /\ call' = "busy"
           /\ batch' = b
           /\ status' = "none"
           /\ UNCHANGED <<table, switchConfig, primary>>

Return == /\ call = "busy"
          /\ call' = "done"
          /\ \/ /\ status' = "error"
                /\ UNCHANGED table
             \/ \E c \in ValidConfigs :
                  \E S \in SUBSET (batch \cap Convertible[c]) :
                    /\ table' = table \cup Translation(c, S)
                    /\ status' = IF S = batch THEN "ok" ELSE "error"
          /\ UNCHANGED <<batch, switchConfig, primary>>

OtherTakesOver == /\ primary
                  /\ primary' = FALSE
                  /\ UNCHANGED <<table, switchConfig, call, batch, status>>

OtherSetsPipeline(c) == /\ ~primary
                        /\ switchConfig' = c
                        /\ table' = {}
                        /\ UNCHANGED <<primary, call, batch, status>>

OtherWrites(e) == /\ ~primary
                  /\ table' = table \cup {<<switchConfig, e>>}
                  /\ UNCHANGED <<switchConfig, primary, call, batch, status>>

OtherReleases == /\ ~primary
                 /\ primary' = TRUE
                 /\ UNCHANGED <<table, switchConfig, call, batch, status>>

Next == \/ \E b \in SUBSET PdEntries : Call(b)
        \/ Return
        \/ OtherTakesOver
        \/ \E c \in Configs : OtherSetsPipeline(c)
        \/ \E e \in PdEntries : OtherWrites(e)
        \/ OtherReleases

SafetySpec == Init /\ [][Next]_vars

Spec == SafetySpec /\ WF_vars(Return)
=============================================================================
