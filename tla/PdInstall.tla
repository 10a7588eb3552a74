------------------------------ MODULE PdInstall ------------------------------
(***************************************************************************)
(* InstallPdTableEntries and InstallPdTableEntry                           *)
(* (src/p4_pdpi/p4_runtime_session_extras.cc).  Each reads the switch's    *)
(* forwarding pipeline config, builds the IrP4Info of its P4Info,          *)
(* translates the PD entries to PI under it and writes them.  Every step   *)
(* is an RPC or a conversion that may fail, and ASSIGN_OR_RETURN returns   *)
(* the error at once.  The switch is shared: between any two steps another *)
(* controller may become primary, push a new pipeline (which clears the    *)
(* table), write entries of its own and step down again.                   *)
(*                                                                         *)
(* A PI entry is the pair <<c, e>>: PD entry e translated under the P4Info *)
(* of config c.  Convertible[c] is the set of PD entries that              *)
(* PdTableEntryToPi accepts under c; ValidConfigs are the configs whose    *)
(* P4Info CreateIrP4Info accepts.                                          *)
(***************************************************************************)
EXTENDS FiniteSets

CONSTANTS PdEntries, Configs, ValidConfigs, Convertible, NoConfig

ASSUME PdInstallAssumption ==
  /\ ValidConfigs \subseteq Configs
  /\ Convertible \in [ValidConfigs -> SUBSET PdEntries]
  /\ NoConfig \notin Configs

VARIABLES
  pc,            \* where the call is: "idle", a step in Busy, or "done"
  kind,          \* "entries" (InstallPdTableEntries) or "entry" (InstallPdTableEntry)
  batch,         \* the PD entries passed in
  config,        \* the local config read from the switch
  info,          \* the local IrP4Info
  pi,            \* the local PI entries
  status,        \* the returned absl::Status
  table,         \* the switch's table entries
  switchConfig,  \* the pipeline the switch runs
  primary        \* whether this session is the primary controller

vars == <<pc, kind, batch, config, info, pi, status, table, switchConfig, primary>>

Translation(c, b) == {<<c, e>> : e \in b}

PiEntries == Configs \X PdEntries

Busy == {"getConfig", "createInfo", "convert", "install"}

TypeOK == /\ pc \in Busy \cup {"idle", "done"}
          /\ kind \in {"entries", "entry"}
          /\ batch \in SUBSET PdEntries
          /\ config \in Configs \cup {NoConfig}
          /\ info \in ValidConfigs \cup {NoConfig}
          /\ pi \in SUBSET PiEntries
          /\ status \in {"none", "ok", "error"}
          /\ table \in SUBSET PiEntries
          /\ switchConfig \in Configs
          /\ primary \in BOOLEAN

Init == /\ pc = "idle"
        /\ kind = "entries"
        /\ batch = {}
        /\ config = NoConfig
        /\ info = NoConfig
        /\ pi = {}
        /\ status = "none"
        /\ table = {}
        /\ switchConfig \in Configs
        /\ primary = TRUE

(* ASSIGN_OR_RETURN: the call returns the error of the step. *)
ReturnError == /\ pc' = "done"
               /\ status' = "error"

(* A call starts with fresh locals. *)
Start(k, b) == /\ pc \in {"idle", "done"}
               /\ pc' = "getConfig"
               /\ kind' = k
               /\ batch' = b
               /\ config' = NoConfig
               /\ info' = NoConfig
               /\ pi' = {}
               /\ status' = "none"
               /\ UNCHANGED <<table, switchConfig, primary>>

InstallPdTableEntries(b) == Start("entries", b)

InstallPdTableEntry(e) == Start("entry", {e})

(* The RPC returns the running config, or fails (a lost connection). *)
GetForwardingPipelineConfig ==
  /\ pc = "getConfig"
  /\ \/ /\ config' = switchConfig
        /\ pc' = "createInfo"
        /\ UNCHANGED status
     \/ /\ ReturnError
        /\ UNCHANGED config
  /\ UNCHANGED <<kind, batch, info, pi, table, switchConfig, primary>>

CreateIrP4InfoIgnoringError ==
  /\ pc = "createInfo"
  /\ info' = config
  /\ pc' = "convert"
  /\ UNCHANGED <<status, kind, batch, config, pi, table, switchConfig, primary>>

CreateIrP4Info ==
  /\ pc = "createInfo"
  /\ IF config \in ValidConfigs
       THEN /\ info' = config
            /\ pc' = "convert"
            /\ UNCHANGED status
       ELSE /\ ReturnError
            /\ UNCHANGED info
  /\ UNCHANGED <<kind, batch, config, pi, table, switchConfig, primary>>

PdTableEntriesToPiSkippingBad ==
  /\ pc = "convert"
  /\ pi' = Translation(info, batch \cap Convertible[info])
  /\ pc' = "install"
  /\ UNCHANGED <<status, kind, batch, config, info, table, switchConfig, primary>>

(* PdTableEntriesToPi / PdTableEntryToPi: all entries, or the first error. *)
PdTableEntriesToPi ==
  /\ pc = "convert"
  /\ IF batch \subseteq Convertible[info]
       THEN /\ pi' = Translation(info, batch)
            /\ pc' = "install"
            /\ UNCHANGED status
       ELSE /\ ReturnError
            /\ UNCHANGED pi
  /\ UNCHANGED <<kind, batch, config, info, table, switchConfig, primary>>

(* The entries the switch may accept: only the primary may write, and an  *)
(* INSERT of an entry already present fails.  The switch checks an entry  *)
(* against the P4Info it runs, which may or may not reject an entry built *)
(* for another one: whether it does is left open.                         *)
Writable == IF primary THEN pi \ table ELSE {}

(* InstallPiTableEntry sends one write request of one update: its entry is *)
(* written or nothing is.                                                   *)
InstallPiTableEntryWrites == {{}, pi}

InstallPiTableEntriesOkIfAnyWritten ==
  /\ pc = "install"
  /\ \E W \in SUBSET Writable :
       /\ kind = "entry" => W \in InstallPiTableEntryWrites
       /\ table' = table \cup W
       /\ status' = IF W = {} /\ pi # {} THEN "error" ELSE "ok"
  /\ pc' = "done"
  /\ UNCHANGED <<kind, batch, config, info, pi, switchConfig, primary>>

(* InstallPiTableEntries sends the inserts and may write any part of them. *)
InstallPiTableEntries ==
  /\ pc = "install"
  /\ \E W \in SUBSET Writable :
       /\ kind = "entry" => W \in InstallPiTableEntryWrites
       /\ table' = table \cup W
       /\ status' = IF W = pi THEN "ok" ELSE "error"
  /\ pc' = "done"
  /\ UNCHANGED <<kind, batch, config, info, pi, switchConfig, primary>>

(* The other controller, as the environment. *)
Other == UNCHANGED <<pc, kind, batch, config, info, pi, status>>

OtherTakesOver == /\ primary
                  /\ primary' = FALSE
                  /\ UNCHANGED <<table, switchConfig>>
                  /\ Other

OtherSetsPipeline(c) == /\ ~primary
                        /\ switchConfig' = c
                        /\ table' = {}
                        /\ UNCHANGED primary
                        /\ Other

OtherWrites(e) == /\ ~primary
                  /\ table' = table \cup {<<switchConfig, e>>}
                  /\ UNCHANGED <<switchConfig, primary>>
                  /\ Other

OtherReleases == /\ ~primary
                 /\ primary' = TRUE
                 /\ UNCHANGED <<table, switchConfig>>
                 /\ Other

CallerStep == \/ GetForwardingPipelineConfig
              \/ CreateIrP4Info
              \/ PdTableEntriesToPi
              \/ InstallPiTableEntries

Next == \/ \E b \in SUBSET PdEntries : InstallPdTableEntries(b)
        \/ \E e \in PdEntries : InstallPdTableEntry(e)
        \/ CallerStep
        \/ OtherTakesOver
        \/ \E c \in Configs : OtherSetsPipeline(c)
        \/ \E e \in PdEntries : OtherWrites(e)
        \/ OtherReleases

(* Each step is a synchronous call of the caller's thread that returns:   *)
(* the caller's steps are weakly fair.  Neither starting a call nor the   *)
(* other controller is.                                                    *)
Fairness == WF_vars(CallerStep)

Spec == Init /\ [][Next]_vars /\ Fairness

-----------------------------------------------------------------------------
(* The state the steps of a call have built up: a config is read before   *)
(* its IrP4Info exists, and the PI entries are the translation of the     *)
(* whole batch under an IrP4Info that accepted all of it.                  *)
InstallInv ==
  /\ TypeOK
  /\ pc \in Busy => status = "none"
  /\ pc \in {"convert", "install"} => info \in ValidConfigs
  /\ pc = "install" => /\ batch \subseteq Convertible[info]
                       /\ pi = Translation(info, batch)
  /\ kind = "entry" /\ pc # "idle" => \E e \in PdEntries : batch = {e}

(* The call as the abstract module sees it. *)
callBar == IF pc \in Busy THEN "busy" ELSE pc

A == INSTANCE PdInstallAbstract WITH call <- callBar

(* Both functions implement the abstract call: a call writes only PI      *)
(* translations of its own PD entries under one P4Info that translates    *)
(* them, in one step at its return, returns OK only when all of them were *)
(* written, and, under the fairness of the caller's thread, returns.      *)
RefinesAbstract == A!Spec

(* A status of OK from either function is about a batch that the IrP4Info *)
(* the call built (line 17/29) translates entry by entry: neither          *)
(* PdTableEntriesToPi nor the install step may drop the entries that fail  *)
(* to convert under it and still report OK for the batch.  The info stays  *)
(* as the call left it until the next call starts.                          *)
OkOnlyForTranslatableBatch ==
  status = "ok" => info \in ValidConfigs /\ batch \subseteq Convertible[info]

(* The comments of both functions say the PD entries are converted to the *)
(* PI representation and that those are installed: every entry the call   *)
(* writes is translated under the P4Info of the pipeline the switch runs. *)
WritesMatchRunningPipeline ==
  [][pc = "install" => \A x \in table' \ table : x[1] = switchConfig]_vars
=============================================================================
