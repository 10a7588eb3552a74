--------------------------- MODULE PdInstallProofs ---------------------------
(***************************************************************************)
(* Proofs about PdInstall: the state a call builds up (InstallInv) is an   *)
(* invariant, and both install functions implement the safety part of the *)
(* abstract call of PdInstallAbstract under the mapping callBar, and an   *)
(* OK status is only ever about a batch the call's IrP4Info translates.   *)
(***************************************************************************)
EXTENDS PdInstall, TLAPS

(* In the initial state no call is under way. *)
LEMMA InstallInvInit == Init => InstallInv
BY PdInstallAssumption DEF Init, InstallInv, TypeOK, Busy

(* Every step keeps InstallInv: a call resets its locals, each step builds *)
(* the next local from the last one, and the other controller touches    *)
(* only the switch.                                                       *)
LEMMA InstallInvInductive == InstallInv /\ [Next]_vars => InstallInv'
<1> SUFFICES ASSUME InstallInv, [Next]_vars PROVE InstallInv'
  OBVIOUS
<1> USE PdInstallAssumption DEF InstallInv, TypeOK, Busy
<1>1. ASSUME NEW b \in SUBSET PdEntries, InstallPdTableEntries(b) PROVE InstallInv'
  BY <1>1 DEF InstallPdTableEntries, Start
<1>2. ASSUME NEW e \in PdEntries, InstallPdTableEntry(e) PROVE InstallInv'
  BY <1>2 DEF InstallPdTableEntry, Start
<1>3. CASE GetForwardingPipelineConfig
  BY <1>3 DEF GetForwardingPipelineConfig, ReturnError
<1>4. CASE CreateIrP4Info
  BY <1>4 DEF CreateIrP4Info, ReturnError
<1>5. CASE PdTableEntriesToPi
  <2>1. CASE batch \subseteq Convertible[info]
    <3>1. Translation(info, batch) \in SUBSET PiEntries
      BY <1>5, <2>1 DEF PdTableEntriesToPi, Translation, PiEntries
    <3>2. QED
      BY <1>5, <2>1, <3>1 DEF PdTableEntriesToPi
  <2>2. CASE ~(batch \subseteq Convertible[info])
    BY <1>5, <2>2 DEF PdTableEntriesToPi, ReturnError
  <2>3. QED
    BY <2>1, <2>2
<1>6. CASE InstallPiTableEntries
  BY <1>6 DEF InstallPiTableEntries, Writable, InstallPiTableEntryWrites
<1>7. CASE OtherTakesOver
  BY <1>7 DEF OtherTakesOver, Other
<1>8. ASSUME NEW c \in Configs, OtherSetsPipeline(c) PROVE InstallInv'
  BY <1>8 DEF OtherSetsPipeline, Other
<1>9. ASSUME NEW e \in PdEntries, OtherWrites(e) PROVE InstallInv'
  BY <1>9 DEF OtherWrites, Other, PiEntries
<1>10. CASE OtherReleases
  BY <1>10 DEF OtherReleases, Other
<1>11. CASE UNCHANGED vars
  BY <1>11 DEF vars
<1>12. QED
  BY <1>1, <1>2, <1>3, <1>4, <1>5, <1>6, <1>7, <1>8, <1>9, <1>10, <1>11
     DEF Next, CallerStep

(* InstallInv, which includes the type invariant, holds in every state. *)
THEOREM InstallCorrect == Spec => []InstallInv
BY InstallInvInit, InstallInvInductive, PTL DEF Spec

(* The type invariant of the install model: every local, the status and *)
(* the switch's state stay in their sets.                                  *)
THEOREM InstallTypeCorrect == Spec => []TypeOK
<1>1. InstallInv => TypeOK
  BY DEF InstallInv
<1>2. QED
  BY <1>1, InstallCorrect, PTL

(* What InstallPiTableEntries writes is the translation, under the call's *)
(* IrP4Info, of the PD entries S it names, and it writes all of pi exactly *)
(* when S is the whole batch.                                             *)
LEMMA WrittenEntries ==
  ASSUME NEW c, NEW b, NEW W \in SUBSET Translation(c, b)
  PROVE  LET S == {e \in b : <<c, e>> \in W}
         IN  /\ S \subseteq b
             /\ Translation(c, S) = W
             /\ (S = b) <=> (W = Translation(c, b))
BY DEF Translation

(* An error returned before the install is the abstract call's return    *)
(* with nothing written.                                                  *)
LEMMA EarlyReturn ==
  ASSUME pc \in Busy, pc' = "done", status' = "error",
         UNCHANGED <<batch, table, switchConfig, primary>>
  PROVE  A!Return
BY DEF A!Return, callBar, Busy

(* A step that moves between two steps of a call changes nothing the      *)
(* abstract call sees.                                                    *)
LEMMA InnerStep ==
  ASSUME pc \in Busy, pc' \in Busy,
         UNCHANGED <<batch, status, table, switchConfig, primary>>
  PROVE  UNCHANGED A!vars
BY DEF A!vars, callBar

(* Both install functions implement the abstract call: every step is a   *)
(* step of the abstract module under callBar, or leaves it unchanged.    *)
THEOREM Refinement == Spec => A!SafetySpec
<1>1. Init => A!Init
  BY DEF Init, A!Init, callBar, Busy
<1>2. InstallInv /\ [Next]_vars => [A!Next]_A!vars
  <2> SUFFICES ASSUME InstallInv, [Next]_vars PROVE [A!Next]_A!vars
    OBVIOUS
  <2>1. ASSUME NEW b \in SUBSET PdEntries, InstallPdTableEntries(b) PROVE A!Next
    <3>1. A!Call(b)
      BY <2>1 DEF InstallPdTableEntries, Start, A!Call, callBar, Busy
    <3>2. QED
      BY <3>1 DEF A!Next
  <2>2. ASSUME NEW e \in PdEntries, InstallPdTableEntry(e) PROVE A!Next
    <3>1. A!Call({e})
      BY <2>2 DEF InstallPdTableEntry, Start, A!Call, callBar, Busy
    <3>2. {e} \in SUBSET PdEntries
      OBVIOUS
    <3>3. QED
      BY <3>1, <3>2 DEF A!Next
  <2>3. CASE GetForwardingPipelineConfig
    <3>1. CASE pc' = "createInfo"
      BY <2>3, <3>1, InnerStep DEF GetForwardingPipelineConfig, ReturnError, Busy
    <3>2. CASE pc' # "createInfo"
      <4>1. A!Return
        BY <2>3, <3>2, EarlyReturn DEF GetForwardingPipelineConfig, ReturnError, Busy
      <4>2. QED
        BY <4>1 DEF A!Next
    <3>3. QED
      BY <3>1, <3>2
  <2>4. CASE CreateIrP4Info
    <3>1. CASE config \in ValidConfigs
      BY <2>4, <3>1, InnerStep DEF CreateIrP4Info, Busy
    <3>2. CASE config \notin ValidConfigs
      <4>1. A!Return
        BY <2>4, <3>2, EarlyReturn DEF CreateIrP4Info, ReturnError, Busy
      <4>2. QED
        BY <4>1 DEF A!Next
    <3>3. QED
      BY <3>1, <3>2
  <2>5. CASE PdTableEntriesToPi
    <3>1. CASE batch \subseteq Convertible[info]
      BY <2>5, <3>1, InnerStep DEF PdTableEntriesToPi, Busy
    <3>2. CASE ~(batch \subseteq Convertible[info])
      <4>1. A!Return
        BY <2>5, <3>2, EarlyReturn DEF PdTableEntriesToPi, ReturnError, Busy
      <4>2. QED
        BY <4>1 DEF A!Next
    <3>3. QED
      BY <3>1, <3>2
  <2>6. CASE InstallPiTableEntries
    <3>1. /\ info \in ValidConfigs
          /\ batch \subseteq Convertible[info]
          /\ pi = Translation(info, batch)
          /\ pc = "install"
      BY <2>6 DEF InstallPiTableEntries, InstallInv
    <3>2. PICK W \in SUBSET Writable :
               /\ table' = table \cup W
               /\ status' = IF W = pi THEN "ok" ELSE "error"
      BY <2>6 DEF InstallPiTableEntries
    <3>3. W \in SUBSET Translation(info, batch)
      BY <3>1, <3>2 DEF Writable
    <3> DEFINE S == {e \in batch : <<info, e>> \in W}
    <3>4. /\ S \subseteq batch
          /\ Translation(info, S) = W
          /\ (S = batch) <=> (W = Translation(info, batch))
      BY <3>3, WrittenEntries
    <3>5. S \in SUBSET (batch \cap Convertible[info])
      BY <3>1, <3>4
    <3>6. /\ table' = table \cup Translation(info, S)
          /\ status' = IF S = batch THEN "ok" ELSE "error"
      BY <3>1, <3>2, <3>4
    <3>7. /\ callBar = "busy" /\ callBar' = "done"
          /\ UNCHANGED <<batch, switchConfig, primary>>
      BY <2>6, <3>1 DEF InstallPiTableEntries, callBar, Busy
    <3>8. A!Return
      BY <3>1, <3>5, <3>6, <3>7 DEF A!Return, A!Translation, Translation
    <3>9. QED
      BY <3>8 DEF A!Next
  <2>7. CASE OtherTakesOver
    <3>1. A!OtherTakesOver
      BY <2>7 DEF OtherTakesOver, Other, A!OtherTakesOver, callBar
    <3>2. QED
      BY <3>1 DEF A!Next
  <2>8. ASSUME NEW c \in Configs, OtherSetsPipeline(c) PROVE A!Next
    <3>1. A!OtherSetsPipeline(c)
      BY <2>8 DEF OtherSetsPipeline, Other, A!OtherSetsPipeline, callBar
    <3>2. QED
      BY <3>1 DEF A!Next
  <2>9. ASSUME NEW e \in PdEntries, OtherWrites(e) PROVE A!Next
    <3>1. A!OtherWrites(e)
      BY <2>9 DEF OtherWrites, Other, A!OtherWrites, callBar
    <3>2. QED
      BY <3>1 DEF A!Next
  <2>10. CASE OtherReleases
    <3>1. A!OtherReleases
      BY <2>10 DEF OtherReleases, Other, A!OtherReleases, callBar
    <3>2. QED
      BY <3>1 DEF A!Next
  <2>11. CASE UNCHANGED vars
    BY <2>11 DEF vars, A!vars, callBar
  <2>12. QED
    BY <2>1, <2>2, <2>3, <2>4, <2>5, <2>6, <2>7, <2>8, <2>9, <2>10, <2>11
       DEF Next, CallerStep
<1>3. QED
  BY <1>1, <1>2, InstallCorrect, PTL DEF Spec, A!SafetySpec

(* Every step keeps OkOnlyForTranslatableBatch.  Only the install step  *)
(* sets the status to OK, and at that step InstallInv gives a valid info  *)
(* that translates the whole batch, both of which the step keeps.  A new  *)
(* call resets the status; the other steps of a call run with status      *)
(* "none" (InstallInv) and leave it so or return an error; the other      *)
(* controller touches neither the status nor the call's locals.          *)
LEMMA OkInductive ==
  InstallInv /\ OkOnlyForTranslatableBatch /\ [Next]_vars => OkOnlyForTranslatableBatch'
<1> SUFFICES ASSUME InstallInv, OkOnlyForTranslatableBatch, [Next]_vars, status' = "ok"
             PROVE  info' \in ValidConfigs /\ batch' \subseteq Convertible[info']
  BY DEF OkOnlyForTranslatableBatch
<1>1. ASSUME NEW b \in SUBSET PdEntries, InstallPdTableEntries(b) PROVE FALSE
  BY <1>1 DEF InstallPdTableEntries, Start
<1>2. ASSUME NEW e \in PdEntries, InstallPdTableEntry(e) PROVE FALSE
  BY <1>2 DEF InstallPdTableEntry, Start
<1>3. CASE GetForwardingPipelineConfig \/ CreateIrP4Info \/ PdTableEntriesToPi
  <2>1. pc \in Busy /\ status' \in {status, "error"}
    BY <1>3 DEF GetForwardingPipelineConfig, CreateIrP4Info, PdTableEntriesToPi,
                ReturnError, Busy
  <2>. QED
    BY <2>1 DEF InstallInv
<1>4. CASE InstallPiTableEntries
  <2>1. pc = "install" /\ info' = info /\ batch' = batch
    BY <1>4 DEF InstallPiTableEntries
  <2>. QED
    BY <2>1 DEF InstallInv
<1>5. CASE OtherTakesOver \/ OtherReleases
  BY <1>5 DEF OtherTakesOver, OtherReleases, Other, OkOnlyForTranslatableBatch
<1>6. ASSUME NEW c \in Configs, OtherSetsPipeline(c)
      PROVE  info' \in ValidConfigs /\ batch' \subseteq Convertible[info']
  BY <1>6 DEF OtherSetsPipeline, Other, OkOnlyForTranslatableBatch
<1>7. ASSUME NEW e \in PdEntries, OtherWrites(e)
      PROVE  info' \in ValidConfigs /\ batch' \subseteq Convertible[info']
  BY <1>7 DEF OtherWrites, Other, OkOnlyForTranslatableBatch
<1>8. CASE UNCHANGED vars
  BY <1>8 DEF vars, OkOnlyForTranslatableBatch
<1>. QED
  BY <1>1, <1>2, <1>3, <1>4, <1>5, <1>6, <1>7, <1>8 DEF Next, CallerStep

(* Neither install function reports OK for a batch that the IrP4Info it  *)
(* built does not translate in full, for every set of PD entries and      *)
(* configs and whatever the other controller does between the steps.      *)
THEOREM OkOnlyForTranslatableBatchCorrect == Spec => []OkOnlyForTranslatableBatch
<1>1. Init => OkOnlyForTranslatableBatch
  BY DEF Init, OkOnlyForTranslatableBatch
<1>. QED
  BY <1>1, OkInductive, InstallCorrect, PTL DEF Spec
=============================================================================
