-------------------------- MODULE Publication_proofs --------------------------
(***************************************************************************)
(* Proofs about Publication, for any number of deploy and vars requests,   *)
(* faults, crashes and runner restarts, with the runtime in the control    *)
(* process or on a remote runner.                                          *)
(***************************************************************************)
EXTENDS Publication, TLAPS

\* Stages between a stored revision and its outcome, before a rollback.
Forward == {"stored", "runtime_ready", "activating"}

DeployPCs == {"build", "saveStored", "failBuild", "prepare", "failPrepare", "saveReady",
              "saveActivating", "activate", "commit", "savePublished", "saveRollback",
              "restore", "republish", "saveFailed", "supersede", "republishTarget"}
VarsPCs == {"varsPublish", "varsIntent", "varsRestore", "varsDelete", "varsWrite",
            "varsFail", "varsRepublish", "varsSucceed", "varsStuck"}
OperatorPCs == {"opValidate", "opUndo", "opWrite", "opRestore", "opRewrite"}
ReconcilePCs == {"scan", "scanVars", "finalWrite"}

\* A publication did not find its own revision in traffic, is in the log that
\* recovery scans, and never leaves the way down once it rolled traffic back.
PublicationsSound ==
    \A k \in Deploys :
        /\ pub[k].stage = "none" => k \notin stored
        /\ k \notin pub[k].previous
        /\ pub[k].stage # "none" => \E i \in DOMAIN log : log[i] = k
        /\ k \in reverted => pub[k].stage \in {"rolling_back", "failed", "superseded"}

\* A vars update that restored traffic is on its way down.
VarsSound ==
    \A v \in VarsKeys : v \in reverted => varsOps[v].status \in {"rolling_back", "failed"}

\* The deploy that holds the guard: the stage its record is in and the traffic it
\* may rely on, before each of its calls.
DeployOpSound ==
    /\ op.pc \in DeployPCs => key \in Deploys
    /\ op.pc \in {"build", "saveStored"} =>
          op.by = "request" /\ pub[key].stage = "building" /\ traffic = pub[key].previous
    /\ op.pc = "failBuild" =>
          \/ pub[key].stage = "building"
          \/ pub[key].stage = "stored" /\ op.by = "request"
    /\ op.pc \in {"prepare", "failPrepare", "saveReady", "saveActivating", "activate"} =>
          pub[key].stage \in Forward /\ traffic = pub[key].previous
    /\ op.pc \in {"commit", "saveRollback", "republishTarget", "savePublished"} =>
          pub[key].stage \in Forward /\ traffic = {key}
    /\ op.pc = "savePublished" => acked
    /\ op.pc = "restore" =>
          pub[key].stage = "rolling_back" /\ traffic \in {{key}, pub[key].previous}
    /\ op.pc \in {"republish", "saveFailed"} =>
          pub[key].stage = "rolling_back" /\ traffic = pub[key].previous
    /\ op.pc = "supersede" => pub[key].stage \in Forward \cup {"rolling_back"}

\* The vars update that holds the guard.
VarsOpSound ==
    /\ op.pc \in VarsPCs => key \in VarsKeys
    /\ op.pc \in {"varsPublish", "varsIntent", "varsRepublish", "varsSucceed"} =>
          varsOps[key].status = "pending"
    /\ op.pc \in {"varsRestore", "varsDelete", "varsWrite", "varsFail", "varsStuck"} =>
          varsOps[key].status = "rolling_back"
    /\ op.pc = "varsDelete" /\ acked => key \notin traffic
    /\ op.pc \in {"varsWrite", "varsFail"} => key \notin stored

Settled(k) == pub[k].stage \in Terminal \cup {"none", "building"}

\* What reconciliation has behind it is settled.
ReconcileSound ==
    /\ op.next > 0
    /\ op.by = "none" => op.pc = "idle"
    /\ op.pc \in OperatorPCs => op.by = "request"
    /\ op.pc \in ReconcilePCs => op.by \in {"boot", "repair"}
    /\ op.pc = "scan" => key = NoKey
    /\ op.by \in {"boot", "repair"} =>
          /\ \A i \in DOMAIN log : i < op.next => Settled(log[i]) \/ log[i] = key
          /\ op.pc \in VarsPCs \cup {"scanVars", "finalWrite"} => \A k \in Deploys : Settled(k)
    /\ op.pc = "finalWrite" =>
          \A v \in VarsKeys : varsOps[v].status \in {"none", "succeeded", "failed"}

OpSound == DeployOpSound /\ VarsOpSound /\ ReconcileSound

RecordsSound ==
    TypeOK /\ AckedMeansServed /\ VarsOutcomeExact /\ PublicationsSound /\ VarsSound

IInv == RecordsSound /\ OpSound

-----------------------------------------------------------------------------
(* How an operation goes on.                                               *)

\* Goto, Fail and Return keep the types of the operation and of the repair mark.
LEMMA ControlTypes ==
    ASSUME TypeOK, Fail \/ Return \/ \E pc \in PCs : Goto(pc)
    PROVE  op' \in Op /\ repair' \in BOOLEAN
<1>1. CASE Fail
    BY <1>1 DEF Fail, Idle, TypeOK, Op, PCs
<1>2. CASE Return
    BY <1>2 DEF Return, Idle, TypeOK, Op, PCs
<1>3. CASE \E pc \in PCs : Goto(pc)
    BY <1>3 DEF Goto, TypeOK, Op
<1> QED
    BY <1>1, <1>2, <1>3

\* An operation that ended leaves nothing to be sound about.
LEMMA IdleSound ==
    ASSUME op' = Idle
    PROVE  OpSound'
BY DEF Idle, OpSound, DeployOpSound, VarsOpSound, ReconcileSound, DeployPCs, VarsPCs,
       OperatorPCs, ReconcilePCs

\* So does one that failed.
LEMMA FailSound ==
    ASSUME Fail
    PROVE  OpSound'
BY IdleSound DEF Fail

\* An operation on a request returns to a sound reconciliation when its record is
\* settled and no other record changed.
LEMMA ReturnSound ==
    ASSUME TypeOK, OpSound, Return, UNCHANGED log, op.pc \in DeployPCs \cup VarsPCs,
           \A k \in Deploys : k # key => pub'[k].stage = pub[k].stage,
           op.pc \in DeployPCs /\ op.by # "request" =>
               pub'[key].stage \in Terminal \cup {"none", "building"}
    PROVE  OpSound'
<1>1. CASE op.by = "request"
    BY <1>1, IdleSound DEF Return
<1>2. CASE op.by # "request"
  <2>1. op.by \in {"boot", "repair"} /\ op.pc # "idle" /\ op.next > 0
    BY <1>2 DEF TypeOK, Op, OpSound, ReconcileSound, DeployPCs, VarsPCs
  <2>2. op' = [op EXCEPT !.pc = IF key \in VarsKeys THEN "scanVars" ELSE "scan",
                         !.key = NoKey, !.resumed = FALSE]
    BY <1>2 DEF Return, key
  <2>3. /\ op'.by = op.by /\ op'.key = NoKey /\ op'.next = op.next
        /\ op'.pc = IF key \in VarsKeys THEN "scanVars" ELSE "scan"
    BY <2>2 DEF TypeOK, Op
  <2>4. /\ op.pc \in DeployPCs => key \in Deploys /\ key \notin VarsKeys
        /\ op.pc \in VarsPCs => key \in VarsKeys /\ key \notin Deploys
    BY PublicationAssumption DEF OpSound, DeployOpSound, VarsOpSound
  <2>5. /\ DeployOpSound' /\ VarsOpSound'
    BY <2>3 DEF DeployOpSound, VarsOpSound, DeployPCs, VarsPCs
  <2>6. \A i \in DOMAIN log : log[i] \in Deploys
    BY DEF TypeOK
  <2>7. \A i \in DOMAIN log : i < op.next => Settled(log[i])'
    BY <1>2, <2>1, <2>4, <2>6 DEF OpSound, ReconcileSound, Settled
  <2>8. op.pc \in VarsPCs => \A k \in Deploys : Settled(k)'
    BY <2>1, <2>4 DEF OpSound, ReconcileSound, Settled
  <2>9. ReconcileSound'
    BY <2>1, <2>3, <2>4, <2>7, <2>8
    DEF ReconcileSound, OperatorPCs, ReconcilePCs, VarsPCs, DeployPCs, key
  <2> QED
    BY <2>5, <2>9 DEF OpSound
<1> QED
    BY <1>1, <1>2

\* Reconciliation goes on while an operation works on its own record.
LEMMA GotoReconciles ==
    ASSUME TypeOK, OpSound, UNCHANGED log, NEW pc \in PCs, Goto(pc),
           \A k \in Deploys : k # key => pub'[k].stage = pub[k].stage,
           \/ op.pc \in DeployPCs /\ pc \in DeployPCs
           \/ op.pc \in VarsPCs /\ pc \in VarsPCs
    PROVE  ReconcileSound' /\ op'.pc = pc /\ op'.key = key /\ op'.by = op.by
<1>1. /\ op' = [op EXCEPT !.pc = pc] /\ op'.pc = pc
      /\ op'.key = op.key /\ op'.by = op.by /\ op'.next = op.next
    BY DEF TypeOK, Op, Goto
<1>2. op.pc \in VarsPCs => key \notin Deploys
    BY PublicationAssumption DEF OpSound, VarsOpSound
<1>3. \A i \in DOMAIN log : log[i] \in Deploys
    BY DEF TypeOK
<1>4. op.by # "none" /\ op.next > 0 /\ pc \notin OperatorPCs \cup ReconcilePCs
    BY DEF OpSound, ReconcileSound, DeployPCs, VarsPCs, OperatorPCs, ReconcilePCs
<1>5. op'.by \in {"boot", "repair"} =>
        \A i \in DOMAIN log : i < op.next => Settled(log[i])' \/ log[i] = key
    BY <1>1, <1>3 DEF OpSound, ReconcileSound, Settled
<1>6. op'.by \in {"boot", "repair"} /\ pc \in VarsPCs =>
        \A k \in Deploys : Settled(k)'
    BY <1>1, <1>2 DEF OpSound, ReconcileSound, Settled, VarsPCs, DeployPCs
<1>7. pc \notin {"scanVars", "finalWrite", "scan"}
    BY <1>4 DEF ReconcilePCs
<1> QED
    BY <1>1, <1>4, <1>5, <1>6, <1>7 DEF ReconcileSound, key

-----------------------------------------------------------------------------
(* What each kind of call leaves behind, whatever its outcome.             *)

Control == Fail \/ Return \/ \E pc \in PCs : Goto(pc)
Faults == UNCHANGED faults \/ Fault

\* The call tried to save stage s of the record it works on.
Saves(s) ==
    /\ pub' \in {pub, [pub EXCEPT ![key].stage = s]}
    /\ Control /\ Faults
    /\ UNCHANGED <<stored, traffic, acked, runtime, log, varsOps, up, history>>

\* The call tried to save status s of the vars update it works on.
Finishes(s) ==
    /\ varsOps' \in {varsOps, [varsOps EXCEPT ![key].status = s]}
    /\ Control /\ Faults
    /\ UNCHANGED <<stored, traffic, acked, runtime, pub, log, up, history>>

\* The call tried to change routing.
Routes ==
    /\ \/ traffic' \subseteq stored /\ acked' = FALSE
       \/ UNCHANGED <<traffic, acked>>
    /\ Control /\ Faults
    /\ chosen' \in BOOLEAN
    /\ UNCHANGED <<stored, runtime, pub, log, varsOps, up, undone>>

\* The call tried to write current routing to the runtime.
Writes ==
    /\ \/ runtime' \in {runtime, traffic} /\ acked' = acked
       \/ runtime' = traffic /\ acked' = TRUE
    /\ Faults
    /\ UNCHANGED <<stored, traffic, pub, log, varsOps>>

\* Faults are counted within their bound.
LEMMA FaultsTyped ==
    ASSUME TypeOK, Faults
    PROVE  faults' \in 0..MaxFaults
BY PublicationAssumption DEF TypeOK, Faults, Fault

\* However an operation goes on, it keeps its type.
LEMMA ControlTyped ==
    ASSUME TypeOK, Control
    PROVE  op' \in Op /\ repair' \in BOOLEAN
BY ControlTypes DEF Control

\* A saved stage changes one record's stage and nothing else of it.
LEMMA SavedStage ==
    ASSUME TypeOK, NEW k \in Deploys, NEW s \in Stages,
           pub' \in {pub, [pub EXCEPT ![k].stage = s]}
    PROVE  /\ pub' \in [Deploys -> [stage : Stages, previous : SUBSET Deployments]]
           /\ pub'[k].stage \in {pub[k].stage, s}
           /\ pub' = [pub EXCEPT ![k].stage = s] => pub'[k].stage = s
           /\ \A d \in Deploys : pub'[d].previous = pub[d].previous
           /\ \A d \in Deploys \ {k} : pub'[d] = pub[d]
<1>1. pub \in [Deploys -> [stage : Stages, previous : SUBSET Deployments]]
    BY DEF TypeOK
<1>2. CASE pub' = [pub EXCEPT ![k].stage = s]
    BY <1>1, <1>2
<1>3. CASE pub' = pub
    BY <1>1, <1>3
<1> QED
    BY <1>2, <1>3

\* A saved status changes one vars update's status and nothing else of it.
LEMMA SavedStatus ==
    ASSUME TypeOK, NEW v \in VarsKeys,
           NEW s \in {"none", "pending", "rolling_back", "succeeded", "failed"},
           varsOps' \in {varsOps, [varsOps EXCEPT ![v].status = s]}
    PROVE  /\ varsOps' \in [VarsKeys ->
                  [status : {"none", "pending", "rolling_back", "succeeded", "failed"},
                   base : Deployments]]
           /\ varsOps'[v].status \in {varsOps[v].status, s}
           /\ varsOps' = [varsOps EXCEPT ![v].status = s] => varsOps'[v].status = s
           /\ \A w \in VarsKeys \ {v} : varsOps'[w] = varsOps[w]
BY DEF TypeOK

\* Saving a later stage keeps the records sound if what was rolled back stays so.
LEMMA SavesSound ==
    ASSUME RecordsSound, NEW s \in Stages \ {"none"}, key \in Deploys, Saves(s),
           pub[key].stage # "none",
           key \in reverted => s \in {"rolling_back", "failed", "superseded"}
    PROVE  RecordsSound'
<1> USE DEF Saves
<1>1. op' \in Op /\ repair' \in BOOLEAN /\ faults' \in 0..MaxFaults
    BY FaultsTyped, ControlTyped DEF RecordsSound
<1>2. /\ pub' \in [Deploys -> [stage : Stages, previous : SUBSET Deployments]]
      /\ pub'[key].stage \in {pub[key].stage, s}
      /\ \A d \in Deploys : pub'[d].previous = pub[d].previous
      /\ \A d \in Deploys \ {key} : pub'[d] = pub[d]
    BY SavedStage DEF RecordsSound
<1>3. TypeOK'
    BY <1>1, <1>2 DEF RecordsSound, TypeOK, history
<1>4. PublicationsSound'
    BY <1>2 DEF RecordsSound, PublicationsSound, history
<1> QED
    BY <1>3, <1>4 DEF RecordsSound, AckedMeansServed, VarsOutcomeExact, VarsSound, history

\* Saving a status keeps the records sound if it agrees with what is stored.
LEMMA FinishesSound ==
    ASSUME RecordsSound, NEW s \in {"rolling_back", "succeeded", "failed"},
           key \in VarsKeys, Finishes(s),
           varsOps[key].status \in {"pending", "rolling_back"},
           s = "succeeded" => varsOps[key].status = "pending",
           s = "failed" => key \notin stored,
           varsOps[key].status = "rolling_back" => s = "failed"
    PROVE  RecordsSound'
<1> USE DEF Finishes
<1>1. op' \in Op /\ repair' \in BOOLEAN /\ faults' \in 0..MaxFaults
    BY FaultsTyped, ControlTyped DEF RecordsSound
<1>2. /\ varsOps' \in [VarsKeys ->
             [status : {"none", "pending", "rolling_back", "succeeded", "failed"},
              base : Deployments]]
      /\ varsOps'[key].status \in {varsOps[key].status, s}
      /\ \A w \in VarsKeys \ {key} : varsOps'[w] = varsOps[w]
    BY SavedStatus DEF RecordsSound
<1>3. TypeOK'
    BY <1>1, <1>2 DEF RecordsSound, TypeOK, history
<1>4. VarsOutcomeExact' /\ VarsSound'
    BY <1>2 DEF RecordsSound, VarsOutcomeExact, VarsSound, history
<1> QED
    BY <1>3, <1>4 DEF RecordsSound, AckedMeansServed, PublicationsSound, history

\* Changing routing keeps the records sound: the new generation is unacknowledged, and
\* what is rolled back has its intent recorded.
LEMMA RoutesSound ==
    ASSUME RecordsSound, Routes,
           \/ UNCHANGED reverted
           \/ /\ key \in Deploys /\ pub[key].stage = "rolling_back"
              /\ reverted' = reverted \cup {key}
           \/ /\ key \in VarsKeys /\ varsOps[key].status = "rolling_back"
              /\ reverted' = reverted \cup {key}
    PROVE  RecordsSound'
<1> USE DEF Routes
<1>1. op' \in Op /\ repair' \in BOOLEAN /\ faults' \in 0..MaxFaults
    BY FaultsTyped, ControlTyped DEF RecordsSound
<1>2. TypeOK'
    BY <1>1, PublicationAssumption DEF RecordsSound, TypeOK, Deployments
<1>3. PublicationsSound' /\ VarsSound'
    BY PublicationAssumption DEF RecordsSound, PublicationsSound, VarsSound
<1> QED
    BY <1>2, <1>3 DEF RecordsSound, AckedMeansServed, VarsOutcomeExact

\* Writing current routing keeps the records sound.
LEMMA WritesSound ==
    ASSUME RecordsSound, Writes, op' \in Op, repair' \in BOOLEAN, up' \in BOOLEAN,
           chosen' \in BOOLEAN, undone' \subseteq Deploys, UNCHANGED reverted
    PROVE  RecordsSound'
<1> USE DEF Writes
<1>1. TypeOK'
    BY FaultsTyped DEF RecordsSound, TypeOK
<1> QED
    BY <1>1 DEF RecordsSound, AckedMeansServed, VarsOutcomeExact, PublicationsSound, VarsSound

-----------------------------------------------------------------------------
(* One lemma per action.  First what holds at the call (the guard with the    *)
(* invariant about op), then the records, then op by how it goes on.          *)

\* The stored artifact is recorded, or the build fails.
LEMMA SaveStoredSound ==
    ASSUME IInv, SaveStored
    PROVE  IInv'
<1>1. /\ op.pc \in DeployPCs /\ key \in Deploys /\ op.by = "request" /\ pub[key].stage = "building"
      /\ traffic = pub[key].previous
    BY DEF IInv, OpSound, DeployOpSound, SaveStored, At, DeployPCs
<1>2. Saves("stored")
    BY DEF SaveStored, SavePublication, Saves, Control, Faults, PCs
<1>3. RecordsSound'
    BY <1>1, <1>2, SavesSound
    DEF IInv, RecordsSound, PublicationsSound, Stages, Terminal, Forward
<1>4. /\ pub'[key].stage \in {pub[key].stage, "stored"}
      /\ pub' = [pub EXCEPT ![key].stage = "stored"] => pub'[key].stage = "stored"
      /\ pub'[key].previous = pub[key].previous
      /\ \A d \in Deploys : d # key => pub'[d].stage = pub[d].stage
    BY <1>1, <1>2, SavedStage DEF IInv, RecordsSound, Saves, Stages, Terminal
<1>5. CASE pub' = [pub EXCEPT ![key].stage = "stored"] /\ Goto("prepare")
  <2>1. ReconcileSound' /\ op'.pc = "prepare" /\ op'.key = key /\ op'.by = op.by
    BY <1>1, <1>2, <1>4, <1>5, GotoReconciles DEF IInv, RecordsSound, Saves, PCs, DeployPCs
  <2>2. DeployOpSound' /\ VarsOpSound'
    BY <1>1, <1>2, <1>4, <1>5, <2>1
    DEF DeployOpSound, VarsOpSound, DeployPCs, VarsPCs, Saves, key, Forward
  <2> QED
    BY <1>3, <2>1, <2>2 DEF IInv, OpSound
<1>6. CASE Goto("failBuild")
  <2>1. ReconcileSound' /\ op'.pc = "failBuild" /\ op'.key = key /\ op'.by = op.by
    BY <1>1, <1>2, <1>4, <1>6, GotoReconciles DEF IInv, RecordsSound, Saves, PCs, DeployPCs
  <2>2. DeployOpSound' /\ VarsOpSound'
    BY <1>1, <1>2, <1>4, <1>6, <2>1
    DEF DeployOpSound, VarsOpSound, DeployPCs, VarsPCs, Saves, key, Forward
  <2> QED
    BY <1>3, <2>1, <2>2 DEF IInv, OpSound
<1> QED
    BY <1>5, <1>6 DEF SaveStored, SavePublication

\* A refused candidate is recorded; the deploy ends whether or not it could be.
LEMMA FailPrepareSound ==
    ASSUME IInv, FailPrepare
    PROVE  IInv'
<1>1. op.pc \in DeployPCs /\ key \in Deploys /\ pub[key].stage \in Forward
    BY DEF IInv, OpSound, DeployOpSound, FailPrepare, At, DeployPCs
<1>2. Saves("failed")
    BY DEF FailPrepare, SavePublication, Saves, Control, Faults, PCs
<1>3. RecordsSound'
    BY <1>1, <1>2, SavesSound
    DEF IInv, RecordsSound, PublicationsSound, Stages, Terminal, Forward
<1>4. /\ pub'[key].stage \in {pub[key].stage, "failed"}
      /\ pub' = [pub EXCEPT ![key].stage = "failed"] => pub'[key].stage = "failed"
      /\ pub'[key].previous = pub[key].previous
      /\ \A d \in Deploys : d # key => pub'[d].stage = pub[d].stage
    BY <1>1, <1>2, SavedStage DEF IInv, RecordsSound, Saves, Stages, Terminal
<1>5. CASE Fail
    BY <1>3, <1>5, FailSound DEF IInv
<1> QED
    BY <1>5 DEF FailPrepare, SavePublication

\* The candidate the runtime built is recorded; traffic is still what the deploy found.
LEMMA SaveReadySound ==
    ASSUME IInv, SaveReady
    PROVE  IInv'
<1>1. op.pc \in DeployPCs /\ key \in Deploys /\ pub[key].stage \in Forward /\ traffic = pub[key].previous
    BY DEF IInv, OpSound, DeployOpSound, SaveReady, At, DeployPCs
<1>2. Saves("runtime_ready")
    BY DEF SaveReady, SavePublication, Saves, Control, Faults, PCs
<1>3. RecordsSound'
    BY <1>1, <1>2, SavesSound
    DEF IInv, RecordsSound, PublicationsSound, Stages, Terminal, Forward
<1>4. /\ pub'[key].stage \in {pub[key].stage, "runtime_ready"}
      /\ pub' = [pub EXCEPT ![key].stage = "runtime_ready"] => pub'[key].stage = "runtime_ready"
      /\ pub'[key].previous = pub[key].previous
      /\ \A d \in Deploys : d # key => pub'[d].stage = pub[d].stage
    BY <1>1, <1>2, SavedStage DEF IInv, RecordsSound, Saves, Stages, Terminal
<1>5. CASE pub' = [pub EXCEPT ![key].stage = "runtime_ready"] /\ Goto("saveActivating")
  <2>1. ReconcileSound' /\ op'.pc = "saveActivating" /\ op'.key = key /\ op'.by = op.by
    BY <1>1, <1>2, <1>4, <1>5, GotoReconciles DEF IInv, RecordsSound, Saves, PCs, DeployPCs
  <2>2. DeployOpSound' /\ VarsOpSound'
    BY <1>1, <1>2, <1>4, <1>5, <2>1
    DEF DeployOpSound, VarsOpSound, DeployPCs, VarsPCs, Saves, key, Forward
  <2> QED
    BY <1>3, <2>1, <2>2 DEF IInv, OpSound
<1>6. CASE Fail
    BY <1>3, <1>6, FailSound DEF IInv
<1> QED
    BY <1>5, <1>6 DEF SaveReady, SavePublication

\* The intent to activate is recorded; traffic is still what the deploy found.
LEMMA SaveActivatingSound ==
    ASSUME IInv, SaveActivating
    PROVE  IInv'
<1>1. op.pc \in DeployPCs /\ key \in Deploys /\ pub[key].stage \in Forward /\ traffic = pub[key].previous
    BY DEF IInv, OpSound, DeployOpSound, SaveActivating, At, DeployPCs
<1>2. Saves("activating")
    BY DEF SaveActivating, SavePublication, Saves, Control, Faults, PCs
<1>3. RecordsSound'
    BY <1>1, <1>2, SavesSound
    DEF IInv, RecordsSound, PublicationsSound, Stages, Terminal, Forward
<1>4. /\ pub'[key].stage \in {pub[key].stage, "activating"}
      /\ pub' = [pub EXCEPT ![key].stage = "activating"] => pub'[key].stage = "activating"
      /\ pub'[key].previous = pub[key].previous
      /\ \A d \in Deploys : d # key => pub'[d].stage = pub[d].stage
    BY <1>1, <1>2, SavedStage DEF IInv, RecordsSound, Saves, Stages, Terminal
<1>5. CASE pub' = [pub EXCEPT ![key].stage = "activating"] /\ Goto("activate")
  <2>1. ReconcileSound' /\ op'.pc = "activate" /\ op'.key = key /\ op'.by = op.by
    BY <1>1, <1>2, <1>4, <1>5, GotoReconciles DEF IInv, RecordsSound, Saves, PCs, DeployPCs
  <2>2. DeployOpSound' /\ VarsOpSound'
    BY <1>1, <1>2, <1>4, <1>5, <2>1
    DEF DeployOpSound, VarsOpSound, DeployPCs, VarsPCs, Saves, key, Forward
  <2> QED
    BY <1>3, <2>1, <2>2 DEF IInv, OpSound
<1>6. CASE Fail
    BY <1>3, <1>6, FailSound DEF IInv
<1> QED
    BY <1>5, <1>6 DEF SaveActivating, SavePublication

\* The outcome is recorded with the revision in traffic; reconciliation goes on.
LEMMA SavePublishedSound ==
    ASSUME IInv, SavePublished
    PROVE  IInv'
<1>1. op.pc \in DeployPCs /\ key \in Deploys /\ pub[key].stage \in Forward
    BY DEF IInv, OpSound, DeployOpSound, SavePublished, At, DeployPCs
<1>2. Saves("route_published")
    BY DEF SavePublished, SavePublication, Saves, Control, Faults, PCs
<1>3. RecordsSound'
    BY <1>1, <1>2, SavesSound
    DEF IInv, RecordsSound, PublicationsSound, Stages, Terminal, Forward
<1>4. /\ pub'[key].stage \in {pub[key].stage, "route_published"}
      /\ pub' = [pub EXCEPT ![key].stage = "route_published"] => pub'[key].stage = "route_published"
      /\ pub'[key].previous = pub[key].previous
      /\ \A d \in Deploys : d # key => pub'[d].stage = pub[d].stage
    BY <1>1, <1>2, SavedStage DEF IInv, RecordsSound, Saves, Stages, Terminal
<1>5. CASE pub' = [pub EXCEPT ![key].stage = "route_published"] /\ Return
    BY <1>1, <1>2, <1>4, <1>5, <1>3, ReturnSound DEF IInv, RecordsSound, Saves, Terminal
<1>6. CASE Fail
    BY <1>3, <1>6, FailSound DEF IInv
<1> QED
    BY <1>5, <1>6 DEF SavePublished, SavePublication

\* Rollback intent is recorded before traffic is restored.
LEMMA SaveRollbackSound ==
    ASSUME IInv, SaveRollback
    PROVE  IInv'
<1>1. op.pc \in DeployPCs /\ key \in Deploys /\ pub[key].stage \in Forward /\ traffic = {key}
    BY DEF IInv, OpSound, DeployOpSound, SaveRollback, At, DeployPCs
<1>2. Saves("rolling_back")
    BY DEF SaveRollback, SavePublication, Saves, Control, Faults, PCs
<1>3. RecordsSound'
    BY <1>1, <1>2, SavesSound
    DEF IInv, RecordsSound, PublicationsSound, Stages, Terminal, Forward
<1>4. /\ pub'[key].stage \in {pub[key].stage, "rolling_back"}
      /\ pub' = [pub EXCEPT ![key].stage = "rolling_back"] => pub'[key].stage = "rolling_back"
      /\ pub'[key].previous = pub[key].previous
      /\ \A d \in Deploys : d # key => pub'[d].stage = pub[d].stage
    BY <1>1, <1>2, SavedStage DEF IInv, RecordsSound, Saves, Stages, Terminal
<1>5. CASE pub' = [pub EXCEPT ![key].stage = "rolling_back"] /\ Goto("restore")
  <2>1. ReconcileSound' /\ op'.pc = "restore" /\ op'.key = key /\ op'.by = op.by
    BY <1>1, <1>2, <1>4, <1>5, GotoReconciles DEF IInv, RecordsSound, Saves, PCs, DeployPCs
  <2>2. DeployOpSound' /\ VarsOpSound'
    BY <1>1, <1>2, <1>4, <1>5, <2>1
    DEF DeployOpSound, VarsOpSound, DeployPCs, VarsPCs, Saves, key, Forward
  <2> QED
    BY <1>3, <2>1, <2>2 DEF IInv, OpSound
<1>6. CASE Fail
    BY <1>3, <1>6, FailSound DEF IInv
<1> QED
    BY <1>5, <1>6 DEF SaveRollback, SavePublication

\* A finished rollback is recorded with the old traffic in place.
LEMMA SaveFailedSound ==
    ASSUME IInv, SaveFailed
    PROVE  IInv'
<1>1. op.pc \in DeployPCs /\ key \in Deploys /\ pub[key].stage = "rolling_back"
    BY DEF IInv, OpSound, DeployOpSound, SaveFailed, At, DeployPCs
<1>2. Saves("failed")
    BY DEF SaveFailed, SavePublication, Saves, Control, Faults, PCs
<1>3. RecordsSound'
    BY <1>1, <1>2, SavesSound
    DEF IInv, RecordsSound, PublicationsSound, Stages, Terminal, Forward
<1>4. /\ pub'[key].stage \in {pub[key].stage, "failed"}
      /\ pub' = [pub EXCEPT ![key].stage = "failed"] => pub'[key].stage = "failed"
      /\ pub'[key].previous = pub[key].previous
      /\ \A d \in Deploys : d # key => pub'[d].stage = pub[d].stage
    BY <1>1, <1>2, SavedStage DEF IInv, RecordsSound, Saves, Stages, Terminal
<1>5. CASE pub' = [pub EXCEPT ![key].stage = "failed"] /\ Return
    BY <1>1, <1>2, <1>4, <1>5, <1>3, ReturnSound DEF IInv, RecordsSound, Saves, Terminal
<1>6. CASE Fail
    BY <1>3, <1>6, FailSound DEF IInv
<1> QED
    BY <1>5, <1>6 DEF SaveFailed, SavePublication

\* A record that traffic moved on from is closed, and reconciliation goes on.
LEMMA SupersedeSound ==
    ASSUME IInv, Supersede
    PROVE  IInv'
<1>1. op.pc \in DeployPCs /\ key \in Deploys /\ pub[key].stage \in Forward \cup {"rolling_back"}
    BY DEF IInv, OpSound, DeployOpSound, Supersede, At, DeployPCs
<1>2. Saves("superseded")
    BY DEF Supersede, SavePublication, Saves, Control, Faults, PCs
<1>3. RecordsSound'
    BY <1>1, <1>2, SavesSound
    DEF IInv, RecordsSound, PublicationsSound, Stages, Terminal, Forward
<1>4. /\ pub'[key].stage \in {pub[key].stage, "superseded"}
      /\ pub' = [pub EXCEPT ![key].stage = "superseded"] => pub'[key].stage = "superseded"
      /\ pub'[key].previous = pub[key].previous
      /\ \A d \in Deploys : d # key => pub'[d].stage = pub[d].stage
    BY <1>1, <1>2, SavedStage DEF IInv, RecordsSound, Saves, Stages, Terminal
<1>5. CASE pub' = [pub EXCEPT ![key].stage = "superseded"] /\ Return
    BY <1>1, <1>2, <1>4, <1>5, <1>3, ReturnSound DEF IInv, RecordsSound, Saves, Terminal
<1>6. CASE Fail
    BY <1>3, <1>6, FailSound DEF IInv
<1> QED
    BY <1>5, <1>6 DEF Supersede, SavePublication

\* Traffic goes from what the deploy found to its revision, in one commit.
LEMMA ActivateSound ==
    ASSUME IInv, Activate
    PROVE  IInv'
<1>1. op.pc \in DeployPCs /\ key \in Deploys /\ pub[key].stage \in Forward
    BY DEF IInv, OpSound, DeployOpSound, VarsOpSound, Activate, At, DeployPCs, VarsPCs
<1>2. Routes
    BY DEF Activate, SetActiveTraffic, Routes, Control, Faults, PCs
<1>3. RecordsSound'
    BY <1>1, <1>2, RoutesSound DEF IInv, Activate
<1>4. UNCHANGED log /\ \A d \in Deploys : d # key => pub'[d].stage = pub[d].stage
    BY DEF Activate, SetActiveTraffic, history
<1>5. CASE traffic' = {key} /\ Goto("commit")
  <2>1. ReconcileSound' /\ op'.pc = "commit" /\ op'.key = key /\ op'.by = op.by
    BY <1>1, <1>4, <1>5, GotoReconciles DEF IInv, RecordsSound, PCs, DeployPCs, VarsPCs
  <2>2. DeployOpSound' /\ VarsOpSound'
    BY <1>1, <1>3, <1>5, <2>1
    DEF DeployOpSound, VarsOpSound, DeployPCs, VarsPCs, Activate, SetActiveTraffic, key,
        Forward
  <2> QED
    BY <1>3, <2>1, <2>2 DEF IInv, OpSound
<1>6. CASE Fail
    BY <1>3, <1>6, FailSound DEF IInv
<1> QED
    BY <1>5, <1>6 DEF Activate, SetActiveTraffic

\* The runtime takes the revision and the generation is acknowledged, or neither is known.
LEMMA CommitSound ==
    ASSUME IInv, Commit
    PROVE  IInv'
<1>1. op.pc \in DeployPCs /\ key \in Deploys /\ pub[key].stage \in Forward /\ traffic = {key}
    BY DEF IInv, OpSound, DeployOpSound, VarsOpSound, Commit, At, DeployPCs, VarsPCs
<1>2. Writes /\ Control
    BY DEF Commit, WritePublication, Writes, Control, Faults, PCs
<1>3. RecordsSound'
    BY <1>2, ControlTyped, WritesSound DEF IInv, RecordsSound, TypeOK, Commit, WritePublication,
       history
<1>4. UNCHANGED log /\ \A d \in Deploys : d # key => pub'[d].stage = pub[d].stage
    BY DEF Commit, WritePublication, history
<1>5. CASE acked' = TRUE /\ Goto("savePublished")
  <2>1. ReconcileSound' /\ op'.pc = "savePublished" /\ op'.key = key /\ op'.by = op.by
    BY <1>1, <1>4, <1>5, GotoReconciles DEF IInv, RecordsSound, PCs, DeployPCs, VarsPCs
  <2>2. DeployOpSound' /\ VarsOpSound'
    BY <1>1, <1>3, <1>5, <2>1
    DEF DeployOpSound, VarsOpSound, DeployPCs, VarsPCs, Commit, WritePublication, key, Forward
  <2> QED
    BY <1>3, <2>1, <2>2 DEF IInv, OpSound
<1>6. CASE Goto("saveRollback")
  <2>1. ReconcileSound' /\ op'.pc = "saveRollback" /\ op'.key = key /\ op'.by = op.by
    BY <1>1, <1>4, <1>6, GotoReconciles DEF IInv, RecordsSound, PCs, DeployPCs, VarsPCs
  <2>2. DeployOpSound' /\ VarsOpSound'
    BY <1>1, <1>3, <1>6, <2>1
    DEF DeployOpSound, VarsOpSound, DeployPCs, VarsPCs, Commit, WritePublication, key, Forward
  <2> QED
    BY <1>3, <2>1, <2>2 DEF IInv, OpSound
<1> QED
    BY <1>5, <1>6 DEF Commit, WritePublication

\* Traffic goes back, under recorded intent.
LEMMA RestoreSound ==
    ASSUME IInv, Restore
    PROVE  IInv'
<1>1. op.pc \in DeployPCs /\ key \in Deploys /\ pub[key].stage = "rolling_back"
    BY DEF IInv, OpSound, DeployOpSound, VarsOpSound, Restore, At, DeployPCs, VarsPCs
<1>2. Routes
    BY DEF Restore, SetActiveTraffic, Routes, Control, Faults, PCs
<1>3. RecordsSound'
    BY <1>1, <1>2, RoutesSound DEF IInv, Restore
<1>4. UNCHANGED log /\ \A d \in Deploys : d # key => pub'[d].stage = pub[d].stage
    BY DEF Restore, SetActiveTraffic, history
<1>5. CASE traffic' = pub[key].previous /\ Goto("republish")
  <2>1. ReconcileSound' /\ op'.pc = "republish" /\ op'.key = key /\ op'.by = op.by
    BY <1>1, <1>4, <1>5, GotoReconciles DEF IInv, RecordsSound, PCs, DeployPCs, VarsPCs
  <2>2. DeployOpSound' /\ VarsOpSound'
    BY <1>1, <1>3, <1>5, <2>1
    DEF DeployOpSound, VarsOpSound, DeployPCs, VarsPCs, Restore, SetActiveTraffic, key, Forward
  <2> QED
    BY <1>3, <2>1, <2>2 DEF IInv, OpSound
<1>6. CASE Fail
    BY <1>3, <1>6, FailSound DEF IInv
<1> QED
    BY <1>5, <1>6 DEF Restore, SetActiveTraffic

\* The runtime takes the restored traffic.
LEMMA RepublishSound ==
    ASSUME IInv, Republish
    PROVE  IInv'
<1>1. op.pc \in DeployPCs /\ key \in Deploys /\ pub[key].stage = "rolling_back" /\ traffic = pub[key].previous
    BY DEF IInv, OpSound, DeployOpSound, VarsOpSound, Republish, At, DeployPCs, VarsPCs
<1>2. Writes /\ Control
    BY DEF Republish, WritePublication, Writes, Control, Faults, PCs
<1>3. RecordsSound'
    BY <1>2, ControlTyped, WritesSound DEF IInv, RecordsSound, TypeOK, Republish,
       WritePublication, history
<1>4. UNCHANGED log /\ \A d \in Deploys : d # key => pub'[d].stage = pub[d].stage
    BY DEF Republish, WritePublication, history
<1>5. CASE Goto("saveFailed")
  <2>1. ReconcileSound' /\ op'.pc = "saveFailed" /\ op'.key = key /\ op'.by = op.by
    BY <1>1, <1>4, <1>5, GotoReconciles DEF IInv, RecordsSound, PCs, DeployPCs, VarsPCs
  <2>2. DeployOpSound' /\ VarsOpSound'
    BY <1>1, <1>3, <1>5, <2>1
    DEF DeployOpSound, VarsOpSound, DeployPCs, VarsPCs, Republish, WritePublication, key,
        Forward
  <2> QED
    BY <1>3, <2>1, <2>2 DEF IInv, OpSound
<1>6. CASE Fail
    BY <1>3, <1>6, FailSound DEF IInv
<1> QED
    BY <1>5, <1>6 DEF Republish, WritePublication

\* A replay writes the traffic its revision already has.
LEMMA RepublishTargetSound ==
    ASSUME IInv, RepublishTarget
    PROVE  IInv'
<1>1. op.pc \in DeployPCs /\ key \in Deploys /\ pub[key].stage \in Forward /\ traffic = {key}
    BY DEF IInv, OpSound, DeployOpSound, VarsOpSound, RepublishTarget, At, DeployPCs, VarsPCs
<1>2. Writes /\ Control
    BY DEF RepublishTarget, WritePublication, Writes, Control, Faults, PCs
<1>3. RecordsSound'
    BY <1>2, ControlTyped, WritesSound DEF IInv, RecordsSound, TypeOK, RepublishTarget,
       WritePublication, history
<1>4. UNCHANGED log /\ \A d \in Deploys : d # key => pub'[d].stage = pub[d].stage
    BY DEF RepublishTarget, WritePublication, history
<1>5. CASE acked' = TRUE /\ Goto("savePublished")
  <2>1. ReconcileSound' /\ op'.pc = "savePublished" /\ op'.key = key /\ op'.by = op.by
    BY <1>1, <1>4, <1>5, GotoReconciles DEF IInv, RecordsSound, PCs, DeployPCs, VarsPCs
  <2>2. DeployOpSound' /\ VarsOpSound'
    BY <1>1, <1>3, <1>5, <2>1
    DEF DeployOpSound, VarsOpSound, DeployPCs, VarsPCs, RepublishTarget, WritePublication,
        key, Forward
  <2> QED
    BY <1>3, <2>1, <2>2 DEF IInv, OpSound
<1>6. CASE Fail
    BY <1>3, <1>6, FailSound DEF IInv
<1> QED
    BY <1>5, <1>6 DEF RepublishTarget, WritePublication

\* The runtime takes the new vars revision.
LEMMA VarsPublishSound ==
    ASSUME IInv, VarsPublish
    PROVE  IInv'
<1>1. op.pc \in VarsPCs /\ key \in VarsKeys /\ varsOps[key].status = "pending"
    BY DEF IInv, OpSound, DeployOpSound, VarsOpSound, VarsPublish, At, DeployPCs, VarsPCs
<1>2. Writes /\ Control
    BY DEF VarsPublish, WritePublication, Writes, Control, Faults, PCs
<1>3. RecordsSound'
    BY <1>2, ControlTyped, WritesSound DEF IInv, RecordsSound, TypeOK, VarsPublish,
       WritePublication, history
<1>4. UNCHANGED log /\ \A d \in Deploys : d # key => pub'[d].stage = pub[d].stage
    BY DEF VarsPublish, WritePublication, history
<1>5. CASE Goto("varsSucceed")
  <2>1. ReconcileSound' /\ op'.pc = "varsSucceed" /\ op'.key = key /\ op'.by = op.by
    BY <1>1, <1>4, <1>5, GotoReconciles DEF IInv, RecordsSound, PCs, DeployPCs, VarsPCs
  <2>2. DeployOpSound' /\ VarsOpSound'
    BY <1>1, <1>3, <1>5, <2>1
    DEF DeployOpSound, VarsOpSound, DeployPCs, VarsPCs, VarsPublish, WritePublication, key,
        Forward
  <2> QED
    BY <1>3, <2>1, <2>2 DEF IInv, OpSound
<1>6. CASE Goto("varsIntent")
  <2>1. ReconcileSound' /\ op'.pc = "varsIntent" /\ op'.key = key /\ op'.by = op.by
    BY <1>1, <1>4, <1>6, GotoReconciles DEF IInv, RecordsSound, PCs, DeployPCs, VarsPCs
  <2>2. DeployOpSound' /\ VarsOpSound'
    BY <1>1, <1>3, <1>6, <2>1
    DEF DeployOpSound, VarsOpSound, DeployPCs, VarsPCs, VarsPublish, WritePublication, key,
        Forward
  <2> QED
    BY <1>3, <2>1, <2>2 DEF IInv, OpSound
<1> QED
    BY <1>5, <1>6 DEF VarsPublish, WritePublication

\* Traffic goes back to the base of the vars update, under recorded intent.
LEMMA VarsRestoreSound ==
    ASSUME IInv, VarsRestore
    PROVE  IInv'
<1>1. op.pc \in VarsPCs /\ key \in VarsKeys /\ varsOps[key].status = "rolling_back"
    BY DEF IInv, OpSound, DeployOpSound, VarsOpSound, VarsRestore, At, DeployPCs, VarsPCs
<1>2. Routes
    BY DEF VarsRestore, SetActiveTraffic, Routes, Control, Faults, PCs
<1>3. RecordsSound'
    BY <1>1, <1>2, RoutesSound DEF IInv, VarsRestore
<1>4. UNCHANGED log /\ \A d \in Deploys : d # key => pub'[d].stage = pub[d].stage
    BY DEF VarsRestore, SetActiveTraffic, history
<1>5. CASE acked' = FALSE /\ Goto("varsDelete")
  <2>1. ReconcileSound' /\ op'.pc = "varsDelete" /\ op'.key = key /\ op'.by = op.by
    BY <1>1, <1>4, <1>5, GotoReconciles DEF IInv, RecordsSound, PCs, DeployPCs, VarsPCs
  <2>2. DeployOpSound' /\ VarsOpSound'
    BY <1>1, <1>3, <1>5, <2>1
    DEF DeployOpSound, VarsOpSound, DeployPCs, VarsPCs, VarsRestore, SetActiveTraffic, key,
        Forward
  <2> QED
    BY <1>3, <2>1, <2>2 DEF IInv, OpSound
<1>6. CASE Fail
    BY <1>3, <1>6, FailSound DEF IInv
<1> QED
    BY <1>5, <1>6 DEF VarsRestore, SetActiveTraffic

\* The runtime takes the traffic without the deleted vars revision.
LEMMA VarsWriteSound ==
    ASSUME IInv, VarsWrite
    PROVE  IInv'
<1>1. op.pc \in VarsPCs /\ key \in VarsKeys /\ varsOps[key].status = "rolling_back" /\ key \notin stored
    BY DEF IInv, OpSound, DeployOpSound, VarsOpSound, VarsWrite, At, DeployPCs, VarsPCs
<1>2. Writes /\ Control
    BY DEF VarsWrite, WritePublication, Writes, Control, Faults, PCs
<1>3. RecordsSound'
    BY <1>2, ControlTyped, WritesSound DEF IInv, RecordsSound, TypeOK, VarsWrite,
       WritePublication, history
<1>4. UNCHANGED log /\ \A d \in Deploys : d # key => pub'[d].stage = pub[d].stage
    BY DEF VarsWrite, WritePublication, history
<1>5. CASE Goto("varsFail")
  <2>1. ReconcileSound' /\ op'.pc = "varsFail" /\ op'.key = key /\ op'.by = op.by
    BY <1>1, <1>4, <1>5, GotoReconciles DEF IInv, RecordsSound, PCs, DeployPCs, VarsPCs
  <2>2. DeployOpSound' /\ VarsOpSound'
    BY <1>1, <1>3, <1>5, <2>1
    DEF DeployOpSound, VarsOpSound, DeployPCs, VarsPCs, VarsWrite, WritePublication, key,
        Forward
  <2> QED
    BY <1>3, <2>1, <2>2 DEF IInv, OpSound
<1>6. CASE Fail
    BY <1>3, <1>6, FailSound DEF IInv
<1> QED
    BY <1>5, <1>6 DEF VarsWrite, WritePublication

\* A replay writes the traffic of a pending vars update.
LEMMA VarsRepublishSound ==
    ASSUME IInv, VarsRepublish
    PROVE  IInv'
<1>1. op.pc \in VarsPCs /\ key \in VarsKeys /\ varsOps[key].status = "pending"
    BY DEF IInv, OpSound, DeployOpSound, VarsOpSound, VarsRepublish, At, DeployPCs, VarsPCs
<1>2. Writes /\ Control
    BY DEF VarsRepublish, WritePublication, Writes, Control, Faults, PCs
<1>3. RecordsSound'
    BY <1>2, ControlTyped, WritesSound DEF IInv, RecordsSound, TypeOK, VarsRepublish,
       WritePublication, history
<1>4. UNCHANGED log /\ \A d \in Deploys : d # key => pub'[d].stage = pub[d].stage
    BY DEF VarsRepublish, WritePublication, history
<1>5. CASE Goto("varsSucceed")
  <2>1. ReconcileSound' /\ op'.pc = "varsSucceed" /\ op'.key = key /\ op'.by = op.by
    BY <1>1, <1>4, <1>5, GotoReconciles DEF IInv, RecordsSound, PCs, DeployPCs, VarsPCs
  <2>2. DeployOpSound' /\ VarsOpSound'
    BY <1>1, <1>3, <1>5, <2>1
    DEF DeployOpSound, VarsOpSound, DeployPCs, VarsPCs, VarsRepublish, WritePublication, key,
        Forward
  <2> QED
    BY <1>3, <2>1, <2>2 DEF IInv, OpSound
<1>6. CASE Fail
    BY <1>3, <1>6, FailSound DEF IInv
<1> QED
    BY <1>5, <1>6 DEF VarsRepublish, WritePublication

\* Rollback intent of a vars update is recorded.
LEMMA VarsIntentSound ==
    ASSUME IInv, VarsIntent
    PROVE  IInv'
<1>1. op.pc \in VarsPCs /\ key \in VarsKeys /\ varsOps[key].status = "pending"
    BY DEF IInv, OpSound, VarsOpSound, VarsIntent, At, VarsPCs
<1>2. Finishes("rolling_back")
    BY DEF VarsIntent, FinishVarsUpdate, Finishes, Control, Faults, PCs
<1>3. RecordsSound'
    BY <1>1, <1>2, FinishesSound DEF IInv
<1>4. /\ varsOps' = [varsOps EXCEPT ![key].status = "rolling_back"] => varsOps'[key].status = "rolling_back"
      /\ UNCHANGED <<pub, log, traffic, acked, stored>>
    BY <1>1, <1>2, SavedStatus DEF IInv, RecordsSound, Finishes
<1>5. CASE varsOps' = [varsOps EXCEPT ![key].status = "rolling_back"] /\ Goto("varsRestore")
  <2>1. ReconcileSound' /\ op'.pc = "varsRestore" /\ op'.key = key
    BY <1>1, <1>4, <1>5, GotoReconciles DEF IInv, RecordsSound, PCs, VarsPCs
  <2>2. DeployOpSound' /\ VarsOpSound'
    BY <1>1, <1>4, <1>5, <2>1 DEF DeployOpSound, VarsOpSound, DeployPCs, VarsPCs, key
  <2> QED
    BY <1>3, <2>1, <2>2 DEF IInv, OpSound
<1>6. CASE Fail
    BY <1>3, <1>6, FailSound DEF IInv
<1> QED
    BY <1>5, <1>6 DEF VarsIntent, FinishVarsUpdate

\* A vars update whose revision is gone is reported failed.
LEMMA VarsFailSound ==
    ASSUME IInv, VarsFail
    PROVE  IInv'
<1>1. op.pc \in VarsPCs /\ key \in VarsKeys /\ varsOps[key].status = "rolling_back" /\ key \notin stored
    BY DEF IInv, OpSound, VarsOpSound, VarsFail, At, VarsPCs
<1>2. Finishes("failed")
    BY DEF VarsFail, FinishVarsUpdate, Finishes, Control, Faults, PCs
<1>3. RecordsSound'
    BY <1>1, <1>2, FinishesSound DEF IInv
<1>4. /\ varsOps' = [varsOps EXCEPT ![key].status = "failed"] => varsOps'[key].status = "failed"
      /\ UNCHANGED <<pub, log, traffic, acked, stored>>
    BY <1>1, <1>2, SavedStatus DEF IInv, RecordsSound, Finishes
<1>5. CASE Return
    BY <1>1, <1>3, <1>4, <1>5, ReturnSound DEF DeployPCs, VarsPCs, IInv, RecordsSound
<1>6. CASE Fail
    BY <1>3, <1>6, FailSound DEF IInv
<1> QED
    BY <1>5, <1>6 DEF VarsFail, FinishVarsUpdate

\* A vars update whose revision is stored is reported succeeded.
LEMMA VarsSucceedSound ==
    ASSUME IInv, VarsSucceed
    PROVE  IInv'
<1>1. op.pc \in VarsPCs /\ key \in VarsKeys /\ varsOps[key].status = "pending"
    BY DEF IInv, OpSound, VarsOpSound, VarsSucceed, At, VarsPCs
<1>2. Finishes("succeeded")
    BY DEF VarsSucceed, FinishVarsUpdate, Finishes, Control, Faults, PCs
<1>3. RecordsSound'
    BY <1>1, <1>2, FinishesSound DEF IInv
<1>4. /\ varsOps' = [varsOps EXCEPT ![key].status = "succeeded"] => varsOps'[key].status = "succeeded"
      /\ UNCHANGED <<pub, log, traffic, acked, stored>>
    BY <1>1, <1>2, SavedStatus DEF IInv, RecordsSound, Finishes
<1>5. CASE Return
    BY <1>1, <1>3, <1>4, <1>5, ReturnSound DEF DeployPCs, VarsPCs, IInv, RecordsSound
<1>6. CASE Fail
    BY <1>3, <1>6, FailSound DEF IInv
<1> QED
    BY <1>5, <1>6 DEF VarsSucceed, FinishVarsUpdate

\* The revision is stored while its record says building, or the build fails.
LEMMA BuildSound ==
    ASSUME IInv, Build
    PROVE  IInv'
<1>1. /\ op.pc \in DeployPCs /\ key \in Deploys /\ op.by = "request"
      /\ pub[key].stage = "building" /\ traffic = pub[key].previous
    BY DEF IInv, OpSound, DeployOpSound, Build, At, DeployPCs
<1>2. /\ stored' \in {stored, stored \cup {key}} /\ Control /\ Faults
      /\ UNCHANGED <<traffic, acked, runtime, pub, log, varsOps, up, history>>
    BY DEF Build, Control, Faults, PCs
<1>3. op' \in Op /\ repair' \in BOOLEAN /\ faults' \in 0..MaxFaults
    BY <1>2, FaultsTyped, ControlTyped DEF IInv, RecordsSound
<1>4. TypeOK'
    BY <1>1, <1>2, <1>3 DEF IInv, RecordsSound, TypeOK, Deployments, history
<1>5. VarsOutcomeExact' /\ PublicationsSound'
    BY <1>1, <1>2, PublicationAssumption
    DEF IInv, RecordsSound, VarsOutcomeExact, PublicationsSound, history
<1>6. RecordsSound'
    BY <1>2, <1>4, <1>5 DEF IInv, RecordsSound, AckedMeansServed, VarsSound, history
<1>7. CASE Goto("saveStored") \/ Goto("failBuild")
  <2>1. PICK pc \in {"saveStored", "failBuild"} : Goto(pc)
    BY <1>7
  <2>2. ReconcileSound' /\ op'.pc = pc /\ op'.key = key /\ op'.by = op.by
    BY <1>1, <1>2, <2>1, GotoReconciles DEF IInv, RecordsSound, PCs, DeployPCs
  <2>3. DeployOpSound' /\ VarsOpSound'
    BY <1>1, <1>2, <2>2 DEF DeployOpSound, VarsOpSound, DeployPCs, VarsPCs, key
  <2> QED
    BY <1>6, <2>2, <2>3 DEF IInv, OpSound
<1> QED
    BY <1>7 DEF Build

\* A record still in building is failed; a later one keeps its stage.
LEMMA FailBuildSound ==
    ASSUME IInv, FailBuild
    PROVE  IInv'
<1> DEFINE s == IF pub[key].stage = "building" THEN "failed" ELSE pub[key].stage
<1>1. /\ op.pc \in DeployPCs /\ key \in Deploys
      /\ \/ pub[key].stage = "building"
         \/ pub[key].stage = "stored" /\ op.by = "request"
    BY DEF IInv, OpSound, DeployOpSound, FailBuild, At, DeployPCs
<1>2. s \in {"failed", "stored"}
    BY <1>1
<1>3. Saves(s) /\ Return
    BY DEF FailBuild, SavePublication, Saves, Control, Faults
<1>4. key \notin reverted
    BY <1>1 DEF IInv, RecordsSound, PublicationsSound
<1> HIDE DEF s
<1>5. RecordsSound'
    BY <1>1, <1>2, <1>3, <1>4, SavesSound DEF IInv, Stages, Terminal
<1>6. /\ pub'[key].stage \in {pub[key].stage, s}
      /\ \A d \in Deploys : d # key => pub'[d].stage = pub[d].stage
    BY <1>1, <1>2, <1>3, SavedStage DEF IInv, RecordsSound, Saves, Stages, Terminal
<1>7. op.by # "request" => pub'[key].stage \in Terminal \cup {"none", "building"}
    BY <1>1, <1>6 DEF s, Terminal
<1>8. OpSound'
    BY <1>1, <1>3, <1>6, <1>7, ReturnSound DEF IInv, RecordsSound, Saves
<1> QED
    BY <1>5, <1>8 DEF IInv

\* The runtime tries the candidate; nothing is recorded yet.
LEMMA PrepareSound ==
    ASSUME IInv, Prepare
    PROVE  IInv'
<1>1. /\ op.pc \in DeployPCs /\ key \in Deploys
      /\ pub[key].stage \in Forward /\ traffic = pub[key].previous
    BY DEF IInv, OpSound, DeployOpSound, Prepare, At, DeployPCs
<1>2. Saves(pub[key].stage)
    BY DEF Prepare, Saves, Control, Faults, PCs
<1>3. pub' = pub
    BY DEF Prepare
<1>4. RecordsSound'
    BY <1>1, <1>2, SavesSound DEF IInv, RecordsSound, PublicationsSound, Stages, Forward
<1>5. CASE Goto("saveReady") \/ Goto("failPrepare")
  <2>1. PICK pc \in {"saveReady", "failPrepare"} : Goto(pc)
    BY <1>5
  <2>2. ReconcileSound' /\ op'.pc = pc /\ op'.key = key
    BY <1>1, <1>2, <1>3, <2>1, GotoReconciles DEF IInv, RecordsSound, Saves, PCs, DeployPCs
  <2>3. DeployOpSound' /\ VarsOpSound'
    BY <1>1, <1>2, <1>3, <2>2 DEF DeployOpSound, VarsOpSound, DeployPCs, VarsPCs, Saves, key
  <2> QED
    BY <1>4, <2>2, <2>3 DEF IInv, OpSound
<1>6. CASE Fail
    BY <1>4, <1>6, FailSound DEF IInv
<1> QED
    BY <1>5, <1>6 DEF Prepare

\* The revision is deleted only where no acknowledged traffic selects it.
LEMMA VarsDeleteSound ==
    ASSUME IInv, VarsDelete
    PROVE  IInv'
<1>1. /\ op.pc \in VarsPCs /\ key \in VarsKeys /\ varsOps[key].status = "rolling_back"
      /\ acked => key \notin traffic
    BY DEF IInv, OpSound, VarsOpSound, VarsDelete, At, VarsPCs
<1>2. /\ \/ stored' = stored \ {key} /\ traffic' = traffic \ {key}
         \/ UNCHANGED <<stored, traffic>>
      /\ Control /\ Faults
      /\ UNCHANGED <<acked, runtime, pub, log, varsOps, up, history>>
    BY DEF VarsDelete, Control, Faults, PCs
<1>3. op' \in Op /\ repair' \in BOOLEAN /\ faults' \in 0..MaxFaults
    BY <1>2, FaultsTyped, ControlTyped DEF IInv, RecordsSound
<1>4. TypeOK'
    BY <1>2, <1>3 DEF IInv, RecordsSound, TypeOK, history
<1>5. acked => traffic' = traffic
    BY <1>1, <1>2
<1>6. AckedMeansServed'
    BY <1>2, <1>5 DEF IInv, RecordsSound, AckedMeansServed
<1>7. VarsOutcomeExact' /\ PublicationsSound' /\ VarsSound'
    BY <1>1, <1>2, PublicationAssumption
    DEF IInv, RecordsSound, VarsOutcomeExact, PublicationsSound, VarsSound, history
<1>8. RecordsSound'
    BY <1>4, <1>6, <1>7 DEF RecordsSound
<1>9. CASE Goto("varsWrite") /\ stored' = stored \ {key}
  <2>1. ReconcileSound' /\ op'.pc = "varsWrite" /\ op'.key = key
    BY <1>1, <1>2, <1>9, GotoReconciles DEF IInv, RecordsSound, PCs, VarsPCs
  <2>2. DeployOpSound' /\ VarsOpSound'
    BY <1>1, <1>2, <1>9, <2>1 DEF DeployOpSound, VarsOpSound, DeployPCs, VarsPCs, key
  <2> QED
    BY <1>8, <2>1, <2>2 DEF IInv, OpSound
<1>10. CASE Fail
    BY <1>8, <1>10, FailSound DEF IInv
<1> QED
    BY <1>9, <1>10 DEF VarsDelete

\* Split traffic stops a recovery; nothing changes.
LEMMA VarsStuckSound ==
    ASSUME IInv, VarsStuck
    PROVE  IInv'
<1>1. op' \in Op /\ repair' \in BOOLEAN
    BY ControlTypes DEF VarsStuck, IInv, RecordsSound
<1>2. RecordsSound'
    BY <1>1 DEF VarsStuck, IInv, RecordsSound, TypeOK, AckedMeansServed, VarsOutcomeExact,
              PublicationsSound, VarsSound, history
<1> QED
    BY <1>2, FailSound DEF VarsStuck, IInv

\* An operator's traffic change touches no record.
LEMMA OperatorSound ==
    ASSUME IInv, OperatorStep
    PROVE  IInv'
<1>1. op.by = "request" /\ op.pc \in OperatorPCs
    BY DEF OperatorStep, OpValidate, OpUndo, OpWrite, OpRestore, OpRewrite, At, OperatorPCs,
           IInv, OpSound, ReconcileSound
<1>2. \A pc \in OperatorPCs : pc \in PCs /\ (Goto(pc) => OpSound')
  <2> TAKE pc \in OperatorPCs
  <2>1. pc \in PCs
    BY DEF PCs, OperatorPCs
  <2>2. ASSUME Goto(pc) PROVE OpSound'
    <3>1. op'.pc = pc /\ op'.by = "request" /\ op'.next > 0
      BY <1>1, <2>2 DEF Goto, IInv, RecordsSound, TypeOK, Op, OpSound, ReconcileSound
    <3> QED
      BY <3>1 DEF OpSound, DeployOpSound, VarsOpSound, ReconcileSound, DeployPCs, VarsPCs,
                  OperatorPCs, ReconcilePCs
  <2> QED
    BY <2>1, <2>2
<1>3. Return => op' = Idle
    BY <1>1 DEF Return
<1>4. CASE OpUndo \/ OpRestore
  <2>1. Routes /\ UNCHANGED reverted
    BY <1>4 DEF OpUndo, OpRestore, SetActiveTraffic, Routes, Control, Faults, PCs
  <2>2. RecordsSound'
    BY <2>1, RoutesSound DEF IInv
  <2>3. Fail \/ Goto("opRewrite")
    BY <1>4 DEF OpUndo, OpRestore, SetActiveTraffic
  <2> QED
    BY <1>2, <2>2, <2>3, FailSound DEF IInv, OperatorPCs
<1>5. CASE OpWrite \/ OpRewrite
  <2>1. Writes /\ Control /\ UNCHANGED <<up, reverted>>
    BY <1>5 DEF OpWrite, OpRewrite, WritePublication, Writes, Control, Faults, PCs, history
  <2>2. op' \in Op /\ repair' \in BOOLEAN
    BY <2>1, ControlTyped DEF IInv, RecordsSound
  <2>3. chosen' \in BOOLEAN /\ undone' \subseteq Deploys
    BY <1>5 DEF OpWrite, OpRewrite, IInv, RecordsSound, TypeOK, history
  <2>4. RecordsSound'
    BY <2>1, <2>2, <2>3, WritesSound DEF IInv, RecordsSound, TypeOK
  <2>5. Fail \/ Return \/ Goto("opRestore")
    BY <1>5 DEF OpWrite, OpRewrite, WritePublication
  <2> QED
    BY <1>2, <1>3, <2>4, <2>5, FailSound, IdleSound DEF IInv, OperatorPCs
<1>6. CASE OpValidate
  <2>1. Routes /\ UNCHANGED reverted
    BY <1>6 DEF OpValidate, Routes, Control, Faults, PCs, IInv, RecordsSound, TypeOK, history
  <2>2. RecordsSound'
    BY <2>1, RoutesSound DEF IInv
  <2> QED
    BY <1>2, <1>6, <2>2 DEF IInv, OperatorPCs, OpValidate
<1> QED
    BY <1>4, <1>5, <1>6 DEF OperatorStep
\* What the replay of an unfinished publication starts with is sound.
LEMMA ReplaySound ==
    ASSUME IInv, NEW k \in Deploys, Unfinished(k), op' \in Op,
           op'.pc = ReplayPC(k), op'.key = k, op'.by \in {"request", "boot", "repair"},
           UNCHANGED <<traffic, pub>>
    PROVE  DeployOpSound' /\ VarsOpSound' /\ op'.pc \in DeployPCs
<1>1. pub[k].stage \in Forward \cup {"building", "rolling_back"}
    BY DEF IInv, RecordsSound, TypeOK, Unfinished, Forward, Stages
<1>2. op'.pc \in DeployPCs
    BY DEF ReplayPC, DeployPCs
<1>3. \/ pub[k].stage = "building" /\ op'.pc = "failBuild"
      \/ pub[k].stage = "rolling_back" /\ op'.pc = "restore" /\ traffic \in {{k}, pub[k].previous}
      \/ pub[k].stage \in Forward /\ op'.pc = "republishTarget" /\ traffic = {k}
      \/ pub[k].stage \in Forward /\ op'.pc = "prepare" /\ traffic = pub[k].previous
      \/ pub[k].stage \in Forward \cup {"rolling_back"} /\ op'.pc = "supersede"
    BY <1>1 DEF ReplayPC, Forward
<1> QED
    BY <1>2, <1>3 DEF DeployOpSound, VarsOpSound, DeployPCs, VarsPCs, key

\* What an operation that does not touch the records does is about op alone.
LEMMA RecordsKept ==
    ASSUME RecordsSound, op' \in Op, repair' \in BOOLEAN, up' \in BOOLEAN,
           faults' \in 0..MaxFaults,
           UNCHANGED <<stored, traffic, acked, runtime, pub, log, varsOps, history>>
    PROVE  RecordsSound'
BY DEF RecordsSound, TypeOK, AckedMeansServed, VarsOutcomeExact, PublicationsSound, VarsSound,
       history

\* The scan passes a settled record or replays one that is not.
LEMMA ScanSound ==
    ASSUME IInv, Scan
    PROVE  IInv'
<1>1. /\ op.by \in {"boot", "repair"} /\ key = NoKey /\ op.next > 0
      /\ \A i \in DOMAIN log : i < op.next => Settled(log[i])
      /\ NoKey \notin Deploys
    BY PublicationAssumption DEF IInv, OpSound, ReconcileSound, Scan, At, ReconcilePCs,
       RecordsSound, TypeOK
<1>2. log \in Seq(Deploys) /\ op \in Op /\ repair \in BOOLEAN /\ op.next \in Nat
    BY DEF IInv, RecordsSound, TypeOK, Op
<1>3. UNCHANGED <<stored, traffic, acked, runtime, pub, log, varsOps, up, history>>
    BY DEF Scan
<1>4. Faults /\ up' \in BOOLEAN
    BY DEF Scan, Faults, IInv, RecordsSound, TypeOK
<1>5. CASE op.next > Len(log) /\ Goto("scanVars")
  <2>1. op' \in Op /\ repair' \in BOOLEAN
    BY <1>5, ControlTypes DEF IInv, RecordsSound, PCs
  <2>2. op'.pc = "scanVars" /\ op'.by = op.by /\ op'.next = op.next
    BY <1>2, <1>5 DEF Goto, Op
  <2>3. \A i \in DOMAIN log : i < op.next
    BY <1>2, <1>5
  <2>4. \A k \in Deploys : Settled(k)
    <3>1. \A k \in Deploys : pub[k].stage = "none" \/ \E i \in DOMAIN log : log[i] = k
      BY DEF IInv, RecordsSound, PublicationsSound
    <3>2. \A i \in DOMAIN log : Settled(log[i])
      BY <1>1, <2>3
    <3> QED
      BY <3>1, <3>2 DEF Settled
  <2>5. OpSound'
    BY <1>1, <1>3, <2>2, <2>4
    DEF OpSound, DeployOpSound, VarsOpSound, ReconcileSound, DeployPCs,
       VarsPCs, OperatorPCs, ReconcilePCs, Settled
  <2> QED
    BY <1>3, <1>4, <2>1, <2>5, RecordsKept, FaultsTyped DEF IInv, RecordsSound
<1>6. CASE /\ op.next <= Len(log) /\ UNCHANGED <<repair, faults>> /\ Unfinished(log[op.next])
           /\ op' = [op EXCEPT !.pc = ReplayPC(log[op.next]), !.key = log[op.next], !.next = @ + 1,
                               !.resumed = (pub[log[op.next]].stage = "rolling_back")]
  <2> DEFINE k == log[op.next]
  <2>1. k \in Deploys /\ op.next \in DOMAIN log
    BY <1>2, <1>6 DEF IInv, OpSound, ReconcileSound
  <2>2. ReplayPC(k) \in PCs \cap DeployPCs
    BY DEF ReplayPC, PCs, DeployPCs
  <2>3. op' \in Op
    <3> DEFINE r == (pub[k].stage = "rolling_back")
    <3>1. r \in BOOLEAN /\ op.next + 1 \in Nat
      BY <1>2
    <3>2. op' = [op EXCEPT !.pc = ReplayPC(k), !.key = k, !.next = op.next + 1, !.resumed = r]
      BY <1>2, <1>6 DEF Op
    <3> HIDE DEF r
    <3> QED
      BY <1>2, <2>1, <2>2, <3>1, <3>2 DEF Op
  <2>4. /\ op'.pc = ReplayPC(k) /\ op'.key = k /\ op'.by = op.by
        /\ op'.next = op.next + 1
    BY <1>2, <1>6 DEF Op
  <2>5. DeployOpSound' /\ VarsOpSound'
    BY <1>1, <1>3, <1>6, <2>1, <2>3, <2>4, ReplaySound
  <2>6. op'.pc \notin OperatorPCs \cup ReconcilePCs \cup VarsPCs \cup {"idle", "scan", "scanVars", "finalWrite"}
    BY <2>2, <2>4 DEF DeployPCs, OperatorPCs, ReconcilePCs, VarsPCs
  <2>7. \A i \in DOMAIN log : i < op'.next => Settled(log[i]) \/ log[i] = k
    BY <1>1, <1>2, <2>4
  <2>8. ReconcileSound'
    BY <1>1, <1>2, <1>3, <2>4, <2>6, <2>7 DEF ReconcileSound, Settled, key
  <2> QED
    BY <1>2, <1>3, <1>4, <1>6, <2>3, <2>5, <2>8, RecordsKept, FaultsTyped
    DEF IInv, RecordsSound, OpSound
<1>7. CASE /\ op.next <= Len(log) /\ UNCHANGED <<repair, faults>> /\ ~Unfinished(log[op.next])
           /\ op' = [op EXCEPT !.next = @ + 1]
  <2> DEFINE k == log[op.next]
  <2>1. k \in Deploys /\ op.next \in DOMAIN log
    BY <1>2, <1>7 DEF IInv, OpSound, ReconcileSound
  <2>2. op' \in Op /\ op'.pc = "scan" /\ op'.by = op.by /\ op'.key = op.key /\ op'.next = op.next + 1
    BY <1>2, <1>7 DEF Op, Scan, At
  <2>3. Settled(k)
    BY <1>7, <2>1 DEF Unfinished, Settled
  <2>4. \A i \in DOMAIN log : i < op'.next => Settled(log[i])
    BY <1>1, <1>2, <2>2, <2>3
  <2>5. OpSound'
    BY <1>1, <1>2, <1>3, <2>2, <2>4 DEF OpSound, DeployOpSound, VarsOpSound, ReconcileSound,
       DeployPCs, VarsPCs, OperatorPCs, ReconcilePCs, Settled, key
  <2> QED
    BY <1>2, <1>3, <1>4, <1>7, <2>2, <2>5, RecordsKept, FaultsTyped DEF IInv, RecordsSound
<1>8. CASE Fail
    BY <1>8, ControlTypes, <1>3, <1>4, FailSound, RecordsKept, FaultsTyped DEF IInv, RecordsSound
<1> QED
    BY <1>5, <1>6, <1>7, <1>8 DEF Scan

\* Vars recovery takes up an unfinished outcome, or finds none left.
LEMMA ScanVarsSound ==
    ASSUME IInv, ScanVars
    PROVE  IInv'
<1>1. /\ op.by \in {"boot", "repair"} /\ op.pc = "scanVars" /\ op.next > 0
      /\ \A k \in Deploys : Settled(k)
    BY DEF IInv, OpSound, ReconcileSound, ScanVars, At, ReconcilePCs
<1>2. UNCHANGED <<stored, traffic, acked, runtime, pub, log, varsOps, up, faults, repair, history>>
    BY DEF ScanVars, Goto
<1>3. op \in Op /\ TypeOK /\ VarsOutcomeExact
    BY DEF IInv, RecordsSound, TypeOK
<1>4. ASSUME NEW pc \in VarsPCs, NEW v \in VarsKeys, op' = [op EXCEPT !.pc = pc, !.key = v],
             VarsOpSound'
      PROVE  IInv'
  <2>1. op' \in Op /\ op'.pc = pc /\ op'.key = v /\ op'.by = op.by /\ op'.next = op.next
    BY <1>3, <1>4 DEF Op, VarsPCs, PCs
  <2>2. DeployOpSound' /\ pc \notin OperatorPCs \cup ReconcilePCs \cup {"scan", "finalWrite", "idle"}
    BY <2>1 DEF DeployOpSound, DeployPCs, VarsPCs, OperatorPCs, ReconcilePCs
  <2>3. log \in Seq(Deploys)
    BY <1>3 DEF TypeOK
  <2>4. ReconcileSound'
    BY <1>1, <1>2, <2>1, <2>2, <2>3 DEF ReconcileSound, Settled
  <2> QED
    BY <1>2, <1>3, <1>4, <2>1, <2>2, <2>4, RecordsKept DEF IInv, RecordsSound, OpSound, TypeOK
<1>5. CASE \E v \in WithStatus("rolling_back") :
              op' = [op EXCEPT !.pc = VarsRollbackPC(v), !.key = v]
  <2>1. PICK v \in WithStatus("rolling_back") :
              op' = [op EXCEPT !.pc = VarsRollbackPC(v), !.key = v]
    BY <1>5
  <2>2. v \in VarsKeys /\ varsOps[v].status = "rolling_back"
    BY DEF WithStatus
  <2>3. VarsRollbackPC(v) \in VarsPCs
    BY DEF VarsRollbackPC, VarsPCs
  <2>4. op'.pc = VarsRollbackPC(v) /\ op'.key = v
    BY <1>3, <2>1 DEF Op
  <2>5. VarsOpSound'
    BY <1>2, <1>3, <2>2, <2>4 DEF VarsRollbackPC, VarsOpSound, VarsPCs, TypeOK, key
  <2> QED
    BY <1>4, <2>1, <2>2, <2>3, <2>5
<1>6. CASE \E v \in WithStatus("pending") :
              op' = [op EXCEPT !.pc = IF v \in stored THEN "varsSucceed" ELSE "varsFail", !.key = v]
  <2>1. PICK v \in WithStatus("pending") :
              op' = [op EXCEPT !.pc = IF v \in stored THEN "varsSucceed" ELSE "varsFail", !.key = v]
    BY <1>6
  <2>2. v \in VarsKeys /\ varsOps[v].status = "pending" /\ v \in stored
    BY <1>3 DEF WithStatus, VarsOutcomeExact
  <2>3. op' = [op EXCEPT !.pc = "varsSucceed", !.key = v]
    BY <2>1, <2>2
  <2>4. op'.pc = "varsSucceed" /\ op'.key = v
    BY <1>3, <2>3 DEF Op
  <2>5. VarsOpSound'
    BY <1>2, <2>2, <2>4 DEF VarsOpSound, VarsPCs, key
  <2> QED
    BY <1>4, <2>2, <2>3, <2>5 DEF VarsPCs
<1>7. CASE WithStatus("rolling_back") \cup WithStatus("pending") = {} /\ Goto("finalWrite")
  <2>1. /\ op' \in Op /\ op'.pc = "finalWrite" /\ op'.by = op.by /\ op'.next = op.next
        /\ op'.key = op.key
    BY <1>3, <1>7 DEF Op, Goto, PCs
  <2>2. \A v \in VarsKeys : varsOps[v].status \in {"none", "succeeded", "failed"}
    BY <1>3, <1>7 DEF WithStatus, TypeOK
  <2>3. log \in Seq(Deploys)
    BY <1>3 DEF TypeOK
  <2>4. OpSound'
    BY <1>1, <1>2, <2>1, <2>2, <2>3 DEF OpSound, DeployOpSound, VarsOpSound, ReconcileSound,
       DeployPCs, VarsPCs, OperatorPCs, ReconcilePCs, Settled
  <2> QED
    BY <1>2, <1>3, <2>1, <2>4, RecordsKept DEF IInv, RecordsSound, TypeOK
<1> QED
    BY <1>5, <1>6, <1>7 DEF ScanVars

\* The final write ends reconciliation.
LEMMA FinalWriteSound ==
    ASSUME IInv, FinalWrite
    PROVE  IInv'
<1>1. /\ Writes /\ op' = Idle /\ up' \in BOOLEAN /\ repair' \in BOOLEAN
      /\ UNCHANGED history
    BY PublicationAssumption
    DEF FinalWrite, WritePublication, Writes, Faults, Fail, IInv, RecordsSound, TypeOK
<1>2. op' \in Op
    BY <1>1 DEF Idle, Op, PCs
<1>3. RecordsSound'
    BY <1>1, <1>2, WritesSound DEF IInv, RecordsSound, TypeOK, history
<1> QED
    BY <1>1, <1>3, IdleSound DEF IInv

\* A new record has a revision nobody stored and the traffic it found.
LEMMA BeginDeploySound ==
    ASSUME IInv, NEW k \in Deploys, BeginDeploy(k)
    PROVE  IInv'
<1>1. /\ TypeOK /\ op = Idle /\ pub[k].stage = "none" /\ k \notin stored /\ traffic \subseteq stored
      /\ k \notin reverted /\ log \in Seq(Deploys)
    BY DEF IInv, RecordsSound, TypeOK, PublicationsSound, BeginDeploy
<1>2. /\ UNCHANGED <<stored, traffic, acked, runtime, varsOps, up, repair, history>>
      /\ Faults
    BY DEF BeginDeploy, Faults
<1>3. faults' \in 0..MaxFaults
    BY <1>1, <1>2, FaultsTyped
<1>4. op' \in Op
  <2>1. op' = Idle \/ op' = Request("build", k)
    BY <1>1 DEF BeginDeploy
  <2>2. Idle \in Op
    BY <1>1 DEF TypeOK
  <2>3. Request("build", k) \in Op
    BY <2>2 DEF Request, Op, PCs
  <2> QED
    BY <2>1, <2>2, <2>3
<1>5. CASE UNCHANGED <<pub, log>>
    BY <1>1, <1>2, <1>3, <1>4, <1>5, RecordsKept, IdleSound DEF IInv, TypeOK, BeginDeploy
<1>6. CASE /\ pub' = [pub EXCEPT ![k] = [stage |-> "building", previous |-> traffic]]
           /\ log' = Append(log, k)
  <2>1. /\ pub' \in [Deploys -> [stage : Stages, previous : SUBSET Deployments]]
        /\ pub'[k].stage = "building" /\ pub'[k].previous = traffic
        /\ \A d \in Deploys \ {k} : pub'[d] = pub[d]
    BY <1>1, <1>6 DEF TypeOK, Stages
  <2>2. /\ log' \in Seq(Deploys)
        /\ \A d \in Deploys : d = k \/ (\E i \in DOMAIN log : log[i] = d) =>
               \E i \in DOMAIN log' : log'[i] = d
    BY <1>1, <1>6
  <2>3. TypeOK'
    BY <1>1, <1>2, <1>3, <1>4, <2>1, <2>2 DEF TypeOK, history
  <2>4. PublicationsSound'
    BY <1>1, <1>2, <2>1, <2>2 DEF IInv, RecordsSound, PublicationsSound, history
  <2>5. RecordsSound'
    BY <1>2, <2>3, <2>4
    DEF IInv, RecordsSound, AckedMeansServed, VarsOutcomeExact, VarsSound, history
  <2>6. op' = Idle \/ op' = Request("build", k)
    BY <1>1 DEF BeginDeploy
  <2>7. CASE op' = Request("build", k)
    <3>1. op'.pc = "build" /\ op'.by = "request" /\ op'.key = k /\ op'.next = 1
      BY <2>7 DEF Request, Idle
    <3> QED
      BY <1>2, <2>1, <2>5, <3>1 DEF IInv, OpSound, DeployOpSound, VarsOpSound, ReconcileSound,
         DeployPCs, VarsPCs, OperatorPCs, ReconcilePCs, key
  <2> QED
    BY <2>5, <2>6, <2>7, IdleSound DEF IInv
<1> QED
    BY <1>5, <1>6 DEF BeginDeploy

\* A repeated request starts at the call that its record and traffic allow.
LEMMA RetryDeploySound ==
    ASSUME IInv, NEW k \in Deploys, RetryDeploy(k)
    PROVE  IInv'
<1>1. UNCHANGED <<stored, traffic, acked, runtime, pub, log, varsOps, up, repair, faults, history>>
    BY DEF RetryDeploy
<1>2. ReplayPC(k) \in PCs \cap DeployPCs
    BY DEF ReplayPC, PCs, DeployPCs
<1>3. op' \in Op /\ op'.pc = ReplayPC(k) /\ op'.key = k /\ op'.by = "request" /\ op'.next = 1
    BY <1>2 DEF RetryDeploy, Request, Idle, Op
<1>4. RecordsSound'
    BY <1>1, <1>3, RecordsKept DEF IInv, RecordsSound, TypeOK
<1>5. DeployOpSound' /\ VarsOpSound' /\ Unfinished(k)
    BY <1>1, <1>3, ReplaySound DEF RetryDeploy
<1>6. ReconcileSound'
    BY <1>2, <1>3 DEF ReconcileSound, DeployPCs, ReconcilePCs, OperatorPCs
<1> QED
    BY <1>4, <1>5, <1>6 DEF IInv, OpSound

\* A vars update begins with its revision stored and in traffic.
LEMMA BeginVarsSound ==
    ASSUME IInv, NEW v \in VarsKeys, BeginVars(v)
    PROVE  IInv'
<1>1. PICK b \in traffic : traffic = {b}
    BY DEF BeginVars
<1>2. /\ stored' = stored \cup {v} /\ traffic' = {v} /\ acked' = FALSE /\ chosen' = FALSE
      /\ varsOps' = [varsOps EXCEPT ![v].status = "pending", ![v].base = b]
      /\ varsOps[v].status = "none" /\ op = Idle
      /\ UNCHANGED <<runtime, pub, log, up, repair, undone, reverted>> /\ Faults
      /\ (op' = Idle \/ op' = Request("varsPublish", v)) BY <1>1 DEF BeginVars, Faults
<1>3. TypeOK /\ b \in Deployments /\ v \in Deployments /\ v \notin Deploys
    BY <1>1, PublicationAssumption DEF IInv, RecordsSound, TypeOK, Deployments
<1>4. /\ varsOps' \in [VarsKeys ->
             [status : {"none", "pending", "rolling_back", "succeeded", "failed"},
              base : Deployments]]
      /\ varsOps'[v].status = "pending"
      /\ \A w \in VarsKeys \ {v} : varsOps'[w] = varsOps[w]
    BY <1>2, <1>3 DEF TypeOK
<1>5. op' \in Op
  <2>1. Idle \in Op
    BY <1>2, <1>3 DEF TypeOK
  <2>2. Request("varsPublish", v) \in Op
    BY <2>1 DEF Request, Op, PCs
  <2> QED
    BY <1>2, <2>1, <2>2
<1>6. TypeOK'
    BY <1>2, <1>3, <1>4, <1>5, FaultsTyped DEF TypeOK
<1>7. VarsOutcomeExact' /\ VarsSound' /\ PublicationsSound' /\ AckedMeansServed'
    BY <1>2, <1>3, <1>4 DEF IInv, RecordsSound, VarsOutcomeExact, VarsSound, PublicationsSound,
       AckedMeansServed
<1>8. CASE op' = Request("varsPublish", v)
  <2>1. op'.pc = "varsPublish" /\ op'.by = "request" /\ op'.key = v /\ op'.next = 1
    BY <1>8 DEF Request, Idle
  <2> QED
    BY <1>4, <1>6, <1>7, <2>1 DEF IInv, RecordsSound, OpSound, DeployOpSound, VarsOpSound,
       ReconcileSound, DeployPCs, VarsPCs, OperatorPCs, ReconcilePCs, key
<1> QED
    BY <1>2, <1>6, <1>7, <1>8, IdleSound DEF IInv, RecordsSound

\* A repeated vars update starts at the call that its record and routing allow.
LEMMA RetryVarsSound ==
    ASSUME IInv, NEW v \in VarsKeys, RetryVars(v)
    PROVE  IInv'
<1> DEFINE pc == IF varsOps[v].status = "rolling_back" THEN VarsRollbackPC(v)
                 ELSE IF v \in stored THEN "varsRepublish" ELSE "varsWrite"
<1>1. UNCHANGED <<stored, traffic, acked, runtime, pub, log, varsOps, up, repair, faults, history>>
    BY DEF RetryVars
<1>2. pc \in PCs \cap VarsPCs
    BY DEF VarsRollbackPC, PCs, VarsPCs
<1>3. op' \in Op /\ op'.pc = pc /\ op'.key = v /\ op'.by = "request" /\ op'.next = 1
    BY <1>2 DEF RetryVars, Request, Idle, Op
<1>4. RecordsSound'
    BY <1>1, <1>3, RecordsKept DEF IInv, RecordsSound, TypeOK
<1>5. varsOps[v].status \in {"pending", "rolling_back"} /\ TypeOK /\ VarsOutcomeExact
    BY DEF RetryVars, IInv, RecordsSound
<1>6. VarsOpSound'
    BY <1>1, <1>3, <1>5 DEF VarsRollbackPC, VarsOpSound, VarsOutcomeExact, VarsPCs, TypeOK, key
<1>7. DeployOpSound' /\ ReconcileSound'
    BY <1>2, <1>3
    DEF DeployOpSound, ReconcileSound, DeployPCs, VarsPCs, ReconcilePCs, OperatorPCs
<1> QED
    BY <1>4, <1>6, <1>7 DEF IInv, OpSound

\* An operator's allocation is committed or refused.
LEMMA SetTrafficSound ==
    ASSUME IInv, NEW T \in SUBSET Deployments, SetTraffic(T)
    PROVE  IInv'
<1>1. /\ TypeOK /\ op = Idle
      /\ op' = Idle \/ op' = [Request("opValidate", NoKey) EXCEPT !.previous = traffic]
    BY DEF IInv, RecordsSound, SetTraffic, SetActiveTraffic
<1>2. op' \in Op
    BY ZenonT(60), <1>1 DEF Request, Idle, Op, PCs, TypeOK
<1>3. TypeOK' BY <1>1, <1>2, FaultsTyped DEF SetTraffic, SetActiveTraffic, Faults, TypeOK
<1>4. RecordsSound'
    BY <1>3 DEF IInv, RecordsSound, AckedMeansServed, VarsOutcomeExact, PublicationsSound,
       VarsSound, SetTraffic, SetActiveTraffic
<1>5. CASE op' = [Request("opValidate", NoKey) EXCEPT !.previous = traffic]
  <2>1. op'.pc = "opValidate" /\ op'.by = "request" /\ op'.next = 1
    BY <1>5 DEF Request, Idle
  <2> QED
    BY <1>4, <2>1 DEF IInv, OpSound, DeployOpSound, VarsOpSound, ReconcileSound, DeployPCs,
       VarsPCs, OperatorPCs, ReconcilePCs
<1> QED
    BY <1>1, <1>4, <1>5, IdleSound DEF IInv

\* Reconciliation starts at the first record.
LEMMA StartSound ==
    ASSUME IInv, StartBoot \/ StartRepair
    PROVE  IInv'
<1>1. PICK b \in {"boot", "repair"} : op' = [Idle EXCEPT !.by = b, !.pc = "scan"]
    BY DEF StartBoot, StartRepair
<1>2. op' \in Op /\ op'.by = b /\ op'.pc = "scan" /\ op'.key = NoKey /\ op'.next = 1
    BY <1>1 DEF Idle, Op, PCs
<1>3. RecordsSound'
    BY <1>2, RecordsKept DEF StartBoot, StartRepair, IInv, RecordsSound, TypeOK
<1>4. log' \in Seq(Deploys)
    BY <1>3 DEF RecordsSound, TypeOK
<1>5. OpSound'
    BY <1>2, <1>4 DEF OpSound, DeployOpSound, VarsOpSound, ReconcileSound, DeployPCs,
       VarsPCs, OperatorPCs, ReconcilePCs, key
<1> QED
    BY <1>3, <1>5 DEF IInv

\* A process that dies leaves the records it had.
LEMMA CrashSound ==
    ASSUME IInv, Crash
    PROVE  IInv'
<1>1. /\ op' = Idle /\ up' = FALSE /\ runtime' \in {runtime, Lost} /\ Faults
      /\ UNCHANGED <<stored, traffic, acked, pub, log, varsOps, repair, history>>
    BY DEF Crash, Faults
<1>2. op' \in Op
    BY <1>1 DEF Idle, Op, PCs
<1>3. faults' \in 0..MaxFaults
    BY <1>1, FaultsTyped DEF IInv, RecordsSound
<1>4. TypeOK' BY <1>1, <1>2, <1>3 DEF IInv, RecordsSound, TypeOK, history
<1>5. RecordsSound'
    BY <1>1, <1>4 DEF IInv, RecordsSound, AckedMeansServed, VarsOutcomeExact,
       PublicationsSound, VarsSound, history
<1> QED
    BY <1>1, <1>5, IdleSound DEF IInv

\* A restarted runner has no generation; the operation in progress goes on.
LEMMA RunnerRestartSound ==
    ASSUME IInv, RunnerRestart
    PROVE  IInv'
<1>1. /\ runtime' = Lost /\ repair' = TRUE /\ Faults
      /\ UNCHANGED <<stored, traffic, acked, pub, log, varsOps, op, up, history>>
    BY DEF RunnerRestart, Faults
<1>2. TypeOK' BY <1>1, FaultsTyped DEF IInv, RecordsSound, TypeOK, history
<1>3. RecordsSound'
    BY <1>1, <1>2 DEF IInv, RecordsSound, AckedMeansServed, VarsOutcomeExact,
       PublicationsSound, VarsSound, history
<1>4. OpSound'
    BY <1>1 DEF IInv, OpSound, DeployOpSound, VarsOpSound, ReconcileSound, key, Settled
<1> QED
    BY <1>3, <1>4 DEF IInv

-----------------------------------------------------------------------------
(* The invariant and the properties.                                       *)

\* The invariant holds when the story begins.
LEMMA InitSound == Init => IInv
<1> SUFFICES ASSUME Init PROVE IInv
    OBVIOUS
<1>1. Idle \in Op
    BY DEF Idle, Op, PCs
<1>2. TypeOK
  <2>1. runtime \in (SUBSET Deployments) \cup {Lost} /\ faults \in 0..MaxFaults
    BY PublicationAssumption DEF Init
  <2>2. /\ pub \in [Deploys -> [stage : Stages, previous : SUBSET Deployments]]
        /\ varsOps \in [VarsKeys ->
             [status : {"none", "pending", "rolling_back", "succeeded", "failed"},
              base : Deployments]]
    BY DEF Init, Stages, Deployments
  <2>3. log \in Seq(Deploys)
    BY DEF Init
  <2> QED
    BY <1>1, <2>1, <2>2, <2>3 DEF Init, TypeOK, Deployments
<1>3. RecordsSound
    BY <1>2, PublicationAssumption DEF Init, RecordsSound, AckedMeansServed, VarsOutcomeExact,
       PublicationsSound, VarsSound, Deployments
<1>4. OpSound
    BY DEF Init, Idle, OpSound, DeployOpSound, VarsOpSound, ReconcileSound, DeployPCs, VarsPCs,
       OperatorPCs, ReconcilePCs
<1> QED
    BY <1>3, <1>4 DEF IInv

\* Every step preserves the invariant.
LEMMA NextSound == IInv /\ [Next]_vars => IInv'
<1> SUFFICES ASSUME IInv, [Next]_vars PROVE IInv'
    OBVIOUS
<1>1. CASE \E k \in Deploys : BeginDeploy(k) \/ RetryDeploy(k)
    BY <1>1, BeginDeploySound, RetryDeploySound
<1>2. CASE \E v \in VarsKeys : BeginVars(v) \/ RetryVars(v)
    BY <1>2, BeginVarsSound, RetryVarsSound
<1>3. CASE \E T \in SUBSET Deployments : SetTraffic(T)
    BY <1>3, SetTrafficSound
<1>4. CASE StartBoot \/ StartRepair
    BY <1>4, StartSound
<1>5. CASE DeployStep
    BY <1>5, BuildSound, SaveStoredSound, FailBuildSound, PrepareSound, FailPrepareSound,
       SaveReadySound, SaveActivatingSound, ActivateSound, CommitSound, SavePublishedSound,
       SaveRollbackSound, RestoreSound, RepublishSound, SaveFailedSound, SupersedeSound,
       RepublishTargetSound DEF DeployStep
<1>6. CASE VarsStep
    BY <1>6, VarsPublishSound, VarsIntentSound, VarsRestoreSound, VarsDeleteSound,
       VarsWriteSound, VarsFailSound, VarsRepublishSound, VarsSucceedSound, VarsStuckSound
    DEF VarsStep
<1>7. CASE OperatorStep
    BY <1>7, OperatorSound
<1>8. CASE ReconcileStep
    BY <1>8, ScanSound, ScanVarsSound, FinalWriteSound DEF ReconcileStep
<1>9. CASE Crash \/ RunnerRestart
    BY <1>9, CrashSound, RunnerRestartSound
<1>10. CASE UNCHANGED vars
    BY <1>10 DEF vars, IInv, RecordsSound, TypeOK, AckedMeansServed, VarsOutcomeExact,
       PublicationsSound, VarsSound, OpSound, DeployOpSound, VarsOpSound, ReconcileSound,
       Settled, key
<1> QED
    BY <1>1, <1>2, <1>3, <1>4, <1>5, <1>6, <1>7, <1>8, <1>9, <1>10 DEF Next, OpStep

\* The inductive invariant holds in every state of every instance.
THEOREM Inductive == Spec => []IInv
BY InitSound, NextSound, PTL DEF Spec

\* Every variable has its type, and routing only selects stored deployments.
THEOREM TypeCorrect == Spec => []TypeOK
<1>1. IInv => TypeOK
    BY DEF IInv, RecordsSound
<1> QED
    BY <1>1, Inductive, PTL

\* The durable records never claim what is not so: an acknowledged generation is the one
\* a running runtime serves, what was rolled back is not reported as applied, and a vars
\* update left exactly what it reports, whatever call failed and wherever a crash hit.
THEOREM Truthful == Spec => []RecordsTruthful
<1>1. IInv => RecordsTruthful
    BY PublicationAssumption
    DEF IInv, RecordsSound, RecordsTruthful, RolledBackNotReported, PublicationsSound,
           VarsSound
<1> QED
    BY <1>1, Inductive, PTL

\* Steps that save no stage.
LEMMA StageKept ==
    ASSUME Next
    PROVE  \/ pub' = pub
           \/ \E k \in Deploys : BeginDeploy(k)
           \/ SaveStored \/ FailBuild \/ FailPrepare \/ SaveReady \/ SaveActivating
           \/ SavePublished \/ SaveRollback \/ SaveFailed \/ Supersede
<1>1. CASE VarsStep
    BY <1>1
    DEF VarsStep, VarsPublish, VarsIntent, VarsRestore, VarsDelete, VarsWrite, VarsFail,
       VarsRepublish, VarsSucceed, VarsStuck, WritePublication, FinishVarsUpdate,
       SetActiveTraffic
<1>2. CASE OperatorStep
    BY <1>2 DEF OperatorStep, OpValidate, OpUndo, OpWrite, OpRestore, OpRewrite,
       WritePublication, SetActiveTraffic
<1>3. CASE ReconcileStep
    BY <1>3 DEF ReconcileStep, Scan, ScanVars, FinalWrite, WritePublication
<1>4. CASE Build \/ Prepare \/ Activate \/ Commit \/ Restore \/ Republish \/ RepublishTarget
    BY <1>4 DEF Build, Prepare, Activate, Commit, Restore, Republish, RepublishTarget,
       WritePublication, SetActiveTraffic
<1>5. CASE \/ \E k \in Deploys : RetryDeploy(k)
           \/ \E v \in VarsKeys : BeginVars(v) \/ RetryVars(v)
           \/ \E T \in SUBSET Deployments : SetTraffic(T)
           \/ StartBoot \/ StartRepair \/ Crash \/ RunnerRestart
    BY <1>5 DEF RetryDeploy, BeginVars, RetryVars, SetTraffic, SetActiveTraffic, StartBoot,
       StartRepair, Crash, RunnerRestart
<1> QED
    BY <1>1, <1>2, <1>3, <1>4, <1>5 DEF Next, OpStep, DeployStep

\* A step that records an outcome finds traffic where the outcome needs it.
LEMMA StageStep ==
    ASSUME IInv, [Next]_vars, NEW k \in Deploys
    PROVE  /\ pub[k].stage # "route_published" /\ pub'[k].stage = "route_published"
                 => traffic = {k} /\ acked /\ runtime \in {{k}, Lost}
           /\ pub[k].stage \notin {"building", "failed"} /\ pub'[k].stage = "failed"
                 => k \notin traffic
<1>1. CASE pub' = pub
    BY <1>1
<1>2. CASE \E d \in Deploys : BeginDeploy(d) BY <1>2 DEF BeginDeploy, IInv, RecordsSound, TypeOK
<1>3. ASSUME NEW s \in Stages, key \in Deploys, pub' \in {pub, [pub EXCEPT ![key].stage = s]}
      PROVE  pub'[k].stage # pub[k].stage => k = key /\ pub'[k].stage = s
    BY <1>3, SavedStage DEF IInv, RecordsSound
<1>4. op.pc \in DeployPCs => key \in Deploys
    BY DEF IInv, OpSound, DeployOpSound
<1>5. CASE SaveStored \/ SaveReady \/ SaveActivating \/ SaveRollback \/ Supersede
  <2>1. PICK s \in {"stored", "runtime_ready", "activating", "rolling_back", "superseded"} :
             pub' \in {pub, [pub EXCEPT ![key].stage = s]}
    BY <1>5 DEF SaveStored, SaveReady, SaveActivating, SaveRollback, Supersede, SavePublication
  <2>2. key \in Deploys /\ s \in Stages
    BY <1>4, <1>5 DEF SaveStored, SaveReady, SaveActivating, SaveRollback, Supersede, At,
       DeployPCs, Stages, Terminal
  <2> QED
    BY <1>3, <2>1, <2>2
<1>6. CASE SavePublished
  <2>1. /\ key \in Deploys /\ traffic = {key} /\ acked /\ "route_published" \in Stages
        /\ AckedMeansServed
    BY <1>4, <1>6
    DEF SavePublished, At, IInv, RecordsSound, OpSound, DeployOpSound, DeployPCs, Stages,
       Terminal
  <2>2. pub' \in {pub, [pub EXCEPT ![key].stage = "route_published"]}
    BY <1>6 DEF SavePublished, SavePublication
  <2> QED
    BY <1>3, <2>1, <2>2 DEF AckedMeansServed
<1>7. CASE FailPrepare \/ SaveFailed
  <2>1. /\ key \in Deploys /\ key \notin traffic /\ "failed" \in Stages
    BY <1>4, <1>7
    DEF FailPrepare, SaveFailed, At, IInv, RecordsSound, OpSound, DeployOpSound, DeployPCs,
       PublicationsSound, Stages, Terminal
  <2>2. pub' \in {pub, [pub EXCEPT ![key].stage = "failed"]}
    BY <1>7 DEF FailPrepare, SaveFailed, SavePublication
  <2> QED
    BY <1>3, <2>1, <2>2
<1>8. CASE FailBuild
  <2>1. /\ key \in Deploys /\ pub[key].stage \in {"building", "stored"}
        /\ {"failed", "stored"} \subseteq Stages
    BY <1>4, <1>8 DEF FailBuild, At, IInv, OpSound, DeployOpSound, DeployPCs, Stages, Terminal
  <2>2. \/ pub' \in {pub, [pub EXCEPT ![key].stage = "failed"]} /\ pub[key].stage = "building"
        \/ pub' \in {pub, [pub EXCEPT ![key].stage = "stored"]}
    BY <1>8, <2>1 DEF FailBuild, SavePublication
  <2> QED
    BY <1>3, <2>1, <2>2
<1> QED
    BY <1>1, <1>2, <1>5, <1>6, <1>7, <1>8, StageKept DEF vars

\* route_published is only recorded while the revision has all traffic and its generation is
\* acknowledged; failed, past the build, only while the revision has none.
THEOREM StagesProved == Spec => StagesTruthful
<1>1. IInv /\ [Next]_vars =>
        [\A k \in Deploys :
          /\ pub[k].stage # "route_published" /\ pub'[k].stage = "route_published"
                => traffic = {k} /\ acked /\ runtime \in {{k}, Lost}
          /\ pub[k].stage \notin {"building", "failed"} /\ pub'[k].stage = "failed"
                => k \notin traffic]_vars
    BY StageStep
<1> QED
    BY <1>1, Inductive, PTL DEF Spec, StagesTruthful

\* Only the end of reconciliation opens the public listener.
LEMMA OpensAtEnd ==
    ASSUME Next, ~up, up'
    PROVE  FinalWrite
<1>1. CASE VarsStep
    BY <1>1
    DEF VarsStep, VarsPublish, VarsIntent, VarsRestore, VarsDelete, VarsWrite, VarsFail,
       VarsRepublish, VarsSucceed, VarsStuck, FinishVarsUpdate, SetActiveTraffic
<1>2. CASE OperatorStep
    BY <1>2
    DEF OperatorStep, OpValidate, OpUndo, OpWrite, OpRestore, OpRewrite, SetActiveTraffic
<1>3. CASE Scan \/ ScanVars
    BY <1>3 DEF Scan, ScanVars
<1>4. CASE DeployStep
    BY <1>4 DEF DeployStep, Build, SaveStored, FailBuild, Prepare, FailPrepare, SaveReady,
       SaveActivating, Activate, Commit, SavePublished, SaveRollback, Restore, Republish,
       SaveFailed, Supersede, RepublishTarget, SavePublication, SetActiveTraffic
<1>5. CASE \/ \E k \in Deploys : BeginDeploy(k) \/ RetryDeploy(k)
           \/ \E v \in VarsKeys : BeginVars(v) \/ RetryVars(v)
           \/ \E T \in SUBSET Deployments : SetTraffic(T)
           \/ StartBoot \/ StartRepair \/ Crash \/ RunnerRestart
    BY <1>5 DEF BeginDeploy, RetryDeploy, BeginVars, RetryVars, SetTraffic, StartBoot,
       StartRepair, Crash, RunnerRestart
<1> QED
    BY <1>1, <1>2, <1>3, <1>4, <1>5 DEF Next, OpStep, ReconcileStep

\* When the public listener opens, every record of every publication and vars update is
\* settled and the runtime serves current routing.
THEOREM BootSettled == Spec => BootSettles
<1>1. IInv /\ [Next]_vars =>
        [~up /\ up' =>
          /\ acked' /\ runtime' = traffic'
          /\ \A k \in Deploys : pub[k].stage \in Terminal \cup {"none", "building"}
          /\ \A v \in VarsKeys : varsOps[v].status \in {"none", "succeeded", "failed"}]_vars
  <2> SUFFICES ASSUME IInv, Next, ~up, up'
               PROVE  /\ acked' /\ runtime' = traffic'
                      /\ \A k \in Deploys : Settled(k)
                      /\ \A v \in VarsKeys : varsOps[v].status \in {"none", "succeeded", "failed"}
    BY DEF Settled, vars
  <2>1. FinalWrite
    BY OpensAtEnd
  <2>2. acked' /\ runtime' = traffic'
    BY <2>1 DEF FinalWrite, WritePublication
  <2>3. op.pc = "finalWrite" /\ op.by \in {"boot", "repair"}
    BY <2>1 DEF FinalWrite, At, IInv, OpSound, ReconcileSound, ReconcilePCs
  <2> QED
    BY <2>2, <2>3 DEF IInv, OpSound, ReconcileSound
<1> QED
    BY <1>1, Inductive, PTL DEF Spec, BootSettles

\* A publication, first run or replay, only replaces the traffic it found or set itself.
THEOREM ReplayProved == Spec => ReplayRespectsTraffic
<1>1. IInv /\ [Next]_vars =>
        [(At("activate") \/ At("restore")) /\ traffic' # traffic
          => traffic \in {{key}, pub[key].previous}]_vars
    BY DEF At, IInv, OpSound, DeployOpSound
<1> QED
    BY <1>1, Inductive, PTL DEF Spec, ReplayRespectsTraffic

=============================================================================
