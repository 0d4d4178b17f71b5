------------------------------ MODULE MCRunner ------------------------------
(***************************************************************************)
(* The runner: publication and recovery of the dynamic manager, the life of*)
(* its invocations, and the static manager.  The three share no variable   *)
(* and never call each other, so one run explores them one at a time: the  *)
(* part is chosen initially.                                               *)
(***************************************************************************)
EXTENDS MCRuntime, InvocationLifetime, LegacyManager, TLC

VARIABLE part

RunnerInit ==
    /\ part \in {"publication", "invocation", "legacy"}
    /\ RuntimeInit /\ InvocationInit /\ LegacyInit
    /\ part # "publication" => left = [ops |-> 1, faults |-> 2]

InPart(name, A, others) == part = name /\ A /\ UNCHANGED <<part, others>>

RunnerNext ==
    \/ InPart("publication", RuntimeNext, <<invocationVars, legacyVars>>)
    \/ InPart("invocation", InvocationNext, <<runtimeVars, legacyVars>>)
    \/ InPart("legacy", LegacyNext, <<runtimeVars, invocationVars>>)

RunnerProgress ==
    \/ InPart("publication", RuntimeProgress, <<invocationVars, legacyVars>>)
    \/ InPart("invocation", InvocationProgress, <<runtimeVars, legacyVars>>)
    \/ InPart("legacy", LegacyProgress, <<runtimeVars, invocationVars>>)

runnerVars == <<part, runtimeVars, invocationVars, legacyVars>>

RunnerSpec == RunnerInit /\ [][RunnerNext]_runnerVars /\ WF_runnerVars(RunnerProgress)
=============================================================================
