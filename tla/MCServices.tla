----------------------------- MODULE MCServices -----------------------------
(***************************************************************************)
(* Components that share no state, checked in one run: the initial state   *)
(* picks the one in focus, and the others rest in an initial state.        *)
(***************************************************************************)
EXTENDS MCEgressBudget, MCRunControl, Artifacts, FairDispatch, Capture, Containers

VARIABLE focus   \* the component that takes steps

servicesVars == <<focus, egressVars, controlVars, artifactsVars, dispatchVars, captureVars, containersVars>>

ServicesInit ==
    /\ focus \in {"egress", "control", "artifacts", "dispatch", "capture", "containers"}
    /\ EgressInit
    /\ ControlInit
    /\ ArtifactsInit
    /\ DispatchInit
    /\ CaptureInit
    /\ ContainersInit
    /\ release => focus = "control"
    /\ ~durable => focus = "dispatch"
    /\ target = "command" => focus = "capture"

ServicesNext ==
    /\ UNCHANGED focus
    /\ \/ focus = "egress" /\ EgressNext
          /\ UNCHANGED <<controlVars, artifactsVars, dispatchVars, captureVars, containersVars>>
       \/ focus = "control" /\ ControlNext
          /\ UNCHANGED <<egressVars, artifactsVars, dispatchVars, captureVars, containersVars>>
       \/ focus = "artifacts" /\ ArtifactsNext
          /\ UNCHANGED <<egressVars, controlVars, dispatchVars, captureVars, containersVars>>
       \/ focus = "dispatch" /\ DispatchNext
          /\ UNCHANGED <<egressVars, controlVars, artifactsVars, captureVars, containersVars>>
       \/ focus = "capture" /\ CaptureNext
          /\ UNCHANGED <<egressVars, controlVars, artifactsVars, dispatchVars, containersVars>>
       \/ focus = "containers" /\ ContainersNext
          /\ UNCHANGED <<egressVars, controlVars, artifactsVars, dispatchVars, captureVars>>

ServicesSpec == ServicesInit /\ [][ServicesNext]_servicesVars
=============================================================================
