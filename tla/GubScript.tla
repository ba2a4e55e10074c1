----------------------------- MODULE GubScript ------------------------------
(***************************************************************************)
(* What the scripts of Unity that own a GUBPipeline have in common: the    *)
(* state a component keeps about its pipeline and what it tells the        *)
(* application (GstUnityBridgeTexture.cs, GstUnityBridgeCapture.cs,        *)
(* EventProcessor.cs).                                                     *)
(***************************************************************************)
EXTENDS GubPipeline

CONSTANT Components     \* which of the components are looked at

ASSUME ComponentAssumption == Components \subseteq {"texture", "capture"}

VARIABLES
    component,  \* the component at hand
    script,     \* "new", "live" once initialised, "waiting" in Destroy, "gone"
    queued,     \* m_queuedEvents of the EventProcessor
    told        \* history: reports the application was told, in order

scriptVars == <<component, script, queued, told>>

loopThread == <<mpc, msg>>

ScriptTypeOK ==
    /\ component \in Components
    /\ script \in {"new", "live", "waiting", "gone"}
    /\ queued \in Seq(Reports)
    /\ told \in Seq(Reports)

ScriptInit ==
    /\ component \in Components
    /\ script = "new"
    /\ queued = <<>>
    /\ told = <<>>
=============================================================================
