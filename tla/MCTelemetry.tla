---------------------------- MODULE MCTelemetry ----------------------------
(***************************************************************************)
(* The programs that observe, predict and report, side by side.  They      *)
(* share no state, so a run explores one of them at a time: side says      *)
(* which, and the choices the others make at the start do not matter.      *)
(***************************************************************************)
EXTENDS SelPoller, RedfishPoller, EventCorrelation, AnnotationPusher,
        OobHeartbeat, ModelStore, HostTelemetry, RaplCollector, WearPredictor,
        TraceParser

VARIABLE side

\* The two sources of each cascade, an uncorrectable CXL error, whose line
\* matches two patterns, and a line without an event.
MCLine == {{"edac_ce"}, {"mce"}, {"pcie_aer_fatal"}, {"edac_ue"},
           {"cxl_ce", "cxl_ue"}, {}}

\* Every type, and a choice that leaves some out.
MCEventTypes == {Header, {"UE", "AER_CE"}}

Side == {"sel", "redfish", "correlation", "annotation", "heartbeat", "model",
         "host", "rapl", "wear", "trace"}

Init ==
  /\ side \in Side
  /\ SelInit /\ RfInit /\ CorrInit /\ AnnInit /\ OobInit /\ MlInit
  /\ HostInit /\ RaplInit /\ WearInit /\ TraceInit
  /\ side # "annotation" => annOnce
  /\ side # "heartbeat" => ceCount = [m \in Mc |-> 0]
  /\ side # "host" => collector = "nvme"
  /\ side # "rapl" => /\ energy = [p \in Package |-> 0]
                      /\ raplPkg = CHOOSE p \in Package : TRUE
  /\ side # "wear" => wearSeries = NVME_QUERY
  /\ side # "trace" => event_types = Header

selSide   == side = "sel" /\ SelNext
rfSide    == side = "redfish" /\ RfNext
corrSide  == side = "correlation" /\ CorrNext
annSide   == side = "annotation" /\ AnnNext
oobSide   == side = "heartbeat" /\ OobNext
mlSide    == side = "model" /\ MlNext
hostSide  == side = "host" /\ HostNext
raplSide  == side = "rapl" /\ RaplNext
wearSide  == side = "wear" /\ WearNext
traceSide == side = "trace" /\ TraceNext

telemetryVars == <<selVars, rfVars, corrVars, annVars, oobVars>>
analysisVars == <<mlVars, hostVars, raplVars, wearVars, traceVars>>
vars == <<telemetryVars, analysisVars, side>>

Next ==
  /\ UNCHANGED side
  /\ \/ /\ UNCHANGED analysisVars
        /\ \/ selSide /\ UNCHANGED <<rfVars, corrVars, annVars, oobVars>>
           \/ rfSide /\ UNCHANGED <<selVars, corrVars, annVars, oobVars>>
           \/ corrSide /\ UNCHANGED <<selVars, rfVars, annVars, oobVars>>
           \/ annSide /\ UNCHANGED <<selVars, rfVars, corrVars, oobVars>>
           \/ oobSide /\ UNCHANGED <<selVars, rfVars, corrVars, annVars>>
     \/ /\ UNCHANGED telemetryVars
        /\ \/ mlSide /\ UNCHANGED <<hostVars, raplVars, wearVars, traceVars>>
           \/ hostSide /\ UNCHANGED <<mlVars, raplVars, wearVars, traceVars>>
           \/ raplSide /\ UNCHANGED <<mlVars, hostVars, wearVars, traceVars>>
           \/ wearSide /\ UNCHANGED <<mlVars, hostVars, raplVars, traceVars>>
           \/ traceSide /\ UNCHANGED <<mlVars, hostVars, raplVars, wearVars>>

\* The fairness of the two ML programs, as in MlSpec.
OnModel(action) ==
  /\ side = "model" /\ action
  /\ UNCHANGED <<telemetryVars, hostVars, raplVars, wearVars, traceVars, side>>

FairSpec ==
  /\ Init /\ [][Next]_vars
  /\ WF_vars(OnModel(MlForecasterStep)) /\ WF_vars(OnModel(load_metadata))
  /\ SF_vars(OnModel(ReadDigest)) /\ SF_vars(OnModel(HashModel))
  /\ SF_vars(OnModel(LoadModel)) /\ SF_vars(OnModel(emit_metrics))
=============================================================================
