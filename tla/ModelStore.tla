----------------------------- MODULE ModelStore -----------------------------
(***************************************************************************)
(* ml/ce_forecaster.py trains a model per DIMM and saves it as three       *)
(* files; ml/probability_exporter.py reads them, without a lock, and       *)
(* publishes the forecast.  The files of one series, each the version of   *)
(* the training that wrote it.                                             *)
(***************************************************************************)
EXTENDS Integers, Sequences

CONSTANTS
  MaxTrain     \* bound: trainings

ASSUME MlAssumption == MaxTrain \in Nat \ {0}

VARIABLES
  mlFile,      \* "pkl", "sha" and "json": Absent, MlTorn or a version
  mlFcPc,      \* forecaster: "idle", "fit", "open" or "write"
  mlStep,      \* forecaster: place in SaveOrder
  mlTrained,   \* trainings begun; the last is the version being saved
  mlExPc,      \* exporter: "idle", "sha", "hash", "load" or "emit"
  mlEntry,     \* exporter: version of the metadata it loaded
  mlExpected,  \* exporter: the digest it read
  mlForecast,  \* exporter: version of the model it forecast with, or 0
  mlProm       \* the .prom file: metadata and forecast, by version

mlForecaster == <<mlFcPc, mlStep, mlTrained>>
mlExporter == <<mlExPc, mlEntry, mlExpected, mlForecast, mlProm>>
mlVars == <<mlFile, mlForecaster, mlExporter>>

-----------------------------------------------------------------------------
Absent == 0
MlTorn == -1
MlEmpty == [entry |-> Absent, forecast |-> 0]

MlInit ==
  /\ mlFile = [f \in {"pkl", "sha", "json"} |-> Absent]
  /\ mlFcPc = "idle" /\ mlStep = 1 /\ mlTrained = 0
  /\ mlExPc = "idle" /\ mlEntry = Absent /\ mlExpected = Absent
  /\ mlForecast = 0 /\ mlProm = MlEmpty

-----------------------------------------------------------------------------
(***************************************************************************)
(* The forecaster                                                          *)
(***************************************************************************)

\* Prometheus answers; if it does not, the program ends and saves nothing.
fetch_series ==
  /\ mlFcPc = "idle" /\ mlTrained < MaxTrain
  /\ mlFcPc' = "fit" /\ mlTrained' = mlTrained + 1 /\ mlStep' = 1
  /\ UNCHANGED <<mlFile, mlExporter>>

\* The series has enough points and Prophet copes with it.
fit_model ==
  /\ mlFcPc = "fit"
  /\ mlFcPc' = "open"
  /\ UNCHANGED <<mlFile, mlStep, mlTrained, mlExporter>>

\* Mutant: the metadata is written first.
SaveMetadataFirst == <<"json", "pkl", "sha">>

\* Mutant: the digest is not written.
SaveUnsigned == <<"pkl", "json">>

\* The order in which save_model writes its files.
SaveOrder == <<"pkl", "sha", "json">>

\* save_model opens the next file, which truncates it ...
MlOpen ==
  /\ mlFcPc = "open"
  /\ mlFcPc' = "write"
  /\ mlFile' = [mlFile EXCEPT ![SaveOrder[mlStep]] = MlTorn]
  /\ UNCHANGED <<mlStep, mlTrained, mlExporter>>

\* ... and writes it.
MlWrite ==
  /\ mlFcPc = "write"
  /\ mlFile' = [mlFile EXCEPT ![SaveOrder[mlStep]] = mlTrained]
  /\ IF mlStep = Len(SaveOrder)
     THEN mlFcPc' = "idle" /\ UNCHANGED mlStep
     ELSE mlFcPc' = "open" /\ mlStep' = mlStep + 1
  /\ UNCHANGED <<mlTrained, mlExporter>>

\* The series is skipped, the fit or a write raises, which main logs, or
\* the program is killed: the files stay as they are.
MlAbandon ==
  /\ mlFcPc # "idle"
  /\ mlFcPc' = "idle"
  /\ UNCHANGED <<mlFile, mlStep, mlTrained, mlExporter>>

-----------------------------------------------------------------------------
(***************************************************************************)
(* The exporter                                                            *)
(***************************************************************************)

\* json.loads raises on a torn file: the program ends, the .prom file stays.
MetadataTorn ==
  /\ mlExPc = "idle" /\ mlFile["json"] = MlTorn
  /\ UNCHANGED mlVars

\* With no metadata, or no directory, the output has no series.
load_metadata ==
  /\ mlExPc = "idle" /\ mlFile["json"] # MlTorn
  /\ mlEntry' = mlFile["json"]
  /\ mlExPc' = IF mlEntry' = Absent THEN "emit" ELSE "sha"
  /\ mlForecast' = 0 /\ mlExpected' = Absent
  /\ UNCHANGED <<mlFile, mlForecaster, mlProm>>

\* forecast_next_24h: no sidecar, no forecast.
ReadDigest ==
  /\ mlExPc = "sha"
  /\ mlExpected' = mlFile["sha"]
  /\ mlExPc' = IF mlFile["sha"] = Absent THEN "emit" ELSE "hash"
  /\ UNCHANGED <<mlFile, mlForecaster, mlEntry, mlForecast, mlProm>>

\* The file is read to compare digests ...
HashModel ==
  /\ mlExPc = "hash"
  /\ mlExPc' = IF mlFile["pkl"] = mlExpected /\ mlExpected # MlTorn
               THEN "load" ELSE "emit"
  /\ UNCHANGED <<mlFile, mlForecaster, mlEntry, mlExpected, mlForecast, mlProm>>

\* ... and read again to load it; whatever is raised, the forecast is 0.
LoadModel ==
  /\ mlExPc = "load"
  /\ mlForecast' = IF mlFile["pkl"] = MlTorn THEN 0 ELSE mlFile["pkl"]
  /\ mlExPc' = "emit"
  /\ UNCHANGED <<mlFile, mlForecaster, mlEntry, mlExpected, mlProm>>

\* emit_metrics and the write of the .prom file.
emit_metrics ==
  /\ mlExPc = "emit"
  /\ mlProm' = [entry |-> mlEntry, forecast |-> mlForecast]
  /\ mlExPc' = "idle"
  /\ UNCHANGED <<mlFile, mlForecaster, mlEntry, mlExpected, mlForecast>>

\* The exporter is killed, perhaps with the .prom file just truncated.
MlExporterDies ==
  /\ mlExPc # "idle"
  /\ mlExPc' = "idle"
  /\ \/ UNCHANGED mlProm
     \/ mlExPc = "emit" /\ mlProm' = MlEmpty
  /\ UNCHANGED <<mlFile, mlForecaster, mlEntry, mlExpected, mlForecast>>

MlForecasterStep == fetch_series \/ fit_model \/ MlOpen \/ MlWrite
MlExporterStep ==
  load_metadata \/ ReadDigest \/ HashModel \/ LoadModel \/ emit_metrics

MlNext ==
  MlForecasterStep \/ MlAbandon \/ MlExporterStep \/ MetadataTorn \/ MlExporterDies

\* Both programs are started again and again by their timers, and a run of
\* the exporter is not killed at the same point every time.
MlSpec ==
  /\ MlInit /\ [][MlNext]_mlVars
  /\ WF_mlVars(MlForecasterStep)
  /\ WF_mlVars(load_metadata) /\ SF_mlVars(ReadDigest) /\ SF_mlVars(HashModel)
  /\ SF_mlVars(LoadModel) /\ SF_mlVars(emit_metrics)

-----------------------------------------------------------------------------
\* Every variable has its type.
MlTypeOK ==
  /\ mlFile \in [{"pkl", "sha", "json"} -> MlTorn..MaxTrain]
  /\ mlFcPc \in {"idle", "fit", "open", "write"}
  /\ mlStep \in 1..Len(SaveOrder) /\ mlTrained \in 0..MaxTrain
  /\ mlExPc \in {"idle", "sha", "hash", "load", "emit"}
  /\ mlEntry \in 0..MaxTrain /\ mlExpected \in MlTorn..MaxTrain
  /\ mlForecast \in 0..MaxTrain
  /\ mlProm \in [entry : 0..MaxTrain, forecast : 0..MaxTrain]

\* A forecast is never from an older model than the metadata published with
\* it: it is missing (0) rather than stale, however the two programs
\* interleave and wherever a training was cut short.
MlForecastNotOlder ==
  mlProm.forecast # 0 => mlProm.forecast >= mlProm.entry

\* Once the last training has been saved whole, its forecast is published,
\* although earlier trainings left torn or mismatched files.
MlConverges ==
  (mlTrained = MaxTrain /\ mlFcPc = "idle" /\ mlFile["json"] = MaxTrain)
    ~> (mlProm = [entry |-> MaxTrain, forecast |-> MaxTrain])
=============================================================================
