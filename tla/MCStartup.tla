------------------------------ MODULE MCStartup -----------------------------
(***************************************************************************)
(* Instances of Startup for TLC.  Each choice of the configuration that    *)
(* start-up looks at occurs; the choices are independent of each other, so *)
(* not all combinations are needed.                                        *)
(***************************************************************************)
EXTENDS Startup

CONSTANTS p1, p2

Conf(db, storage, pipeline, mode, same) ==
    [DBType |-> db, StorageType |-> storage, PipelineType |-> pipeline,
     ServerMode |-> mode, samePort |-> same]

MCConfigs == {Conf("SQL", "GCS", "GCP", "BOTH", FALSE),
              Conf("SQL", "LOCAL", "GRPC", "OTHER", FALSE),
              Conf("SQL", "S3", "HTTP", "HTTP", FALSE),
              Conf("INMEMORY", "LOCAL", "REDIS", "GRPC", TRUE),
              Conf("INMEMORY", "LOCAL", "GRPC", "HTTP", FALSE),
              Conf("INMEMORY", "LOCAL", "HTTP", "BOTH", TRUE)}

\* The configuration of docker-compose.yml.
ComposeConfigs == {Conf("SQL", "LOCAL", "GRPC", "HTTP", FALSE)}
=============================================================================
