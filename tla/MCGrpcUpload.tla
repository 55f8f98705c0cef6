---------------------------- MODULE MCGrpcUpload ----------------------------
(* Instances of GrpcUpload for TLC: one stream; the file's name plays no    *)
(* part.                                                                    *)
EXTENDS GrpcUpload, TLC

CONSTANTS f1, n1

MCNameOf == (f1 :> n1)
=============================================================================
