----------------------------- MODULE MCPipeline -----------------------------
(***************************************************************************)
(* An instance of Pipeline for TLC: two notifications, whose clients may   *)
(* send no trace id, one and the same, one with blanks around it, nothing  *)
(* but blanks, or the id the other request was given; and no tenant.       *)
(***************************************************************************)
EXTENDS Pipeline, TLC

CONSTANTS n1, n2, t, padded, blanks

MCNameOf == [f \in Files |-> f]
MCStrip == (t :> t) @@ (padded :> t) @@ (blanks :> Blank)
=============================================================================
