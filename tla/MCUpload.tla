------------------------------ MODULE MCUpload ------------------------------
(***************************************************************************)
(* Instances of Upload for TLC: one call with two files, and a second call *)
(* (a retry, another client) that uploads a file of the same name as one   *)
(* of them.                                                                *)
(***************************************************************************)
EXTENDS Upload, TLC

CONSTANTS f1, f2, f3, c1, c2, n1, n2

MCNameOf == (f1 :> n1) @@ (f2 :> n2) @@ (f3 :> n1)
MCCallOf == (f1 :> c1) @@ (f2 :> c1) @@ (f3 :> c2)

\* One file, one call.
MCNameOf1 == (f1 :> n1)
MCCallOf1 == (f1 :> c1)
=============================================================================
