---------------------------- MODULE MCHttpHandler ---------------------------
(***************************************************************************)
(* Instances of HttpHandler for TLC: two uploads of one name and one       *)
(* reader, whose pages hold one row or both.                               *)
(***************************************************************************)
EXTENDS HttpHandler, TLC

CONSTANTS f1, f2, c1, c2, n1, l1

MCNameOf == (f1 :> n1) @@ (f2 :> n1)
MCCallOf == (f1 :> c1) @@ (f2 :> c2)

\* The two uploads may be exchanged.
MCSwap == {(f1 :> f2) @@ (f2 :> f1) @@ (c1 :> c2) @@ (c2 :> c1)}

\* No filter, and the tag the client has sent with its upload.
MCFilters == {{}, {"client"}}

\* Below, at and above the bounds of the clamp.
MCLimits == {-1, 0, 3}
=============================================================================
