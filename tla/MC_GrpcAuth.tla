----------------------------- MODULE MC_GrpcAuth -----------------------------
(* Two calls, two tokens, three methods: one requiring a two-part scope,   *)
(* one a three-part scope, one skipped.  Token t1 holds "orders:*" and     *)
(* expires at minute 1; t2 holds "*" and outlives the run.                *)
EXTENDS GrpcAuth, TLC

CONSTANTS r1, r2, t1, t2, m1, m2, m3

MCScopeMap == (m1 :> <<"orders", "read">>) @@ (m2 :> <<"orders", "items", "read">>)
              @@ (m3 :> NoScope)
MCTokenScopes == (t1 :> {<<"orders", "*">>}) @@ (t2 :> {<<"*">>})
MCTokenExpiry == (t1 :> 1) @@ (t2 :> 3)
=============================================================================
