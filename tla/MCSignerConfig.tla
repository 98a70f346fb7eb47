--------------------------- MODULE MCSignerConfig ---------------------------
(* An instance of SignerConfig: one pattern, two issuers of which one has  *)
(* a groups claim, and the configurations an operator saves: one that      *)
(* changes the issuer, one that drops gating, one that does not compile.   *)
EXTENDS SignerConfig

CONSTANTS p, root, idp, plain, s1

Base == [allow |-> {p}, mode |-> "allowlist", other |-> TRUE, gated |-> TRUE,
         oidc |-> idp, admins |-> {root}, compiles |-> TRUE]
Plain == [Base EXCEPT !.oidc = plain]
Ungated == [Base EXCEPT !.gated = FALSE, !.oidc = NoOidc, !.admins = {}]
Bad == [Base EXCEPT !.compiles = FALSE]

MCBoots == {Base}
MCSaves == {Plain, Ungated, Bad}
=============================================================================
