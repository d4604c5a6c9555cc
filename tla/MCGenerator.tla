---------------------------- MODULE MCGenerator ----------------------------
(* Two targets, one of them with a plan that a version of the generator    *)
(* refuses, and a file that is no longer generated.                        *)
EXTENDS Generator

MCTargets == <<"scalar.rs", "avx2.rs">>
MCRefused(v) == IF v = "v2" THEN {"avx2.rs"} ELSE {}
=============================================================================
