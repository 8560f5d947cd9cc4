----------------------------- MODULE MCPoolClient -----------------------------
(* Instances of PoolClient for TLC.                                        *)
EXTENDS PoolClient

One      == {1}
Two      == {1, 2}
AnyDies  == H
DataDies == D
=============================================================================
