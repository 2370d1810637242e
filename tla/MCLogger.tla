----------------------------- MODULE MCLogger -------------------------------
(***************************************************************************)
(* Instances of Logger for TLC.                                            *)
(***************************************************************************)
EXTENDS Logger

CONSTANTS k1, k2, v1, v2

Commands == {Set(k1, v1), Set(k1, v2), Set(k2, v1), Get(k1),
             Del(<<k1>>), Del(<<k1, k2>>), Del(<<k2, k1, k2>>)}
=============================================================================
