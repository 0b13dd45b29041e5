---------------------------- MODULE MCAuthSession ----------------------------
(* Small instances of AuthSession: how many requests each tab sends.          *)
EXTENDS AuthSession

CONSTANTS t1, t2

OneEach   == {<<t1, 1>>, <<t2, 1>>}
TwoAndOne == {<<t1, 1>>, <<t1, 2>>, <<t2, 1>>}
=============================================================================
