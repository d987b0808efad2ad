---------------------------- MODULE MCTestRunner ----------------------------
(* Instance of TestRunner for TLC: the lists of two different tests, of one *)
(* name, and the empty one.                                                 *)
EXTENDS TestRunner

MCTestsLen == 4
MCUnknown == 9
MCDepLists ==
    {<<>>} \union {<<d>> : d \in 1 .. MCTestsLen \union {MCUnknown}}
           \union {s \in (1 .. MCTestsLen) \X (1 .. MCTestsLen) : s[1] # s[2]}
=============================================================================
