----------------------------- MODULE MCModFiles -----------------------------
(* Modules a, b, a::a and a::b: one that is both a file and a directory,    *)
(* two in the same directory, and the same name on two levels.              *)
EXTENDS ModFiles

MCPaths == { <<"a">>, <<"b">>, <<"a", "a">>, <<"a", "b">> }
MCJobs == [path : MCPaths, noOutput : BOOLEAN]
MCGiven == { <<>>, <<"a">> }
=============================================================================
