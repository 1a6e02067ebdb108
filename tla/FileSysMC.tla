----------------------------- MODULE FileSysMC -----------------------------
(* Instances of FileSys for TLC.                                           *)
EXTENDS FileSys

MCIds == 0 .. 2
MCDisks == { [dev |-> <<"r">>, vol |-> <<"v">>, ram |-> TRUE],
             [dev |-> <<"h">>, vol |-> <<"w">>, ram |-> FALSE] }
MCMaps == { [phys |-> <<"/", "d">>, virt |-> <<"/", "a">>] }
MCMountPoints == { <<"/", "a">>, <<"/", "a", "b">> }
\* "/a/b", "/ab" and "/a/.."
MCPaths == { <<"/", "a", "/", "b">>, <<"/", "a", "b">>, <<"/", "a", "/", ".", ".">> }
=============================================================================
