------------------------------ MODULE TasksMC ------------------------------
(* Instances of Tasks.                                                     *)
EXTENDS Tasks, TLC

MCIds == 0 .. 2
MCActors == MCIds \cup {Main}

\* Workers that Main deletes all together, and tasks that are deleted one by
\* one, by Main, by each other and by themselves.
MCApps ==
  { [ids |-> 0 .. 1, kinds |-> AllKinds, main |-> {"create", "delete_all"},
     task |-> {"sync", "exit"}],
    [ids |-> MCIds, kinds |-> {"countsem"}, main |-> {"create", "delete"},
     task |-> {"exit", "install"}],
    [ids |-> MCIds, kinds |-> {"countsem"}, main |-> {"create"},
     task |-> {"exit", "delete", "delete_self"}] }
=============================================================================
