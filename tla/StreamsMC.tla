----------------------------- MODULE StreamsMC -----------------------------
(* Instances of Streams: tasks are model values, ids and descriptors       *)
(* numbers.                                                                *)
EXTENDS Streams, TLC

CONSTANTS t1, t2

MCTasks == {t1, t2}
MCIds == 0 .. 2
\* A server, a client, an application of datagrams and one of files.
MCApps ==
  { [kinds |-> {"stream"},
     calls |-> t1 :> {"open", "bind", "accept"} @@ t2 :> {"accept", "close"}],
    [kinds |-> {"stream"},
     calls |-> t1 :> {"open", "listen"} @@ t2 :> {"bind", "connect"}],
    [kinds |-> {"datagram"},
     calls |-> t1 :> {"open", "connect", "recv"} @@ t2 :> {"bindaddr", "bind", "send"}],
    [kinds |-> {"file"},
     calls |-> t1 :> {"open", "close", "read"} @@ t2 :> {"listen", "closeall"}] }
MCFds == 3 .. 4
=============================================================================
