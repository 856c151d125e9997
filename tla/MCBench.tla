------------------------------ MODULE MCBench ------------------------------
(* An instance of Bench for TLC. *)
EXTENDS Bench, TLC

MCNumeral == "0" :> 0 @@ "1" :> 1 @@ "2" :> 2 @@ "3" :> 3 @@ "10240" :> 10240 @@ "70000" :> 70000

(* Nothing to do, twice; and small loads, one of them with requests that   *)
(* the server reads in two pieces.                                         *)
CommandLines ==
    {<<"-h">>, <<"-c", "0">>,
     <<"-c", "2", "-n", "1", "-p", "10240">>,
     <<"-c", "2", "--port", "70000", "-n", "1">>,
     <<"-n", "3", "--connections", "1", "-p">>}
=============================================================================
