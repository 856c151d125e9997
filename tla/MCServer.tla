------------------------------ MODULE MCServer ------------------------------
(* Instances of Server for TLC: a machine with three CPUs, and a process    *)
(* confined to CPUs that do not include CPU 0.                              *)
EXTENDS Server, TLC

ThreeCpus == {0, 1, 2}
NotCpu0   == {1, 2}

MCNumeral == "0" :> 0 @@ "3" :> 3 @@ "65536" :> 65536
MCIpv4    == {"0.0.0.0"}

Words == {"--host", "--port", "--workers", "--mode", "--no-io-uring", "--help",
          "0.0.0.0", "0", "3", "65536", "dynamic-path"}

NoWords      == {<<>>}
FourWords    ==      \* without the command lines that ask for 65536 threads
    {line \in UNION {[1..n -> Words] : n \in 0..4} :
        \A i \in DOMAIN line : line[i] = "65536" => i > 1 /\ line[i - 1] # "--workers"}
=============================================================================
