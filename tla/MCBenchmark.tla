----------------------------- MODULE MCBenchmark -----------------------------
(* A small instance of Benchmark for TLC. *)
EXTENDS Benchmark

TwoWorkers == <<2>>
Both == <<"uncached", "cached">>
=============================================================================
