------------------------------ MODULE MCBlake3 ------------------------------
(***************************************************************************)
(* Blake3 for TLC: the machines the program is built for with cgo.  On     *)
(* amd64 every x86 kernel is turned off (src/blake3c/blake3c.go:7), though *)
(* the arrays are as large as for the widest of them.                      *)
(***************************************************************************)
EXTENDS Blake3

amd64 == [x86 |-> TRUE, neon |-> FALSE,
          features |-> {"SSE2", "SSE41", "AVX2", "AVX512F", "AVX512VL"},
          no |-> {"SSE2", "SSE41", "AVX2", "AVX512"}]
arm64 == [x86 |-> FALSE, neon |-> TRUE, features |-> {}, no |-> {}]

MCMachines == {amd64, arm64}
=============================================================================
