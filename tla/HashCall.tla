------------------------------ MODULE HashCall ------------------------------
(***************************************************************************)
(* hashFile for the algorithms whose code is in the repository: t1ha1,     *)
(* t1ha2, rapidhash and wyhash (src/main.go:402-503, src/t1ha,             *)
(* src/rapidhash, src/rapidhashc, src/wyhashc), and the other entry points *)
(* of the same libraries.                                                  *)
(*                                                                         *)
(* The file is in memory at an address.  A kernel cuts it into words: it   *)
(* runs a loop over blocks, then takes what is left by its length, and     *)
(* mixes every word into a lane of its state.  The model keeps which bytes *)
(* make up each word and which lane it goes to, in order: that is all that *)
(* the digest depends on, the arithmetic of the lanes being the same for   *)
(* all files.  Of that arithmetic only the product that a compiler may not *)
(* have is modelled, for words that may be any.                            *)
(***************************************************************************)
EXTENDS Words, Product, Sequences

CONSTANTS
    Calls,          \* what is called, on which machine, for which file
    Page,           \* PAGESIZE
    Pieces,         \* sizes of the pieces t1ha2_update is given
    Operands        \* words that may be multiplied

\* What the program is built for and runs on: whether the C sources are built,
\* whether products are one operation, whether RAPIDHASH_UNROLLED is defined,
\* and what the readers of words depend on.
Machine ==
    [cgo : BOOLEAN, wide : BOOLEAN, unrolled : BOOLEAN, oneshot : BOOLEAN,
     order : {"little", "big"}, access : {"unable", "slow", "efficient"}]

ASSUME CallsAssumption ==
    Calls \subseteq [entry : STRING, machine : Machine, len : Nat, addr : Nat]
ASSUME SizesAssumption ==
    /\ Page \in {8 * k : k \in 1 .. Page} /\ Page > 42      \* t1ha_bits.h:678
    /\ Pieces \subseteq Nat /\ Operands \subseteq Word

VARIABLES
    call,           \* one of Calls
    pc,             \* "open", "start", "loop", "tail", "mix", "done", "failed"
    at, rest,       \* the pointer into the file and what is left after it
    words,          \* the words so far, each with the lane it is mixed into
    memory,         \* the bytes that were loaded, kept or not
    mixed,          \* what is mixed in of the length
    buffer, partial,    \* t1ha_context_t of the streaming t1ha2
    product         \* a multiplication of the last mix, and its result

file == <<at, rest>>
input == <<words, memory>>
context == <<buffer, partial>>
vars == <<call, pc, file, input, mixed, context, product>>

machine == call.machine
len == call.len
addr == call.addr

-----------------------------------------------------------------------------
(* Which code computes an algorithm: hashFile and the wrappers, by the     *)
(* build tags "cgo && (amd64 || arm64)".                                   *)

RapidSum64 ==
    IF ~machine.cgo THEN "rapidhash_go" ELSE IF len = 0 THEN "zero" ELSE "rapidhash"
WySum64 ==
    IF ~machine.cgo THEN "zeebo_wyhash" ELSE IF len = 0 THEN "zero" ELSE "wyhash"
T1haSum64 == IF machine.cgo THEN "t1ha1_le" ELSE "dgryski_t1ha1"
T1haSum128 == IF machine.cgo THEN "t1ha2_atonce128" ELSE "dgryski_t1ha1_twice"

\* The other algorithms are left to libraries, which are given the file in
\* pieces; what is not an algorithm is the function of that name.
Streamed == {"md5", "sha1", "sha256", "blake2b", "blake3", "xxhash", "xxh3", "xxh128",
             "highway64", "highway128", "highway256"}

kernel ==
    CASE call.entry = "t1ha1" -> T1haSum64
      [] call.entry = "t1ha2" -> T1haSum128
      [] call.entry = "rapidhash" -> RapidSum64
      [] call.entry = "wyhash" -> WySum64
      [] call.entry \in Streamed -> "library"
      [] OTHER -> call.entry

T1ha1 == {"t1ha1_le", "t1ha1_be"}
T1ha2 == {"t1ha2_atonce", "t1ha2_atonce128"}
T1ha2Stream == {"t1ha2_stream", "t1ha2_stream128"}
Rapid == {"rapidhash", "rapidhashMicro", "rapidhashNano"}
Folded == Rapid \cup {"wyhash", "rapidhash_go"}
StandIns == {"dgryski_t1ha1", "dgryski_t1ha1_twice"}

Init ==
    /\ call \in Calls
    /\ pc = "open" /\ at = 0 /\ rest = len
    /\ words = <<>> /\ memory = {} /\ mixed = 0
    /\ buffer = [i \in 0 .. 31 |-> {-100}] /\ partial = 0   \* memory of no meaning
    /\ product = <<>>

Goto(label) == pc' = label /\ UNCHANGED call

\* os.Open and io.ReadAll: the file is in memory, or hashFile returns an error.
Open == pc = "open" /\ Goto("start") /\ UNCHANGED <<file, input, mixed, context, product>>
Fail == pc = "open" /\ Goto("failed") /\ UNCHANGED <<file, input, mixed, context, product>>

\* A digest that is a library's, or 0 for an empty file.
Elsewhere ==
    /\ pc = "start" /\ kernel \in {"library", "zeebo_wyhash", "zero"}
    /\ Goto("done") /\ UNCHANGED <<file, input, mixed, context, product>>

UnknownAlgorithm ==
    /\ pc = "start"
    /\ kernel \notin T1ha1 \cup T1ha2 \cup T1ha2Stream \cup Folded \cup StandIns
                     \cup {"library", "zeebo_wyhash", "zero"}
    /\ Goto("failed") /\ UNCHANGED <<file, input, mixed, context, product>>

Into(word, lane) == [word |-> word, lane |-> lane]

\* The kernel mixes in words that it made of the bytes loaded.
Take(new, loaded) == words' = words \o new /\ memory' = memory \cup loaded
=============================================================================
