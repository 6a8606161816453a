------------------------------ MODULE MCMemory ------------------------------
(***************************************************************************)
(* The memory on ten bytes of one bit: images that fit, overlap, end in    *)
(* the middle of a pair or leave the memory, binaries shorter and longer   *)
(* than a word and than the memory, and calls at its start, across its end *)
(* and near the top of the addresses.                                      *)
(***************************************************************************)
EXTENDS MemoryLoop, Bitwise

MCByte == {0, 1}

word(a, b, c, d) == [Zeros EXCEPT ![0] = a, ![1] = b, ![2] = c, ![3] = d]
pair(a, w)       == [addr |-> a, word |-> w, complete |-> TRUE]
half(a)          == [addr |-> a, word |-> Zeros, complete |-> FALSE]

MCImages ==
  { NoFile, <<>>,
    <<pair(1, word(1, 0, 1, 1)), pair(3, word(0, 1, 0, 1))>>,
    <<pair(5, word(1, 1, 1, 1)), half(6)>>,
    <<pair(7, word(1, 1, 1, 1))>> }

MCFiles == { NoFile, <<1, 0, 1>>, <<1, 1, 0, 0, 1>>, [k \in 1 .. 11 |-> k % 2] }

MCAddress == {0, 1, 6, 9, 254}

MCValues == { [k \in 0 .. 7 |-> IF k \in {0, 2, 5, 6} THEN 1 ELSE 0],
              [k \in 0 .. 7 |-> IF k \in {1, 3, 4, 7} THEN 1 ELSE 0] }

MCRanges == { <<0, 8>>, <<0, 10>>, <<1, 9>>, <<3, 2>>, <<2, 16>>, <<11, 20>> }

MCXor(a, b) == a ^^ b
MCOr(a, b)  == a | b
MCAnd(a, b) == a & b
=============================================================================
