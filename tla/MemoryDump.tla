----------------------------- MODULE MemoryDump -----------------------------
(***************************************************************************)
(* dumpMemoryState and printMemArray of MemoryStore.cpp: the rows of words *)
(* that finalizeSimulator writes to the memory state file.  What matters   *)
(* of a byte printed is the entry it comes from.                           *)
(***************************************************************************)
EXTENDS MemoryStore, FiniteSets, Functions

CONSTANTS
  Ranges,          \* what print_mem_range may hold: pairs of addresses
  entriesPerRow    \* 5 in dumpMemoryState

ASSUME DumpConfig ==
  /\ Ranges \subseteq (0 .. AddrMod - 1) \X (0 .. AddrMod - 1)
  /\ entriesPerRow \in Nat \ {0}
  /\ numEntries < AddrMod

VARIABLES
  range,               \* startAddr and endAddr of the dump
  relStart, curAddr,
  rows,                \* the rows: the address printed and the entries after it
  dumpStatus           \* "none", "running", then what printMemArray returns

dumpVars == <<range, relStart, curAddr, rows, dumpStatus>>

relative(address) == (address - startAddr) % AddrMod

DumpInit ==
  /\ Init
  /\ range = <<0, 0>>
  /\ relStart = 0 /\ curAddr = 0
  /\ rows = <<>>
  /\ dumpStatus = "none"

\* The number of calls before it is no guard of the code: it bounds what is
\* explored.
dumpMemoryState ==
  /\ phase = "ready" /\ ~running /\ calls = MaxCalls /\ dumpStatus = "none"
  /\ range' \in Ranges
  /\ relStart' = relative(range'[1])
  /\ curAddr' = range'[1]
  /\ dumpStatus' = "running"
  /\ UNCHANGED <<vars, rows>>

rowBytes == entriesPerRow * WORD_SIZE

\* mutant: a word is printed only if all of it is before the end
rowWords_Whole(toEnd) ==
  { k \in 1 .. entriesPerRow : k * WORD_SIZE <= toEnd }

\* the words of the next row: those that begin before the end
rowWords(toEnd) ==
  { k \in 1 .. entriesPerRow : (k - 1) * WORD_SIZE < toEnd }

\* one pass of the while loop; an entry out of range ends the dump after the
\* bytes before it, and a row that is not full ends it too
printRow ==
  LET relEnd == relative(range[2])
      words  == Cardinality(rowWords(relEnd - relStart))
      wanted == { b \in 1 .. words * WORD_SIZE : relStart + b - 1 \in Entry }
  IN  /\ dumpStatus = "running" /\ relStart < relEnd
      /\ rows' = Append(rows, [label   |-> curAddr,
                               entries |-> [b \in wanted |-> relStart + b - 1]])
      /\ relStart' = relStart + words * WORD_SIZE
      /\ curAddr' = (curAddr + rowBytes) % AddrMod
      /\ dumpStatus' = IF relStart + words * WORD_SIZE > numEntries THEN "EINVAL"
                       ELSE IF words < entriesPerRow THEN "SUCCESS" ELSE "running"
      /\ UNCHANGED <<vars, range>>

printEnd ==
  /\ dumpStatus = "running" /\ relStart >= relative(range[2])
  /\ dumpStatus' = "SUCCESS"
  /\ UNCHANGED <<vars, range, relStart, curAddr, rows>>

DumpNext ==
  \/ Next /\ UNCHANGED dumpVars
  \/ dumpMemoryState \/ printRow \/ printEnd

DumpSpec == DumpInit /\ [][DumpNext]_<<vars, dumpVars>>

-----------------------------------------------------------------------------
\* The words of a dump are those that begin in its range.
dumpWords(first, last) == { k \in 0 .. AddrMod : first + k * WORD_SIZE < last }

shown == UNION { Range(rows[r].entries) : r \in 1 .. Len(rows) }

\* A dump shows every byte of its range once and in order, every row but the
\* last full, and what the last word has beyond the range; one that leaves the
\* memory shows the bytes up to there and fails.  The address at the left of a
\* row is that of its first byte, although the loop keeps it apart from the
\* position it reads.
DumpIsRange ==
  LET first == relative(range[1])
      last  == relative(range[2])
      upTo  == first + Cardinality(dumpWords(first, last)) * WORD_SIZE - 1
  IN  /\ \A r \in 1 .. Len(rows) :
           LET entries == rows[r].entries
           IN  /\ \A b \in DOMAIN entries : entries[b] = first + (r - 1) * rowBytes + b - 1
               /\ r < Len(rows) => DOMAIN entries = 1 .. rowBytes
               /\ 1 \in DOMAIN entries => relative(rows[r].label) = entries[1]
      /\ dumpStatus = "SUCCESS" => shown = first .. upTo
      /\ dumpStatus = "EINVAL" =>
           /\ shown = (first .. upTo) \cap Entry
           /\ upTo \notin Entry
=============================================================================
