----------------------------- MODULE MemoryImage -----------------------------
(***************************************************************************)
(* How a program reaches the memory: objcopy's dump of bytes with address  *)
(* markers is merged into words (scripts/merge_hex.py), the words are split*)
(* into one file for each SRAM (prepare_byte_files), and the SRAMs load    *)
(* their files.  A line is <<"at", address>>, <<"byte", b>> or <<"word",   *)
(* bytes>>.                                                                *)
(***************************************************************************)
EXTENDS Integers, Sequences

\* flush_buffer: words of four bytes, the last one padded with zeros.
FlushBuffer(buffer) ==
  [k \in 1 .. (Len(buffer) + 3) \div 4 |->
     <<"word", [i \in 0 .. 3 |-> IF 4 * k - 3 + i <= Len(buffer) THEN buffer[4 * k - 3 + i] ELSE 0]>>]

MergeLine(result, line) ==
  IF line[1] = "at"
    THEN [lines |-> result.lines \o FlushBuffer(result.buffer) \o <<line>>, buffer |-> <<>>]
    ELSE [result EXCEPT !.buffer = Append(@, line[2])]

MergeHexBytes(dump) ==
  LET merged[k \in 0 .. Len(dump)] ==
        IF k = 0 THEN [lines |-> <<>>, buffer |-> <<>>] ELSE MergeLine(merged[k - 1], dump[k])
      result == merged[Len(dump)]
  IN  result.lines \o FlushBuffer(result.buffer)

\* The file of one byte lane; a marker that is not a multiple of 4 is refused.
Accepted(lines) == \A k \in DOMAIN lines : lines[k][1] = "at" => lines[k][2] % 4 = 0

ByteFile(lines, lane) ==
  [k \in DOMAIN lines |-> IF lines[k][1] = "at" THEN <<"at", lines[k][2] \div 4>>
                          ELSE <<"byte", lines[k][2][lane]>>]

\* A memory that starts with zeros and loads a file: a marker moves the place, a cell follows it.
LoadLine(memory, line) ==
  IF line[1] = "at" THEN [memory EXCEPT !.place = line[2]]
  ELSE [place |-> memory.place + 1, cells |-> [memory.cells EXCEPT ![memory.place] = line[2]]]

LoadFile(file, depth) ==
  LET loaded[k \in 0 .. Len(file)] ==
        IF k = 0 THEN [place |-> 0, cells |-> [w \in 0 .. depth - 1 |-> 0]]
        ELSE LoadLine(loaded[k - 1], file[k])
  IN  loaded[Len(file)].cells

InitialLanes(dump, depth) ==
  [lane \in 0 .. 3 |-> LoadFile(ByteFile(MergeHexBytes(dump), lane), depth)]
=============================================================================
