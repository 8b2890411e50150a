------------------------------ MODULE TxtCodec ------------------------------
(***************************************************************************)
(* What happens to the text of an item between the wire and the table.     *)
(* Text is a sequence of bytes, of which only the class matters here:      *)
(*   "p" printable, "d" a digit, "q" the quote, "b" the backslash,         *)
(*   "n" a byte outside the printable range, written \ddd when escaped.    *)
(*                                                                         *)
(* miekg/dns keeps TXT strings in presentation form: Unpack escapes what   *)
(* came from the wire, Pack undoes escapes.  decodeTXTStrings (update.go)  *)
(* undoes the escapes of Unpack; itemRRs (server.go) hands over raw text.  *)
(***************************************************************************)
EXTENDS Integers, SequencesExt

CONSTANTS maxTxtChunk,   \* 255 in the program
          Malformed      \* decodeTXTStrings returned an error

Byte == {"p", "d", "q", "b", "n"}

ASSUME TxtCodecAssumption == maxTxtChunk \in Nat \ {0} /\ Malformed \notin Byte

-----------------------------------------------------------------------------

\* Mutant of chunkBytes: the last, shorter chunk is lost.
chunkBytesWhole(b, n) == [i \in 1 .. Len(b) \div n |-> SubSeq(b, (i - 1) * n + 1, i * n)]

\* Chunks of n bytes, the last one with what is left.
chunkBytes(b, n) ==
  [i \in 1 .. (Len(b) + n - 1) \div n |->
     SubSeq(b, (i - 1) * n + 1, IF i * n < Len(b) THEN i * n ELSE Len(b))]

\* A backslash at i introduces a three-digit escape.
IsDDD(s, i) == i + 3 <= Len(s) /\ \A j \in i + 1 .. i + 3 : s[j] = "d"

-----------------------------------------------------------------------------

\* packTxtString: escapes are undone, a backslash at the very end is dropped.
packTxtString(s) ==
  LET from[i \in 1 .. Len(s) + 1] ==
        IF i > Len(s) THEN << >>
        ELSE IF s[i] # "b" THEN <<s[i]>> \o from[i + 1]
        ELSE IF i = Len(s) THEN << >>
        ELSE IF IsDDD(s, i) THEN <<"n">> \o from[i + 4]
        ELSE <<s[i + 1]>> \o from[i + 2]
  IN  from[1]

\* unpackTxtString: the presentation form of a character string.
unpackTxtString(w) ==
  FlattenSeq([i \in 1 .. Len(w) |->
                CASE w[i] = "n" -> <<"b", "d", "d", "d">>
                  [] w[i] \in {"q", "b"} -> <<"b", w[i]>>
                  [] OTHER -> <<w[i]>>])

\* Mutant of DecodeChunk: \ddd is taken for an escaped digit and two plain ones.
DecodeChunkNoDDD(c) ==
  LET from[i \in 1 .. Len(c) + 1] ==
        IF i > Len(c) THEN << >>
        ELSE IF c[i] # "b" THEN <<c[i]>> \o from[i + 1]
        ELSE IF i = Len(c) THEN <<Malformed>>
        ELSE <<c[i + 1]>> \o from[i + 2]
  IN  from[1]

\* The loop over the bytes of one chunk.
DecodeChunk(c) ==
  LET from[i \in 1 .. Len(c) + 1] ==
        IF i > Len(c) THEN << >>
        ELSE IF c[i] # "b" THEN <<c[i]>> \o from[i + 1]
        ELSE IF i = Len(c) THEN <<Malformed>>
        ELSE IF IsDDD(c, i) THEN <<"n">> \o from[i + 4]
        ELSE <<c[i + 1]>> \o from[i + 2]
  IN  from[1]

decodeTXTStrings(chunks) ==
  LET out == FlattenSeq([i \in 1 .. Len(chunks) |-> DecodeChunk(chunks[i])])
  IN  IF \E i \in DOMAIN out : out[i] = Malformed THEN Malformed ELSE out

=============================================================================
