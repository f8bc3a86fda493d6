------------------------------- MODULE Codecs -------------------------------
(* Base64 (CheckEnv's base64.cc), Base32 (base32.h, base32.cc), hexadecimal  *)
(* digits (hex_codec.cc, in both libraries), fingerprints (check_sign.cpp)   *)
(* and the prefix trie (ascii_trie.cc).                                      *)
(*                                                                           *)
(* Bytes are numbers.  A character of a text is a number too: its place in   *)
(* the table of the codec, where Base64 has six more (see TableReverse).     *)
EXTENDS Integers, SequencesExt

Rejected == <<-1>>      \* the answer when the text is not accepted

\* Bits lo .. lo + n - 1 of x.
Bits(x, lo, n) == (x \div 2^lo) % 2^n
\* s[i], or the default past the end.
At(s, i, default) == IF i <= Len(s) THEN s[i] ELSE default
\* F(1) \o ... \o F(n)
Concat(n, F(_)) == FlattenSeq([g \in 1 .. n |-> F(g)])

-----------------------------------------------------------------------------
(* Base64                                                                    *)

\* Characters 62 and 63 are + and /, 64 and 65 the - and _ of the other table.
NullEnding == 66
Unknown == 67
Table(i, url_safe) == IF url_safe /\ i >= 62 THEN i + 2 ELSE i
TableReverse(c) ==
    CASE c < 64 -> c
      [] c \in {64, 65} -> c - 2
      [] c = NullEnding -> 0
      [] c = Unknown -> -1

GetBase64EncodedSize(input) == ((Len(input) + 2) \div 3) * 4

\* The number of trailing = of a text, at most two.
Endings(s) ==
    CASE s # <<>> /\ Last(s) = NullEnding ->
            IF Len(s) > 1 /\ s[Len(s) - 1] = NullEnding THEN 2 ELSE 1
      [] OTHER -> 0

Base64EncodeInternal(input, url_safe, pad_to_32_bits) ==
    LET Quad(g) ==
            LET i == 3 * g - 2
                stream == input[i] * 2^16 + At(input, i + 1, 0) * 2^8 + At(input, i + 2, 0)
                Char(lo) == Table(Bits(stream, lo, 6), url_safe)
            IN  <<Char(18), Char(12),
                  IF i + 1 <= Len(input) THEN Char(6) ELSE NullEnding,
                  IF i + 2 <= Len(input) THEN Char(0) ELSE NullEnding>>
        output == Concat(GetBase64EncodedSize(input) \div 4, Quad)
    IN  IF pad_to_32_bits THEN output
        ELSE SubSeq(output, 1, Len(output) - Endings(output))

Base64Encode(input) == Base64EncodeInternal(input, FALSE, FALSE)
Base64EncodeWithPadding(input) == Base64EncodeInternal(input, FALSE, TRUE)
Base64EncodeUrlSafe(input) == Base64EncodeInternal(input, TRUE, FALSE)
Base64EncodeUrlSafeWithPadding(input) == Base64EncodeInternal(input, TRUE, TRUE)

\* Mutant: an = that is left out is not counted.
GetBase64DecodedSizeWritten(input) ==
    ((Len(input) + 3) \div 4) * 3 - Endings(input)

GetBase64DecodedSize(input) ==
    LET mod == Len(input) % 4
        padded_size == ((Len(input) + 3) \div 4) * 3
    IN  CASE input = <<>> \/ mod = 1 -> 0
          [] mod = 2 \/ (mod = 0 /\ Endings(input) = 2) -> padded_size - 2
          [] mod = 3 \/ (mod = 0 /\ Endings(input) = 1) -> padded_size - 1
          [] OTHER -> padded_size

\* The bytes of the last group that the padding stands for are not written: they
\* keep the zeros of the resize if the size makes room for them.
Base64Decode(input) ==
    LET groups == (Len(input) + 3) \div 4
        In(g, k) == At(input, 4 * g - 4 + k, NullEnding)
        AtEnd(g) == 4 * g >= Len(input)
        Stream(g) == TableReverse(In(g, 1)) * 2^18 + TableReverse(In(g, 2)) * 2^12
                     + TableReverse(In(g, 3)) * 2^6 + TableReverse(In(g, 4))
        Accepts(g) ==
            /\ \A k \in 1 .. 4 : In(g, k) # Unknown
            /\ In(g, 1) # NullEnding /\ In(g, 2) # NullEnding
            /\ In(g, 3) = NullEnding => AtEnd(g) /\ In(g, 4) = NullEnding
            /\ In(g, 4) = NullEnding => AtEnd(g)
            /\ In(g, 3) = NullEnding => Bits(Stream(g), 8, 8) = 0
            /\ In(g, 4) = NullEnding => Bits(Stream(g), 0, 8) = 0
        Triple(g) == <<Bits(Stream(g), 16, 8), Bits(Stream(g), 8, 8), Bits(Stream(g), 0, 8)>>
    IN  IF Len(input) % 4 = 1 \/ \E g \in 1 .. groups : ~Accepts(g) THEN Rejected
        ELSE SubSeq(Concat(groups, Triple), 1, GetBase64DecodedSize(input))

-----------------------------------------------------------------------------
(* BitConverter<from_length, to_length, 16> and Base32                       *)

BufferLength == 16
EmptyConverter == [buffer |-> 0, lower_free_bits |-> BufferLength]
BitsAvailable(c) == BufferLength - c.lower_free_bits
CanAppend(c, from_length) == c.lower_free_bits >= from_length
CanExtract(c, to_length) == BitsAvailable(c) >= to_length
Peek(c, to_length) == Bits(c.buffer, BufferLength - to_length, to_length)
AppendBits(c, bits, from_length) ==
    LET free == c.lower_free_bits - from_length
    IN  [buffer |-> c.buffer + bits * 2^free, lower_free_bits |-> free]
Extract(c, to_length) ==
    [buffer |-> (c.buffer * 2^to_length) % 2^BufferLength,
     lower_free_bits |-> c.lower_free_bits + to_length]

\* The loop takes a character out and puts a byte in when there is room; it ends
\* when less than a character is left, which is then padded with zeros.
Base32Encode(input) ==
    LET Step(st, i) ==      \* st : the converter, the next byte, the output
            IF ~CanExtract(st.c, 5) THEN st
            ELSE LET c == Extract(st.c, 5)
                     more == CanAppend(c, 8) /\ st.next <= Len(input)
                 IN  [c |-> IF more THEN AppendBits(c, input[st.next], 8) ELSE c,
                      next |-> IF more THEN st.next + 1 ELSE st.next,
                      output |-> Append(st.output, Peek(st.c, 5))]
        start == [c |-> AppendBits(EmptyConverter, input[1], 8), next |-> 2, output |-> <<>>]
        end == FoldLeft(Step, start, [i \in 1 .. 2 * Len(input) |-> i])
    IN  IF input = <<>> THEN <<>>
        ELSE IF BitsAvailable(end.c) > 0 THEN Append(end.output, Peek(end.c, 5))
        ELSE end.output

\* Characters from 32 on are not in the table.
Base32Decode(input) ==
    LET Step(st, char) ==
            LET c == AppendBits(st.c, char, 5)
            IN  IF CanExtract(c, 8)
                THEN [c |-> Extract(c, 8), result |-> Append(st.result, Peek(c, 8))]
                ELSE [c |-> c, result |-> st.result]
        end == FoldLeft(Step, [c |-> EmptyConverter, result |-> <<>>], input)
    IN  IF (\E i \in DOMAIN input : input[i] >= 32) \/ Peek(end.c, 8) # 0 THEN Rejected
        ELSE end.result

HexEncode(input) == Concat(Len(input), LAMBDA i : <<input[i] \div 16, input[i] % 16>>)

\* A colon after every second digit but the last.
Colon == 16
formatSignature(data) ==
    Concat(Len(data), LAMBDA i : IF i % 2 = 0 /\ i # Len(data) THEN <<data[i], Colon>>
                                 ELSE <<data[i]>>)

-----------------------------------------------------------------------------
(* AsciiTrie.  A trie is the set of its nodes, a node the path to it: Add    *)
(* makes no node for the last character of an entry.                         *)

AddEntry(trie, entry) == trie \cup {p \in Prefixes(entry) : Len(p) < Len(entry)}
MakeTrie(entries) == FoldLeft(AddEntry, {}, entries)

\* The walk ends where there is no child, or at the end of the query with the
\* child that was taken last.
QueryTrie(trie, query) ==
    LET walked == {p \in trie \cap Prefixes(query) : Prefixes(p) \subseteq trie}
        depth == CHOOSE n \in 0 .. Len(query) :
                    /\ \E p \in walked : Len(p) = n
                    /\ \A p \in walked : Len(p) <= n
    IN  trie = {} \/ (depth > 0 /\ depth < Len(query))

-----------------------------------------------------------------------------
(* What is asked of them                                                     *)

\* Reading what was written gives the bytes back, with padding or without, from
\* either table; the sizes that are computed beforehand are the right ones.
RoundTrip(bytes) ==
    /\ \A text \in {Base64Encode(bytes), Base64EncodeWithPadding(bytes),
                    Base64EncodeUrlSafe(bytes), Base64EncodeUrlSafeWithPadding(bytes)} :
          Base64Decode(text) = bytes /\ GetBase64DecodedSize(text) = Len(bytes)
    /\ Len(Base64EncodeWithPadding(bytes)) = GetBase64EncodedSize(bytes)
    /\ Base32Decode(Base32Encode(bytes)) = bytes
    /\ 5 * (Len(Base32Encode(bytes)) - 1) < 8 * Len(bytes)
    /\ LET hex == HexEncode(bytes)
       IN  \A i \in DOMAIN bytes :
               /\ bytes[i] = 16 * hex[2 * i - 1] + hex[2 * i]
               /\ SubSeq(formatSignature(hex), 3 * i - 2, 3 * i - 1) =
                     <<hex[2 * i - 1], hex[2 * i]>>

\* A text that is accepted is one that the encoder writes: two texts for the same
\* bytes differ in their table and padding only.  Of Base64 this fails for a
\* text with a single = and a length of 4 n + 3, which has a zero byte too many;
\* of Base32 for a text with one more character A than is needed.
Canonical64(text) ==
    LET bytes == Base64Decode(text)
        plain == [i \in 1 .. Len(text) - Endings(text) |-> TableReverse(text[i])]
    IN  bytes # Rejected =>
            \/ Base64Encode(bytes) = plain
            \/ /\ Len(text) % 4 = 3 /\ Endings(text) = 1
               /\ Last(bytes) = 0 /\ Base64Encode(Front(bytes)) = plain
Canonical32(text) ==
    LET bytes == Base32Decode(text)
    IN  bytes # Rejected =>
            \/ Base32Encode(bytes) = text
            \/ text # <<>> /\ Last(text) = 0 /\ Base32Encode(bytes) = Front(text)

\* An entry of two characters or more that starts the query is found, unless the
\* query is itself a proper part of an entry; what is found starts like an entry.
TrieFinds(entries, query) ==
    LET found == QueryTrie(MakeTrie(entries), query)
    IN  /\ (\E e \in ToSet(entries) : Len(e) > 1 /\ IsPrefix(e, query)) /\
           (\A e \in ToSet(entries) : ~IsStrictPrefix(query, e)) => found
        /\ found /\ MakeTrie(entries) # {} =>
              \E e \in ToSet(entries) : Len(e) > 1 /\ Head(e) = Head(query)
=============================================================================
