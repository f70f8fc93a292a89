------------------------------- MODULE DsHelp -------------------------------
(***************************************************************************)
(* Datastore keys for binary data (go-ipfs-ds-help/key.go).               *)
(* NewKeyFromBinary writes '/' followed by the unpadded standard base32    *)
(* encoding of the bytes; BinaryFromDsKey drops the first character and   *)
(* decodes the rest.  Bytes are 0..255; a key is the sequence of its      *)
(* characters, '/' as Slash and a base32 character as its alphabet index  *)
(* 0..31.                                                                 *)
(***************************************************************************)
EXTENDS Naturals, Sequences, SequencesExt

Slash == 32   \* '/', which is not in the base32 alphabet

\* The 8 bits of a byte, most significant first.
ByteBits(x) == [k \in 1 .. 8 |-> (x \div 2^(8 - k)) % 2]

\* The 5 bits of a base32 character.
SymbolBits(s) == [k \in 1 .. 5 |-> (s \div 2^(5 - k)) % 2]

\* The number a sequence of bits spells, most significant first.
BitsValue(bits) == FoldLeft(LAMBDA acc, b : 2 * acc + b, 0, bits)

\* base32.RawStdEncoding.EncodedLen: characters for n bytes, no padding.
EncodedLen(n) == (n * 8 + 4) \div 5

\* base32.RawStdEncoding.DecodedLen: bytes in n characters.
DecodedLen(n) == (n * 5) \div 8

\* base32.RawStdEncoding.Encode: 5-bit groups of the bytes' bits, the last
\* one filled with zeros.
Base32Encode(raw) ==
  LET bits == FlattenSeq([j \in DOMAIN raw |-> ByteBits(raw[j])])
      n == EncodedLen(Len(raw))
      padded == bits \o [k \in 1 .. 5 * n - Len(bits) |-> 0]
  IN [j \in 1 .. n |-> BitsValue(SubSeq(padded, 5 * j - 4, 5 * j))]

\* base32.RawStdEncoding.DecodeString: whole bytes of the characters' bits;
\* the bits left over are dropped.
Base32Decode(chars) ==
  LET bits == FlattenSeq([j \in DOMAIN chars |-> SymbolBits(chars[j])])
  IN [j \in 1 .. DecodedLen(Len(chars)) |-> BitsValue(SubSeq(bits, 8 * j - 7, 8 * j))]

NewKeyFromBinary(raw) == <<Slash>> \o Base32Encode(raw)

\* Mutant: the whole key string, '/' included, is decoded.
BinaryFromDsKeyWithSlash(k) == Base32Decode(k)

BinaryFromDsKey(k) == Base32Decode(Tail(k))

\* Byte strings of length at most n over the byte values in bytes.
BinariesUpTo(bytes, n) == UNION {[1 .. l -> bytes] : l \in 0 .. n}
=============================================================================
