------------------------------ MODULE Message ------------------------------
(***************************************************************************)
(* The signed message, byte for byte: what scripts/keeper/message.mjs      *)
(* signs and what build_msg of oracle_v0 rebuilds from a call's arguments. *)
(*                                                                         *)
(* A byte is a digit of Base, a tag a sequence of nonzero bytes; 8, 16 and *)
(* 8 bytes are the three widths.                                           *)
(***************************************************************************)
EXTENDS Integers, Sequences

CONSTANTS Base, TagWidth, PriceWidth, StampWidth

ASSUME WidthsAssumption ==
  /\ Base \in Nat \ {0, 1}
  /\ {TagWidth, PriceWidth, StampWidth} \subseteq Nat \ {0}

\* Base to the power n.
Power(n) ==
  LET p[k \in 0..n] == IF k = 0 THEN 1 ELSE Base * p[k - 1] IN p[n]

\* x.to_be_bytes() and writeBigUInt64BE.
BigEndian(x, width) ==
  [i \in 1..width |-> (x \div Power(width - i)) % Base]

\* Padded with zeros, or truncated.
AssetTag8(tag) == [i \in 1..TagWidth |-> IF i <= Len(tag) THEN tag[i] ELSE 0]

\* Fault: the loop of buildMessage stops one byte early (i > 8).
SecondPriceByte == 2

\* The most significant byte the loop of buildMessage writes (i >= 8).
LastByteWritten == 1

\* The loop of buildMessage: the low byte of v, then v >>= 8, from the last byte
\* of the price to the first; a byte it does not write stays zero.
PriceBytes(price) ==
  LET v[i \in 1..PriceWidth] == IF i = PriceWidth THEN price ELSE v[i + 1] \div Base
  IN [i \in 1..PriceWidth |-> IF i < LastByteWritten THEN 0 ELSE v[i] % Base]

BuildMessage(tag, price, timestamp, round_id) ==
  AssetTag8(tag) \o PriceBytes(price)
    \o BigEndian(timestamp, StampWidth) \o BigEndian(round_id, StampWidth)

\* build_msg of the contract, over an 8-byte asset.
build_msg(asset, price, timestamp, round_id) ==
  asset \o BigEndian(price, PriceWidth)
    \o BigEndian(timestamp, StampWidth) \o BigEndian(round_id, StampWidth)

-----------------------------------------------------------------------------
\* The number a run of big-endian bytes stands for.
NumberOf(bytes) ==
  LET n[i \in 0..Len(bytes)] == IF i = 0 THEN 0 ELSE n[i - 1] * Base + bytes[i]
  IN n[Len(bytes)]

\* What a reader of the layout takes the bytes to say.
Meaning(bytes) ==
  LET Field(from, width) == SubSeq(bytes, from + 1, from + width)
      stamps == TagWidth + PriceWidth
  IN [asset |-> Field(0, TagWidth),
      price |-> NumberOf(Field(TagWidth, PriceWidth)),
      timestamp |-> NumberOf(Field(stamps, StampWidth)),
      round_id |-> NumberOf(Field(stamps + StampWidth, StampWidth))]

\* The service and the contract build the same bytes, and they mean exactly the
\* asset, the price and the stamps that were signed: no two signed prices share a
\* message, so no signature serves for another.
MeansWhatIsSigned(tag, price, timestamp, round_id) ==
  LET bytes == BuildMessage(tag, price, timestamp, round_id) IN
  /\ bytes = build_msg(AssetTag8(tag), price, timestamp, round_id)
  /\ Meaning(bytes) = [asset |-> AssetTag8(tag), price |-> price,
                       timestamp |-> timestamp, round_id |-> round_id]
=============================================================================
