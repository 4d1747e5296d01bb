------------------------------- MODULE Cursor -------------------------------
(***************************************************************************)
(* The cursor of a list request, pagination.rs of cove-common: a position  *)
(* is serialized, base64-encoded by hand, handed to the client and decoded *)
(* in its next request.  Bytes are numbers below 256, characters of the    *)
(* alphabet numbers below 64, and the padding is Pad.                      *)
(***************************************************************************)
EXTENDS Integers, SequencesExt

CONSTANTS Positions,    \* what a cursor stands for: a timestamp and an id
          PositionText  \* the serialization of each, a sequence of bytes

Bytes == 0 .. 255

Pad == 64

ASSUME CursorAssumption ==
    /\ DOMAIN PositionText = Positions
    /\ \A p, q \in Positions : PositionText[p] = PositionText[q] => p = q
    /\ \A p \in Positions : PositionText[p] \in Seq(Bytes) /\ PositionText[p] # <<>>

(* Mutant: the second byte is not masked. *)
QuadUnmasked(b0, b1, b2, len) ==
    << b0 \div 4,
       (b0 % 4) * 16 + b1 \div 16,
       IF len > 1 THEN b1 * 4 + b2 \div 64 ELSE Pad,
       IF len > 2 THEN b2 % 64 ELSE Pad >>

(* Three bytes, of which len are there, are four characters. *)
Quad(b0, b1, b2, len) ==
    << b0 \div 4,
       (b0 % 4) * 16 + b1 \div 16,
       IF len > 1 THEN (b1 % 16) * 4 + b2 \div 64 ELSE Pad,
       IF len > 2 THEN b2 % 64 ELSE Pad >>

ByteAt(bytes, i) == IF i <= Len(bytes) THEN bytes[i] ELSE 0

Base64Encode(bytes) ==
    [n \in 1 .. 4 * ((Len(bytes) + 2) \div 3) |->
        LET i == 3 * ((n - 1) \div 4)
        IN  Quad(ByteAt(bytes, i + 1), ByteAt(bytes, i + 2), ByteAt(bytes, i + 3),
                 Len(bytes) - i)[1 + ((n - 1) % 4)]]

(* A character brings six bits, and there is a byte when there are eight.  *)
Accumulate(before, char) ==
    LET accum == 64 * before.accum + char
        bits  == before.bits + 6
        rest  == 2 ^ (bits - 8)
    IN  IF bits < 8
        THEN [out |-> before.out, accum |-> accum, bits |-> bits]
        ELSE [out   |-> Append(before.out, (accum \div rest) % 256),
              accum |-> accum % rest,
              bits  |-> bits - 8]

NoBits == [out |-> <<>>, accum |-> 0, bits |-> 0]

(* The loop over the characters, after n of them. *)
Accumulated(chars) ==
    LET loop[n \in 0 .. Len(chars)] ==
            IF n = 0 THEN NoBits ELSE Accumulate(loop[n - 1], chars[n])
    IN  loop[Len(chars)]

NoText == <<-1>>

(* The padding is trimmed; any other character outside the alphabet fails. *)
Base64Decode(chars) ==
    LET last == Max({0} \cup {i \in DOMAIN chars : chars[i] # Pad})
        kept == SubSeq(chars, 1, last)
    IN  IF Pad \in Range(kept) THEN NoText
        ELSE Accumulated(kept).out

EncodeCursor == [p \in Positions |-> Base64Encode(PositionText[p])]

Cursors == {<<>>} \cup {EncodeCursor[p] : p \in Positions}

(* The position a request starts from, as a set: none for a first page,    *)
(* and none, without an error, for a cursor that does not decode.          *)
DecodeCursor ==
    [c \in Cursors |->
        IF c = <<>> THEN {}
        ELSE LET text == Base64Decode(c) IN {p \in Positions : PositionText[p] = text}]
=============================================================================
