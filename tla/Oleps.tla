------------------------------- MODULE Oleps -------------------------------
(***************************************************************************)
(* Package oleps: Marshal writes a property set stream, Unmarshal reads    *)
(* one.  A property set is its size, its number of properties, a table of  *)
(* (ID, offset) pairs patched while the values are appended, and the       *)
(* values; a value ends where the next one in the table begins.            *)
(*                                                                         *)
(* A stream is a sequence of bytes, a byte a number below Base, and an     *)
(* integer as many bytes as in the code, little endian.  Between Marshal   *)
(* and Unmarshal the stream may lose its end or have some bytes replaced.  *)
(* The CLSID, the FMTID and the system identifier are copied untouched and *)
(* are zeros here.                                                         *)
(*                                                                         *)
(* The code pages are UTF-16 and pages of one byte a character, in which   *)
(* some bytes may stand for no character; codepageEncoding also knows      *)
(* UTF-8 and pages of one or two bytes a character.                        *)
(***************************************************************************)
EXTENDS Integers, Sequences, SequencesExt

CONSTANTS
    Base,           \* the number of values of a byte
    Unmapped,       \* of each code page of one byte a character: the bytes
                    \* that stand for no character
    cpWinUnicode,   \* the code page of UTF-16
    High, Low,      \* the first and second halves of a character of two units
    TicksPerSec, NanosPerTick,
    Streams,        \* the property set streams handed to Marshal
    Places,         \* where bytes of the stream may be replaced
    Damages         \* by which bytes

\* A byte, and the numbers of values that so many bytes have.
Byte == 0 .. Base - 1
Power[n \in 0 .. 8] == IF n = 0 THEN 1 ELSE Base * Power[n - 1]
U32 == Power[4]

\* The code pages for which codepageEncoding has an encoding.
Pages == DOMAIN Unmapped \cup {cpWinUnicode}

\* U+FFFD, for what a decoder of the text package cannot make a character of.
Replacement == Power[2] - 3

\* A text is a sequence of UTF-16 units, the halves of a character side by side;
\* but a character of a code page of one byte is numbered by its byte.
Lone(s, i) ==
    \/ s[i] \in High /\ ~ (i + 1 \in DOMAIN s /\ s[i + 1] \in Low)
    \/ s[i] \in Low /\ ~ (i - 1 \in DOMAIN s /\ s[i - 1] \in High)

Text == {s \in Seq(0 .. Power[2] - 1) : \A i \in DOMAIN s : ~ Lone(s, i)}

\* Value types.  A value is its type and, as a sequence, what it holds: an
\* integer (of whatever sign, as the number its bytes make), the units of a
\* text, or the nanoseconds since 1601 of a time.  A time that is not set
\* holds nothing; nor does the nil value.
vtI2 == 2
vtI4 == 3
vtUI4 == 19
vtLPSTR == 30
vtFileTime == 64

Width == [vt \in {vtI2, vtI4, vtUI4, vtFileTime} |->
             IF vt = vtI2 THEN 2 ELSE IF vt = vtFileTime THEN 8 ELSE 4]

Nil == [vt |-> 0, v |-> <<>>]
Integer(width) == [1 .. 1 -> 0 .. Power[width] - 1]
Values ==
    {Nil} \cup [vt : {vtI2}, v : Integer(2)]
          \cup [vt : {vtI4, vtUI4}, v : Integer(4)]
          \cup [vt : {vtLPSTR}, v : Text]
          \cup [vt : {vtFileTime}, v : {<<>>} \cup [1 .. 1 -> Int]]
PropertyLists == Seq([id : 0 .. U32 - 1, value : Values])

\* Two bytes are enough for a value type.
ASSUME OlepsAssumption ==
    /\ Base \in Nat \ {0, 1} /\ vtFileTime < Power[2]
    /\ Pages \subseteq 0 .. Power[2] - 1 /\ cpWinUnicode \notin DOMAIN Unmapped
    /\ \A page \in DOMAIN Unmapped : Unmapped[page] \subseteq Byte
    /\ High \cup Low \subseteq Base .. Replacement - 1 /\ High \cap Low = {}
    /\ {TicksPerSec, NanosPerTick} \subseteq Nat \ {0}
    /\ \A s \in Streams : s.version \in Nat /\ s.sets \in Seq(PropertyLists)
    /\ Places \subseteq Nat /\ \A bytes \in Damages : bytes \in Seq(Byte)

VARIABLES
    pc,     \* what runs next, or how the last call ended
    stm,    \* Marshal's argument
    buf,    \* encoder.buf; the stream
    cp,     \* encoder.cp, decoder.cp
    sent,   \* what happened to the stream after Marshal
    set,    \* decoder.setBuf
    out     \* the properties decoded so far; Unmarshal's result

vars == <<pc, stm, buf, cp, sent, set, out>>

-----------------------------------------------------------------------------
(* Integers, text and times as bytes.                                       *)

Zeros(n) == [i \in 1 .. n |-> 0]
Num(n, width) == [i \in 1 .. width |-> (n \div Power[i - 1]) % Base]

\* The integer of the given width after the first at bytes of b; what is behind
\* its end counts as zeros.
UInt(b, at, width) ==
    LET high[k \in 0 .. width] ==      \* of the last k bytes
            IF k = 0 THEN 0
            ELSE LET i == at + width - k + 1
                 IN  (IF i \in DOMAIN b THEN b[i] ELSE 0) + Base * high[k - 1]
    IN  high[width]

Patch(b, at, bytes) ==
    SubSeq(b, 1, at) \o bytes \o SubSeq(b, at + Len(bytes) + 1, Len(b))

Align(b) == b \o Zeros((-Len(b)) % 4)

CharSize(page) == IF page = cpWinUnicode THEN 2 ELSE 1
Terminator(page) == Zeros(CharSize(page))

EncodeText(s, page) ==
    LET text == FlattenSeq([i \in DOMAIN s |-> Num(s[i], CharSize(page))])
                  \o Terminator(page)
    IN  Num(Len(text), 4) \o text

\* The units of raw; the last one of UTF-16 may lack a byte.
Units(raw, page) ==
    LET w == CharSize(page)
    IN  [i \in 1 .. (Len(raw) + w - 1) \div w |->
            IF w * i <= Len(raw) THEN UInt(raw, w * (i - 1), w) ELSE Replacement]

\* No character of the page: half of one, or a byte the page does not map.
NoCharacter(s, i, page) ==
    IF page = cpWinUnicode THEN Lone(s, i) ELSE s[i] \in Unmapped[page]

\* The decoder replaces what is no character and never fails. (It may make one
\* replacement of two neighbouring halves, where there are two here.)
DecodeText(raw, page) ==
    LET s == Units(raw, page)
    IN  [i \in DOMAIN s |-> IF NoCharacter(s, i, page) THEN Replacement ELSE s[i]]

\* Seconds since 1601, rounded down as time.Time.Unix does; the last second a
\* FILETIME reaches is not a whole one, so the encoder stops before it.
Sec(nanos) == nanos \div (NanosPerTick * TicksPerSec)
MaxSec == (Power[8] - 1) \div TicksPerSec - 1

EncodeTime(t) == Num(IF t = <<>> THEN 0 ELSE t[1] \div NanosPerTick, 8)
DecodeTime(ticks) == IF ticks = 0 THEN <<>> ELSE <<ticks * NanosPerTick>>

\* UTF-16 has every character; another page those of its mapped bytes, U+FFFD
\* not among them.
Encodable(value, page) ==
    /\ value # Nil
    /\ value.vt = vtLPSTR /\ page # cpWinUnicode =>
         \A i \in DOMAIN value.v : value.v[i] \in Byte \ Unmapped[page]
    /\ value.vt = vtFileTime /\ value.v # <<>> =>
         Sec(value.v[1]) \in 0 .. MaxSec

EncodeValue(value, page) ==
    CASE value.vt = vtLPSTR    -> EncodeText(value.v, page)
      [] value.vt = vtFileTime -> EncodeTime(value.v)
      [] OTHER                 -> Num(value.v[1], Width[value.vt])

\* The coder of vt finds a whole value at the start of b.
Decodable(vt, b, page) ==
    IF vt = vtLPSTR
    THEN LET n == UInt(b, 0, 4)
         IN  /\ Len(b) >= 4
             /\ n <= Len(b) - 4
             /\ n # 0 => /\ n >= CharSize(page)
                         /\ SubSeq(b, 5 + n - CharSize(page), 4 + n) = Terminator(page)
    ELSE Len(b) >= Width[vt]

DecodeValue(vt, b, page) ==
    [vt |-> vt,
     v  |-> CASE vt = vtLPSTR ->
                   LET n == UInt(b, 0, 4)
                   IN  IF n = 0 THEN <<>>
                       ELSE DecodeText(SubSeq(b, 5, 4 + n - CharSize(page)), page)
              [] vt = vtFileTime -> DecodeTime(UInt(b, 0, 8))
              [] OTHER -> <<UInt(b, 0, Width[vt])>>]

-----------------------------------------------------------------------------
(* Marshal.                                                                 *)

byteOrder == Power[2] - 2
SetOff == 48                \* where the one property set begins

\* ByteOrder, Version, SystemIdentifier and CLSID, NumPropertySets, FMTID, Offset.
Header(version) ==
    Num(byteOrder, 2) \o Num(version, 2) \o Zeros(20) \o Num(1, 4)
      \o Zeros(16) \o Num(SetOff, 4)

\* The least number of a set, 0 if it has none.
First(S) == IF S = {} THEN 0 ELSE Min(S)

\* The first property with ID 1 is the code page, which must be an I2.
CodePageOf(props) ==
    LET i == First({j \in DOMAIN props : props[j].id = 1})
    IN  IF i # 0 /\ props[i].value.vt = vtI2 THEN props[i].value.v ELSE <<>>

MarshalHeader ==
    LET props == stm.sets[1]
        page == CodePageOf(props)
    IN  /\ pc = "marshal"
        /\ IF Len(stm.sets) = 1 /\ stm.version <= 1
              /\ ToSet(page) \cap Pages # {}
           THEN /\ buf' = Header(stm.version) \o Zeros(4) \o Num(Len(props), 4)
                            \o Zeros(8 * Len(props))
                /\ cp' = page[1]
                /\ pc' = "encode"
           ELSE pc' = "refused" /\ UNCHANGED <<buf, cp>>
        /\ UNCHANGED <<stm, sent, set, out>>

\* Mutant: the offset is taken from the start of the stream.
EntryBeforeSet(p, b) == Num(p.id, 4) \o Num(Len(b), 4)

\* The table entry of the property whose value is appended to b.
Entry(p, b) == Num(p.id, 4) \o Num(Len(b) - SetOff, 4)

\* Property i: its table entry patched, its type, padding and value appended.
MarshalProperty(i) ==
    LET p == stm.sets[1][i]
        b == Align(buf)
    IN  /\ pc = "encode"
        /\ i <= Len(stm.sets[1]) /\ Len(out) = i - 1
        /\ IF p.id # 0 /\ Encodable(p.value, cp)
           THEN /\ buf' = Patch(b, SetOff + 8 * i, Entry(p, b))
                            \o Num(p.value.vt, 2) \o Zeros(2)
                            \o EncodeValue(p.value, cp)
                /\ out' = Append(out, p)
                /\ pc' = pc
           ELSE pc' = "refused" /\ UNCHANGED <<buf, out>>
        /\ UNCHANGED <<stm, cp, sent, set>>

\* Mutant: the size is patched before the last alignment.
SealAlignedLast(b) == Align(Patch(b, SetOff, Num(Len(b) - SetOff, 4)))

Seal(b) == Patch(Align(b), SetOff, Num(Len(Align(b)) - SetOff, 4))

MarshalEnd ==
    /\ pc = "encode"
    /\ Len(out) = Len(stm.sets[1])
    /\ buf' = Seal(buf)
    /\ out' = <<>>
    /\ pc' = "marshalled"
    /\ UNCHANGED <<stm, cp, sent, set>>

-----------------------------------------------------------------------------
(* The stream between the two calls.                                        *)

Keep ==
    /\ pc = "marshalled"
    /\ pc' = "unmarshal"
    /\ UNCHANGED <<stm, buf, cp, sent, set, out>>

Cut(n) ==
    /\ pc = "marshalled" /\ sent = "whole"
    /\ buf' = SubSeq(buf, 1, n)
    /\ sent' = "cut"
    /\ pc' = "unmarshal"
    /\ UNCHANGED <<stm, cp, set, out>>

Damage(at, bytes) ==
    /\ pc = "marshalled" /\ sent = "whole"
    /\ at + Len(bytes) <= Len(buf)
    /\ buf' = Patch(buf, at, bytes)
    /\ sent' = "damaged"
    /\ pc' = "unmarshal"
    /\ UNCHANGED <<stm, cp, set, out>>

-----------------------------------------------------------------------------
(* Unmarshal.                                                               *)

\* Checks made one after the other: how the first that fails ends the call.
FirstOf(checks) ==
    LET i == First({j \in DOMAIN checks : checks[j][1]})
    IN  IF i = 0 THEN "none" ELSE checks[i][2]

\* The call ends with an error: "eof" is io.ErrUnexpectedEOF, "invalid" any
\* other, and "outside" is no error but a slice of bytes the set does not have.
Ends(how) ==
    /\ how # "none"
    /\ pc' = how
    /\ UNCHANGED <<stm, buf, cp, sent, set, out>>

HeaderError(b) ==
    FirstOf(<< <<Len(b) < 2,                                "eof">>,
               <<UInt(b, 0, 2) # byteOrder,                  "invalid">>,
               <<Len(b) < 28,                               "eof">>,
               <<UInt(b, 2, 2) > 1 \/ UInt(b, 24, 4) # 1,     "invalid">>,
               <<Len(b) < SetOff,                           "eof">>,
               <<UInt(b, 44, 4) < SetOff,                    "invalid">>,
               <<UInt(b, 44, 4) > Len(b),                    "eof">> >>)

UnmarshalHeader ==
    /\ pc = "unmarshal"
    /\ \/ Ends(HeaderError(buf))
       \/ /\ HeaderError(buf) = "none"
          /\ set' = SubSeq(buf, UInt(buf, 44, 4) + 1, Len(buf))
          /\ pc' = "table"
          /\ UNCHANGED <<stm, buf, cp, sent, out>>

\* The ID and the byte range of the value at index i: it ends where the next
\* entry of the table begins, the last one where the set ends.
NumProps(s) == UInt(s, 4, 4)
Packet(s, i) ==
    [id  |-> UInt(s, 8 + 8 * i, 4),
     off |-> UInt(s, 12 + 8 * i, 4),
     end |-> IF i + 1 < NumProps(s) THEN UInt(s, 20 + 8 * i, 4) ELSE Len(s)]
Bytes(s, p) == SubSeq(s, p.off + 1, p.end)

MinOff(s) == (8 + NumProps(s) * 8) % U32

\* Mutant: a value may end before it begins.
BadPacketBackwards(s, p) ==
    p.off < MinOff(s) \/ (p.end - p.off) % U32 < 4 \/ p.end > Len(s)

\* Mutant: a value may begin in the table.
BadPacketInTable(s, p) ==
    p.end < p.off \/ (p.end - p.off) % U32 < 4 \/ p.end > Len(s)

BadPacket(s, p) ==
    \/ p.off < MinOff(s)
    \/ p.end < p.off
    \/ (p.end - p.off) % U32 < 4
    \/ p.end > Len(s)

SizeError(s) ==
    FirstOf(<< <<Len(s) < 8,                              "eof">>,
               <<UInt(s, 0, 4) > Len(s),                   "eof">>,
               <<UInt(s, 0, 4) < 8 + 8 * NumProps(s),      "invalid">> >>)

\* The first property with ID 1, and the code page its value holds after the
\* type and the padding, which is skipped.
CodePageIndex(s) ==
    First({i \in 1 .. NumProps(s) : Packet(s, i - 1).id = 1})
CodePageBytes(s) == Bytes(s, Packet(s, CodePageIndex(s) - 1))
CodePage(s) == UInt(CodePageBytes(s), 4, 2)

TableValid(s) ==
    /\ \A i \in 0 .. NumProps(s) - 1 : ~ BadPacket(s, Packet(s, i))
    /\ CodePageIndex(s) # 0
    /\ UInt(CodePageBytes(s), 0, 2) = vtI2
    /\ Len(CodePageBytes(s)) >= 6
    /\ CodePage(s) \in Pages

\* setBuf is cut to the size the set states before its table is looked at.
UnmarshalTable ==
    LET whole == SubSeq(set, 1, UInt(set, 0, 4))
    IN  /\ pc = "table"
        /\ \/ Ends(SizeError(set))
           \/ SizeError(set) = "none" /\ ~ TableValid(whole) /\ Ends("invalid")
           \/ /\ SizeError(set) = "none" /\ TableValid(whole)
              /\ set' = whole
              /\ cp' = CodePage(whole)
              /\ pc' = "decode"
              /\ UNCHANGED <<stm, buf, sent, out>>

\* Mutant: a property with ID 0 is taken.
BadPropertyUnnamed(id, b) ==
    UInt(b, 2, 2) # 0 \/ UInt(b, 0, 2) \notin DOMAIN Width \cup {vtLPSTR}

\* What property refuses before it decodes the value; b is the value's bytes.
BadProperty(id, b) ==
    \/ id = 0
    \/ UInt(b, 2, 2) # 0
    \/ UInt(b, 0, 2) \notin DOMAIN Width \cup {vtLPSTR}

UnmarshalProperty(i) ==
    LET p == Packet(set, i - 1)
        b == Bytes(set, p)
        vt == UInt(b, 0, 2)
        body == SubSeq(b, 5, Len(b))
    IN  /\ pc = "decode"
        /\ i <= NumProps(set) /\ Len(out) = i - 1
        /\ CASE ~ (p.off <= p.end /\ p.end <= Len(set)) -> Ends("outside")
             [] BadProperty(p.id, b) -> Ends("invalid")
             [] OTHER ->
                  \/ ~ Decodable(vt, body, cp) /\ Ends("invalid")
                  \/ /\ Decodable(vt, body, cp)
                     /\ out' = Append(out, [id |-> p.id, value |-> DecodeValue(vt, body, cp)])
                     /\ UNCHANGED <<pc, stm, buf, cp, sent, set>>

UnmarshalEnd ==
    /\ pc = "decode"
    /\ Len(out) = NumProps(set)
    /\ pc' = "unmarshalled"
    /\ UNCHANGED <<stm, buf, cp, sent, set, out>>

-----------------------------------------------------------------------------

Init ==
    /\ pc = "marshal" /\ stm \in Streams /\ sent = "whole"
    /\ buf = <<>> /\ cp = 0 /\ set = <<>> /\ out = <<>>

\* What Unmarshal made of a damaged stream is handed to Marshal.
MarshalResult ==
    /\ pc = "unmarshalled" /\ sent = "damaged"
    /\ stm' = [version |-> UInt(buf, 2, 2), sets |-> <<out>>]
    /\ sent' = "again"
    /\ pc' = "marshal"
    /\ buf' = <<>> /\ cp' = 0 /\ set' = <<>> /\ out' = <<>>

Marshal == MarshalHeader \/ (\E i \in 1 .. Len(out) + 1 : MarshalProperty(i)) \/ MarshalEnd

Transfer ==
    \/ Keep
    \/ \E n \in 0 .. Len(buf) - 1 : Cut(n)
    \/ \E at \in Places, bytes \in Damages : Damage(at, bytes)

Unmarshal ==
    \/ UnmarshalHeader
    \/ UnmarshalTable
    \/ \E i \in 1 .. Len(out) + 1 : UnmarshalProperty(i)
    \/ UnmarshalEnd

Next == Marshal \/ Transfer \/ Unmarshal \/ MarshalResult

Spec == Init /\ [][Next]_vars

-----------------------------------------------------------------------------
(* Properties.                                                              *)

\* How a value reads back: a time loses what is less than a tick, and 1601-01-01
\* itself is the encoding of a time that is not set.
SeenValue(value) ==
    IF value.vt # vtFileTime \/ value.v = <<>> THEN value
    ELSE [value EXCEPT !.v = DecodeTime(value.v[1] \div NanosPerTick)]

Seen(props) == [i \in DOMAIN props |-> [props[i] EXCEPT !.value = SeenValue(@)]]

\* A stream Marshal wrote and nobody touched is never refused by Unmarshal, which
\* returns the properties in their order with the values that were marshalled,
\* wherever the alignment before a value of odd length moved the next ones.
RoundTrip ==
    sent \in {"whole", "again"} =>
        /\ pc \notin {"eof", "invalid"}
        /\ pc = "unmarshalled" => out = Seen(stm.sets[1])

\* A stream that lost its end, however little of it, is refused as an unexpected
\* end of file: never read as a shorter set, nor reported as another error
\* (decode_test.go, TestUnmarshal_Truncated).
TruncationIsEOF == sent = "cut" => pc \notin {"invalid", "outside", "unmarshalled"}

\* Whatever was overwritten, no property is looked for outside the bytes of the
\* set: the checks of the table, on unsigned 32-bit numbers, are enough for the
\* slices taken later.
StaysInSet == pc # "outside"

\* Once the table has passed its checks, which only compare neighbours, no two
\* values share a byte and none reaches into the table or the set's header.
PacketsApart ==
    pc = "decode" =>
        \A i, j \in 0 .. NumProps(set) - 1 :
            /\ Packet(set, i).off >= 8 + 8 * NumProps(set)
            /\ i < j => Packet(set, i).end <= Packet(set, j).off

\* When Marshal refuses what Unmarshal returned, even from an overwritten
\* stream, it is for one of two values that can be decoded but not encoded, the
\* one it has come to: a FILETIME in the last, incomplete, second of its range
\* (filetime.go:18); or a text in which bytes that are no character of the code
\* page were replaced by U+FFFD (decode.go:261), which a page of one byte a
\* character cannot encode (encode.go:177). Neither the header, nor the code
\* page, wherever it stood, nor any other value is refused.
ResultsMarshal ==
    sent = "again" /\ pc = "refused" =>
        /\ buf # <<>>
        /\ LET value == stm.sets[1][Len(out) + 1].value
           IN  \/ /\ value.vt = vtFileTime /\ value.v # <<>>
                  /\ Sec(value.v[1]) = MaxSec + 1
               \/ /\ value.vt = vtLPSTR /\ cp # cpWinUnicode
                  /\ Replacement \in ToSet(value.v)
=============================================================================
