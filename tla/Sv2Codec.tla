------------------------------ MODULE Sv2Codec ------------------------------
(***************************************************************************)
(* The binary format of Stratum V2 messages (stratum_v2_types.go and       *)
(* stratum_v2_frame.go): what is written is what is read, also when two    *)
(* frames follow one another and when the connection breaks off.           *)
(*                                                                         *)
(* A byte has Base values, 256 in the code: a one-byte count reaches       *)
(* Base - 1 and a two-byte count Base^2 - 1.                               *)
(***************************************************************************)
EXTENDS Integers, Sequences, SequencesExt

CONSTANTS
    Base,        \* values of a byte
    FieldSizes,  \* how many elements the counted fields of a message may have
    MaxFrames    \* bound: frames written in a behaviour

\* sv2WriteFrame does not check that three bytes can tell the length of the
\* payload.  They can from Base = 7 on: the longest message is a NewMiningJob,
\* of 2 Base^2 + 32 Base - 15 bytes at most.
ASSUME CodecAssumption ==
    Base \in Nat /\ Base >= 7 /\ FieldSizes \subseteq Nat /\ MaxFrames \in Nat

VARIABLES
    sent,      \* the frames written so far: messages as their field sizes
    received,  \* what sv2ReadFrame and decode returned, in order
    rest,      \* the bytes on the connection that are not read yet
    broken     \* the connection broke off
codecVars == <<sent, received, rest, broken>>

\* A field is `each` bytes, or a count of `prefix` bytes and so many elements.
Fixed(width) == [prefix |-> 0, each |-> width]
U8 == Fixed(1)
U16 == Fixed(2)
U32 == Fixed(4)
U64 == Fixed(8)
U256 == Fixed(32)
Str == [prefix |-> 1, each |-> 1]
U256Seq == [prefix |-> 1, each |-> 32]
Bytes64K == [prefix |-> 2, each |-> 1]

\* The encode and decode methods of the message types, by their type byte
Schema ==
    [SetupConnection |-> <<U8, U16, U16, U32, Str, U16, Str, Str, Str, Str>>,
     SetupConnectionSuccess |-> <<U16, U32>>,
     SetupConnectionError |-> <<U32, Str>>,
     OpenStandardMiningChannel |-> <<U32, Str, U32, U256>>,
     OpenStdMiningChannelSuccess |-> <<U32, U32, U256, Str, U32>>,
     OpenStdMiningChannelError |-> <<U32, Str>>,
     NewMiningJob |-> <<U32, U32, U8, U32, U8, U256Seq, Bytes64K, Bytes64K>>,
     SetNewPrevHash |-> <<U32, U32, U256, U32, U32>>,
     SetTarget |-> <<U32, U256>>,
     SubmitSharesStandard |-> <<U32, U32, U32, U32, U32, U32>>,
     SubmitSharesSuccess |-> <<U32, U32, U32, U64>>,
     SubmitSharesError |-> <<U32, U32, Str>>]
MessageTypes == DOMAIN Schema

\* What a byte counts, by its position: a count or a length has three at most.
Place == <<1, Base, Base * Base>>

\* n in `width` bytes, the low byte first
LittleEndian(n, width) == [i \in 1..width |-> (n \div Place[i]) % Base]
Number(bytes) ==
    LET sum[i \in 0..Len(bytes)] ==
          IF i = 0 THEN 0 ELSE sum[i - 1] + bytes[i] * Place[i]
    IN  sum[Len(bytes)]

\* The sv2Append helpers cut off what the count cannot express.
Fitting(field, n) ==
    IF field.prefix = 0 THEN 1
    ELSE LET room == Place[field.prefix + 1]
         IN  IF n < room THEN n ELSE room - 1

\* The content tells the fields and the positions apart.
Content(i, length) == [k \in 1..length |-> (i + k) % Base]
EncodeField(i, field, n) ==
    LET count == Fitting(field, n)
    IN  LittleEndian(count, field.prefix) \o Content(i, count * field.each)
Encode(type, sizes) ==
    FlattenSeq([i \in 1..Len(Schema[type]) |-> EncodeField(i, Schema[type][i], sizes[i])])

\* The sv2Read helpers: the element count and content of the field at off, or
\* an unexpected end, written as a negative offset.
Short == -1
ReadField(field, bytes, off) ==
    LET start == off + field.prefix
        count == IF field.prefix = 0 THEN 1 ELSE Number(SubSeq(bytes, off + 1, start))
        end == start + count * field.each
    IN  IF off = Short \/ start > Len(bytes) THEN [off |-> Short, content |-> <<>>]
        ELSE IF end > Len(bytes) THEN [off |-> Short, content |-> <<>>]
             ELSE [off |-> end, content |-> SubSeq(bytes, start + 1, end)]
Decode(type, bytes) ==
    LET read[i \in 0..Len(Schema[type])] ==
          IF i = 0 THEN [off |-> 0, content |-> <<>>]
          ELSE ReadField(Schema[type][i], bytes, read[i - 1].off)
    IN  IF read[Len(Schema[type])].off = Short THEN <<>>
        ELSE [i \in 1..Len(Schema[type]) |-> read[i].content]

\* sv2WriteFrame: the type byte and the length of the payload in three bytes
Frame(type, payload) == <<type>> \o LittleEndian(Len(payload), 3) \o payload
HeaderSize == 4

\* All counted fields of a message have the same number of elements.
Sizes(type, n) ==
    [i \in 1..Len(Schema[type]) |-> IF Schema[type][i].prefix = 0 THEN 1 ELSE n]

-----------------------------------------------------------------------------
CodecInit == sent = <<>> /\ received = <<>> /\ rest = <<>> /\ broken = FALSE

WriteFrame ==
    /\ Len(sent) < MaxFrames /\ ~broken
    /\ \E type \in MessageTypes, n \in FieldSizes :
         LET bytes == Frame(type, Encode(type, Sizes(type, n)))
         IN  /\ sent' = Append(sent, [type |-> type, size |-> n])
             /\ rest' = rest \o bytes
    /\ UNCHANGED <<received, broken>>

\* The connection breaks off anywhere in the frame that is not read yet.
BreakOff ==
    /\ Len(received) = Len(sent) - 1 /\ ~broken /\ broken' = TRUE
    /\ \E n \in 0..Len(rest) - 1 : rest' = SubSeq(rest, 1, n)
    /\ UNCHANGED <<sent, received>>

\* readFrame waits for the whole header and payload; decode follows.
ReadFrame ==
    /\ Len(rest) >= HeaderSize
    /\ LET size == Number(SubSeq(rest, 2, HeaderSize))
       IN  /\ Len(rest) >= HeaderSize + size
           /\ received' = Append(received,
                 Decode(rest[1], SubSeq(rest, HeaderSize + 1, HeaderSize + size)))
           /\ rest' = SubSeq(rest, HeaderSize + size + 1, Len(rest))
    /\ UNCHANGED <<sent, broken>>

CodecNext == WriteFrame \/ BreakOff \/ ReadFrame

CodecSpec == CodecInit /\ [][CodecNext]_codecVars

-----------------------------------------------------------------------------
Sent(i, f) ==
    LET field == Schema[sent[i].type][f]
    IN  Content(f, Fitting(field, sent[i].size) * field.each)

(* Every message is read as it was written, field by field, up to what its  *)
(* counts can express, and a message that broke off is never read, nor      *)
(* decoded from the bytes that did arrive.                                  *)
CodecRoundTrips ==
    /\ \A i \in 1..Len(received) : \A f \in 1..Len(Schema[sent[i].type]) :
          received[i][f] = Sent(i, f)
    /\ broken =>
          /\ Len(received) = Len(sent) - 1
          /\ LET last == sent[Len(sent)]
             IN  Decode(last.type, SubSeq(rest, HeaderSize + 1, Len(rest))) = <<>>
=============================================================================
