------------------------------- MODULE Codec -------------------------------
(***************************************************************************)
(* The milter protocol on the wire, in one direction of one connection:    *)
(* the encoders (milter-encoder.c, milter-command-encoder.c,               *)
(* milter-reply-encoder.c), the stream, which may be cut into chunks       *)
(* anywhere, the decoders (milter-decoder.c, milter-command-decoder.c,     *)
(* milter-reply-decoder.c) as the agent feeds them (milter-agent.c,        *)
(* cb_reader_flow), and what the leader makes of a reply code              *)
(* (milter_client_context_set_reply and milter_client_context_format_reply)*)
(*                                                                         *)
(* A byte is a number, a string a sequence of bytes without NUL.  A        *)
(* message is a record of the signal's name and its arguments; NULL and    *)
(* the empty string are one value, but for the optional parameters of      *)
(* change-from and add-recipient, where a missing argument is NULL.        *)
(***************************************************************************)
EXTENDS Integers, Sequences, FiniteSets, SequencesExt, TLC

CONSTANTS Messages,     \* what the owner of the encoder may ask it to send,
                        \* by direction, "commands" or "replies"
          Malformed,    \* contents of packets a foreign peer may send
          ChunkSize,    \* MILTER_CHUNK_SIZE, 65535 in the code
          Renegotiates, \* negotiate may be encoded after other messages
          MaxSent       \* bound: messages of a session

ASSUME CodecAssumption == /\ DOMAIN Messages \subseteq {"commands", "replies"}
                          /\ DOMAIN Malformed = DOMAIN Messages
                          /\ Renegotiates \in BOOLEAN
                          /\ ChunkSize \in Nat \ {0}
                          /\ MaxSent \in Nat

VARIABLES direction, \* what goes over this stream
          sent,      \* the messages and foreign contents written so far
          buffer,    \* priv->buffer of the encoder
          wire,      \* bytes written and not yet read
          decoder,   \* state, buffer and command_length of the decoder
          loop,      \* the loop of milter_decoder_decode: "idle" outside of it,
                     \* "decoding", or "failed" once decoder_error is set
          heard,     \* the signals the decoder emitted
          reported   \* decode errors the agent emitted

vars == <<direction, sent, buffer, wire, decoder, loop, heard, reported>>
-----------------------------------------------------------------------------
(* Bytes, numbers and strings. *)
NUL == 0
NL == 10
CR == 13
SPACE == 32
DOT == 46
OPEN == 123
CLOSE == 125
Digit == 48..57

\* g_htonl and g_ntohl, of numbers below 2^31.
U32(n) == <<n \div 16777216, (n \div 65536) % 256, (n \div 256) % 256, n % 256>>
Number(s) == s[1] * 16777216 + s[2] * 65536 + s[3] * 256 + s[4]

From(s, i) == SubSeq(s, i, Len(s))
Text(s) == Append(s, NUL)
Texts(ss) == FlattenSeq([i \in DOMAIN ss |-> Text(ss[i])])

\* The parts of s between the occurrences of b.
Split(s, b) ==
  LET at == {i \in DOMAIN s : s[i] = b}
      Cut(k) == IF k = 0 THEN 0
                ELSE IF k > Cardinality(at) THEN Len(s) + 1
                ELSE CHOOSE i \in at : Cardinality({j \in at : j <= i}) = k
  IN  [k \in 1..(Cardinality(at) + 1) |-> SubSeq(s, Cut(k - 1) + 1, Cut(k) - 1)]

Join(parts, glue) ==
  FlattenSeq([i \in DOMAIN parts |-> IF i = 1 THEN parts[i] ELSE glue \o parts[i]])

\* MilterCommand and MilterReply.
Tag == [abort |-> 65, body |-> 66, connect |-> 67, define_macro |-> 68,
        end_of_message |-> 69, helo |-> 72, header |-> 76,
        envelope_from |-> 77, end_of_header |-> 78, negotiate |-> 79,
        quit |-> 81, envelope_recipient |-> 82, data |-> 84, unknown |-> 85,
        add_recipient |-> 43, delete_recipient |-> 45,
        add_recipient_with_parameters |-> 50, shutdown |-> 52, accept |-> 97,
        replace_body |-> 98, continue |-> 99, discard |-> 100,
        change_from |-> 101, connection_failure |-> 102, add_header |-> 104,
        insert_header |-> 105, change_header |-> 109, progress |-> 112,
        quarantine |-> 113, reject |-> 114, skip |-> 115,
        temporary_failure |-> 116, reply_code |-> 121]

\* The commands and replies, grouped as the code is laid out.
EnvelopeNames == {"helo", "envelope_from", "envelope_recipient", "data",
                  "header"}
MessageNames == {"end_of_header", "body", "end_of_message", "abort", "quit",
                 "unknown"}
StatusNames == {"continue", "temporary_failure", "reject", "accept", "discard"}
HeaderEdits == {"add_header", "insert_header", "change_header"}
EnvelopeEdits == {"change_from", "add_recipient", "delete_recipient"}
OtherReplies == {"replace_body", "progress", "quarantine",
                 "connection_failure", "shutdown", "skip"}

\* MilterSocketFamily.
UNKNOWN == 85
UNIX == 76
INET == 52
INET6 == 54

\* "IPv6:", one byte here.
IPV6PREFIX == 73

\* Macro stages, by the command they belong to.
Stage == [connect |-> 0, helo |-> 1, envelope_from |-> 2,
          envelope_recipient |-> 3, data |-> 4, end_of_message |-> 5,
          end_of_header |-> 6]

\* The commands macros may be defined for.
MacroContexts == {"connect", "unknown"} \cup EnvelopeNames
                 \cup {"end_of_header", "body", "end_of_message"}
-----------------------------------------------------------------------------
(* The encoders. *)

\* The extended code is forgotten.
FormatReplyOnce(m) == m.code \o (IF m.message = <<>> THEN <<>>
                                 ELSE <<SPACE>> \o m.message[1])

\* milter_utils_format_reply_code: every line repeats the codes; a missing
\* message is "\n", two empty lines.
FormatReply(m) ==
  LET Line(l) ==
        m.code
        \o (IF m.extended = <<>> THEN <<>> ELSE <<SPACE>> \o m.extended[1])
        \o (IF l = <<>> THEN <<>>
            ELSE <<SPACE>> \o IF Last(l) = CR THEN Front(l) ELSE l)
      lines == Split(IF m.message = <<>> THEN <<NL>> ELSE m.message[1], NL)
  IN  Join([i \in DOMAIN lines |-> Line(lines[i])], <<CR, NL>>)

\* encode_macros: names of several letters are put in braces.
MacroName(k) == IF k[1] = OPEN \/ Len(k) = 1 THEN k
                ELSE <<OPEN>> \o k \o <<CLOSE>>
EncodeMacros(macros) ==
  FlattenSeq([i \in DOMAIN SetToSeq(DOMAIN macros) |->
     LET k == SetToSeq(DOMAIN macros)[i] IN
       IF k = <<>> THEN <<>> ELSE Text(MacroName(k)) \o Text(macros[k])])

\* encode_macros_request, for every command that has a stage.
EncodeRequests(requests) ==
  LET stages == SetToSeq(DOMAIN requests \cap DOMAIN Stage) IN
  FlattenSeq([i \in DOMAIN stages |->
     U32(Stage[stages[i]]) \o Text(Join(requests[stages[i]], <<SPACE>>))])

\* encode_connect_inet, encode_connect_inet6, encode_connect_unix,
\* encode_connect_unknown.
EncodeAddress(m) ==
  CASE m.family = UNKNOWN -> <<UNKNOWN>>
    [] m.family = UNIX    -> <<UNIX, 0, 0>> \o Text(m.address)
    [] m.family = INET    -> <<INET>> \o m.port \o Text(m.address)
    [] OTHER              -> <<INET6>> \o m.port
                             \o Text(<<IPV6PREFIX>> \o m.address)

\* The reply encoder returns no packet when the first argument is empty.
Encodable(m) ==
  m.name \in HeaderEdits \cup EnvelopeEdits \cup {"quarantine", "replace_body"}
    => m.args[1] # <<>>

\* What follows the command byte, by group: HELO to HEADER,
EncodeEnvelope(m) == IF m.name = "data" THEN <<>> ELSE Texts(m.args)

\* end of header to unknown,
EncodeMessage(m) == CASE m.name \in {"body", "end_of_message"} -> m.args[1]
                      [] m.name = "unknown" -> Texts(m.args)
                      [] OTHER -> <<>>

\* connect,
EncodeConnect(m) == Texts(m.args) \o EncodeAddress(m)

\* define macro,
EncodeDefineMacro(m) == <<Tag[m.context]>> \o EncodeMacros(m.macros)

\* negotiate, by either encoder,
EncodeNegotiate(m) == U32(m.version) \o U32(m.action) \o U32(m.step)
                      \o EncodeRequests(m.requests)

\* the header replies; delete-header is change-header without a value,
EncodeHeaderEdit(m) == (IF m.name = "add_header" THEN <<>> ELSE U32(m.index))
                       \o Texts(m.args)

\* the envelope replies: empty parameters of a recipient are left out, those
\* of change-from are not,
WithParameters(m) == m.name = "add_recipient" /\ Len(m.args) = 2 /\ m.args[2] # <<>>
EncodeEnvelopeEdit(m) ==
  IF m.name = "change_from" \/ WithParameters(m) THEN Texts(m.args)
  ELSE Text(m.args[1])

\* and the rest.
EncodeOther(m) == CASE m.name = "replace_body" -> m.args[1]
                    [] m.name = "quarantine" -> Texts(m.args)
                    [] OTHER -> <<>>

\* The statuses are bare, but for the reply code.
EncodeStatus(m) == IF m.name = "reply_code" THEN Text(FormatReply(m)) ELSE <<>>

EncodeArguments(m) ==
  CASE m.name \in EnvelopeNames -> EncodeEnvelope(m)
    [] m.name \in MessageNames  -> EncodeMessage(m)
    [] m.name \in HeaderEdits   -> EncodeHeaderEdit(m)
    [] m.name \in EnvelopeEdits -> EncodeEnvelopeEdit(m)
    [] m.name \in OtherReplies  -> EncodeOther(m)
    [] m.name = "connect"       -> EncodeConnect(m)
    [] m.name = "define_macro"  -> EncodeDefineMacro(m)
    [] m.name = "negotiate"     -> EncodeNegotiate(m)
    [] OTHER                    -> EncodeStatus(m)

Command(m) == IF WithParameters(m) THEN Tag.add_recipient_with_parameters
              ELSE Tag[m.name]

\* milter_encoder_pack.
Pack(content) == U32(Len(content)) \o content

\* milter_encoder_encode_negotiate does not clear the buffer, everything else
\* does.
Content(m) == <<Command(m)>> \o EncodeArguments(m)
Encode(buf, m) == Pack((IF m.name = "negotiate" THEN buf ELSE <<>>) \o Content(m))

\* flush_body and milter_client_context_replace_body hand the encoder what is
\* left until it has packed everything; an end of message is packed whole.
Pieces(m) ==
  IF m.name \notin {"body", "replace_body"} \/ Len(m.args[1]) <= ChunkSize
  THEN <<m>>
  ELSE LET s == m.args[1]
           n == (Len(s) + ChunkSize - 1) \div ChunkSize
       IN  [i \in 1..n |->
              [m EXCEPT !.args = <<SubSeq(s, (i - 1) * ChunkSize + 1,
                                          IF i < n THEN i * ChunkSize ELSE Len(s))>>]]

-----------------------------------------------------------------------------
(* The decoders.  A result says whether the packet was decoded, whether a    *)
(* GError was set, and which signal was emitted.                             *)
Ok(m) == [ok |-> TRUE, error |-> FALSE, signal |-> <<m>>]
Bad == [ok |-> FALSE, error |-> TRUE, signal |-> <<>>]
Silent == [ok |-> FALSE, error |-> FALSE, signal |-> <<>>]

NulAt(s) == SelectInSeq(s, LAMBDA b : b = NUL)
CString(s) == IF NulAt(s) = 0 THEN s ELSE SubSeq(s, 1, NulAt(s) - 1)

\* milter_decoder_decode_null_terminated_value finds no end: an error is set.
Unterminated == Bad

\* The value is found, then K on the value and on what follows it.
WithValue(s, K(_, _)) ==
  IF NulAt(s) = 0 THEN Unterminated ELSE K(CString(s), From(s, NulAt(s) + 1))

\* The same where the caller returns at null_character_point <= 0: an empty
\* value is refused and no error is set.
WithText(s, K(_, _)) == IF NulAt(s) = 1 THEN Silent ELSE WithValue(s, K)

Exactly(n, s) == IF s = <<>> THEN Ok([name |-> n]) ELSE Bad
OneText(n, s) == WithText(s, LAMBDA t, r : Ok([name |-> n, args |-> <<t>>]))

\* milter_decoder_decode_header_content.
DecodeHeader(n, s) ==
  WithText(s, LAMBDA name, r :
    WithValue(r, LAMBDA value, rest : Ok([name |-> n, args |-> <<name, value>>])))

\* decode_helo to decode_header.
DecodeEnvelope(n, s) == CASE n = "data" -> Exactly(n, s)
                          [] n = "header" -> DecodeHeader(n, s)
                          [] OTHER -> OneText(n, s)

\* decode_end_of_header to decode_unknown.
DecodeMessage(n, s) ==
  CASE n \in {"body", "end_of_message"} -> Ok([name |-> n, args |-> <<s>>])
    [] n = "unknown" -> OneText(n, s)
    [] OTHER -> Exactly(n, s)

\* decode_header_content_with_index; the callers pass two bytes too many.
DecodeIndexed(n, s) ==
  IF Len(s) < 4 THEN Silent
  ELSE WithText(From(s, 5), LAMBDA name, r :
         WithValue(r, LAMBDA value, rest :
           Ok([name |-> IF n = "change_header" /\ value = <<>>
                        THEN "delete_header" ELSE n,
               index |-> Number(SubSeq(s, 1, 4)), args |-> <<name, value>>])))

\* decode_two_string.
DecodeTwo(n, s) ==
  WithText(s, LAMBDA first, r :
    IF r = <<>> THEN Ok([name |-> n, args |-> <<first>>])
    ELSE WithText(r, LAMBDA second, rest :
           Ok([name |-> n, args |-> <<first, second>>])))

\* decode_reply_reply_code and find_space_character.
DecodeReplyCode(s) ==
  IF Len(s) < 3 \/ s[1] \notin {52, 53} \/ {s[2], s[3]} \notin SUBSET Digit
  THEN Bad
  ELSE WithText(s, LAMBDA all, rest :
         LET r == From(s, IF s[4] = SPACE THEN 5 ELSE 4)
             p == SelectInSeq(r, LAMBDA b : b = SPACE)
         IN  Ok([name |-> "reply_code", code |-> SubSeq(s, 1, 3),
                 extended |-> <<CString(IF p = 0 THEN r
                                        ELSE SubSeq(r, 1, p - 1))>>,
                 message |-> IF p = 0 THEN <<>>
                             ELSE <<CString(From(r, p + 1))>>]))

\* decode_define_macros.
Stripped(k) == IF k[1] = OPEN /\ Last(k) = CLOSE
               THEN SubSeq(k, 2, Len(k) - 1) ELSE k
DecodeMacros(context, s) ==
  LET parts == Split(s, NUL)
      n     == Len(parts) - 1
      Key(j) == Stripped(parts[2 * j - 1])
      Last2(k) == CHOOSE j \in 1..(n \div 2) :
                    /\ Key(j) = k
                    /\ \A i \in (j + 1)..(n \div 2) : Key(i) # k
  IN  IF \E j \in 1..n : j % 2 = 1 /\ parts[j] = <<>> THEN Silent
      ELSE IF parts[n + 1] # <<>> \/ n % 2 = 1 THEN Bad
      ELSE Ok([name |-> "define_macro", context |-> context,
               macros |-> [k \in {Key(j) : j \in 1..(n \div 2)} |->
                             parts[2 * Last2(k)]]])

\* decode_define_macro and check_macro_context.
DecodeDefineMacro(s) ==
  LET contexts == {c \in MacroContexts : s # <<>> /\ Tag[c] = s[1]} IN
  IF contexts = {} THEN Bad
  ELSE DecodeMacros(CHOOSE c \in contexts : TRUE, Tail(s))

\* inet_pton: digits and dots for IPv4, no prefix left for IPv6.
IsAddress(a) == \A i \in DOMAIN a : a[i] \in Digit \cup {DOT}

\* decode_connect_{inet,inet6,unix}_address: r is the family, the port and the
\* address.
DecodeAddress(host, r) ==
  WithText(From(r, 4), LAMBDA a, rest :
    LET f == r[1]
        b == IF f = INET6 /\ a[1] = IPV6PREFIX THEN Tail(a) ELSE a
    IN  IF f # UNIX /\ ~IsAddress(b) THEN Bad
        ELSE Ok([name |-> "connect", args |-> <<host>>, family |-> f,
                 port |-> IF f = UNIX THEN <<>> ELSE SubSeq(r, 2, 3),
                 address |-> b]))

\* decode_connect_content.
DecodeConnect(s) ==
  WithText(s, LAMBDA host, r :
    IF r = <<UNKNOWN>>
    THEN Ok([name |-> "connect", args |-> <<host>>, family |-> UNKNOWN,
             port |-> <<>>, address |-> <<>>])
    ELSE IF Len(r) < 3 \/ r[1] \notin {UNIX, INET, INET6} THEN Bad
    ELSE DecodeAddress(host, r))

\* decode_macros_requests: the lists from position i on; the last list of a
\* stage counts.
DecodeRequests(s) ==
  LET from[i \in 1..(Len(s) + 1)] ==
        IF i > Len(s) THEN Ok(<<>>)
        ELSE IF i + 3 > Len(s) THEN Bad
        ELSE WithText(From(s, i + 4), LAMBDA symbols, r :
               LET stages == {c \in DOMAIN Stage :
                                Stage[c] = Number(SubSeq(s, i, i + 3))}
                   later  == from[Len(s) - Len(r) + 1]
               IN  IF stages = {} THEN Bad
                   ELSE IF ~later.ok THEN later
                   ELSE Ok(later.signal[1]
                           @@ [c \in stages |-> Split(symbols, SPACE)]))
  IN  IF s = <<>> THEN Ok(<<>>) ELSE from[1]

\* milter_decoder_decode_negotiate, decode_negotiate, decode_reply_negotiate.
DecodeNegotiate(d, s) ==
  IF Len(s) < 12 \/ (d = "commands" /\ Len(s) > 12) THEN Bad
  ELSE LET r == DecodeRequests(From(s, 13)) IN
       IF ~r.ok THEN r
       ELSE Ok([name |-> "negotiate", version |-> Number(SubSeq(s, 1, 4)),
                action |-> Number(SubSeq(s, 5, 8)),
                step |-> Number(SubSeq(s, 9, 12)), requests |-> r.signal[1]])

\* decode_reply_add_header, decode_reply_insert_header and
\* decode_reply_change_header; beyond are the two bytes behind the content.
DecodeHeaderEdit(n, s, beyond) == IF n = "add_header" THEN DecodeHeader(n, s)
                                  ELSE DecodeIndexed(n, s \o beyond)

\* decode_reply_change_from to decode_reply_delete_recipient; a recipient
\* without NUL is an error, and is passed on.
DecodeEnvelopeEdit(n, s) ==
  CASE n = "delete_recipient" -> OneText(n, s)
    [] n = "add_recipient" -> [Ok([name |-> n, args |-> <<CString(s)>>])
                                 EXCEPT !.error = NulAt(s) = 0]
    [] n = "change_from" -> DecodeTwo(n, s)
    [] OTHER -> DecodeTwo("add_recipient", s)

\* decode_reply_replace_body to decode_reply_skip.
DecodeOther(n, s) == CASE n = "replace_body" -> Ok([name |-> n, args |-> <<s>>])
                       [] n = "quarantine" -> OneText(n, s)
                       [] OTHER -> Exactly(n, s)

\* decode_reply_temporary_failure to decode_reply_discard.
DecodeStatus(n, s) == Exactly(n, s)

\* The names with this command byte in a set: none, or one.
Named(names, byte) == {n \in names : Tag[n] = byte}

\* decode of the command decoder.
DecodeCommand(byte, s) ==
  LET Is(names) == Named(names, byte) # {}
      n == CHOOSE x \in Named(DOMAIN Tag, byte) : TRUE
  IN  CASE Is({"negotiate"})    -> DecodeNegotiate("commands", s)
        [] Is({"define_macro"}) -> DecodeDefineMacro(s)
        [] Is({"connect"})      -> DecodeConnect(s)
        [] Is(EnvelopeNames)    -> DecodeEnvelope(n, s)
        [] Is(MessageNames)     -> DecodeMessage(n, s)
        [] OTHER                -> Bad

\* decode of the reply decoder.
DecodeReply(byte, s, beyond) ==
  LET Is(names) == Named(names, byte) # {}
      n == CHOOSE x \in Named(DOMAIN Tag, byte) : TRUE
  IN  CASE Is({"negotiate"})  -> DecodeNegotiate("replies", s)
        [] Is({"reply_code"}) -> DecodeReplyCode(s)
        [] Is(StatusNames)    -> DecodeStatus(n, s)
        [] Is(HeaderEdits)    -> DecodeHeaderEdit(n, s, beyond)
        [] Is(EnvelopeEdits \cup {"add_recipient_with_parameters"}) ->
             DecodeEnvelopeEdit(n, s)
        [] Is(OtherReplies)   -> DecodeOther(n, s)
        [] OTHER              -> Bad

\* The decode signal: c is the content, beyond the two bytes behind it.
Decode(d, c, beyond) ==
  LET byte == Head(c \o beyond) IN
  IF d = "commands" THEN DecodeCommand(byte, From(c, 2))
  ELSE DecodeReply(byte, From(c, 2), beyond)

\* A complete packet waits for the next byte.
NeedsOneMore(d) == CASE d.state = "start"   -> Len(d.buffer) = 0
                     [] d.state = "length"  -> Len(d.buffer) < 4
                     [] d.state = "content" -> Len(d.buffer) <= d.command_length
                     [] OTHER               -> TRUE

\* Where milter_decoder_decode stops for lack of bytes.
NeedsMore(d) == CASE d.state = "start"   -> Len(d.buffer) = 0
                  [] d.state = "length"  -> Len(d.buffer) < 4
                  [] d.state = "content" -> Len(d.buffer) < d.command_length
                  [] OTHER               -> TRUE

-----------------------------------------------------------------------------
Init == /\ direction \in DOMAIN Messages
        /\ sent = <<>> /\ buffer = <<>> /\ wire = <<>> /\ heard = <<>>
        /\ decoder = [state |-> "start", buffer |-> <<>>, command_length |-> 0]
        /\ loop = "idle"
        /\ reported = 0

\* Something is encoded and written; the peer negotiates first.
Send(m) ==
  LET pieces == Pieces(m)
      packets == [i \in DOMAIN pieces |-> Encode(buffer, pieces[i])]
  IN  /\ Len(sent) < MaxSent
      /\ Encodable(m)
      /\ m.name = "negotiate" => sent = <<>> \/ Renegotiates
      /\ sent' = Append(sent, m)
      /\ wire' = wire \o FlattenSeq(packets)
      /\ buffer' = Last(packets)
      /\ UNCHANGED <<direction, decoder, loop, heard, reported>>

\* Another implementation writes a packet this one would not write.
SendForeign(c) ==
  /\ Len(sent) < MaxSent
  /\ sent' = Append(sent, [name |-> "foreign", content |-> c])
  /\ wire' = wire \o Pack(c)
  /\ UNCHANGED <<direction, buffer, decoder, loop, heard, reported>>

\* cb_reader_flow: the next size bytes of the stream arrive in one read and
\* milter_decoder_decode takes them.
Read(size) ==
  /\ loop = "idle"
  /\ wire' = From(wire, size + 1)
  /\ decoder' = [decoder EXCEPT !.buffer = @ \o SubSeq(wire, 1, size)]
  /\ loop' = "decoding"
  /\ UNCHANGED <<direction, sent, buffer, heard, reported>>

\* The turns of its loop: IN_START,
DecodeStart ==
  /\ loop # "idle" /\ ~NeedsMore(decoder) /\ decoder.state = "start"
  /\ decoder' = [decoder EXCEPT !.state = "length"]
  /\ UNCHANGED <<direction, sent, buffer, wire, loop, heard, reported>>

\* IN_COMMAND_LENGTH,
DecodeLength ==
  /\ loop # "idle" /\ ~NeedsMore(decoder) /\ decoder.state = "length"
  /\ decoder' = [state |-> "content", buffer |-> From(decoder.buffer, 5),
                 command_length |-> Number(SubSeq(decoder.buffer, 1, 4))]
  /\ UNCHANGED <<direction, sent, buffer, wire, loop, heard, reported>>

\* A packet that cannot be decoded is skipped, its error kept.
DecodeContentGoesOn ==
  LET n    == decoder.command_length
      rest == From(decoder.buffer, n + 1)
      r    == Decode(direction, SubSeq(decoder.buffer, 1, n),
                     SubSeq(rest \o <<NUL, NUL>>, 1, 2))
  IN  /\ loop # "idle" /\ ~NeedsMore(decoder) /\ decoder.state = "content"
      /\ heard' = heard \o r.signal
      /\ loop' = IF r.error THEN "failed" ELSE loop
      /\ decoder' = [decoder EXCEPT !.state = "start", !.buffer = rest]
      /\ UNCHANGED <<direction, sent, buffer, wire, reported>>

\* IN_COMMAND_CONTENT; behind the buffer are the NUL of the GString and a byte.
DecodeContent ==
  LET n    == decoder.command_length
      rest == From(decoder.buffer, n + 1)
      r    == Decode(direction, SubSeq(decoder.buffer, 1, n),
                     SubSeq(rest \o <<NUL, NUL>>, 1, 2))
  IN  /\ loop # "idle" /\ ~NeedsMore(decoder) /\ decoder.state = "content"
      /\ heard' = heard \o r.signal
      /\ loop' = IF r.error THEN "failed" ELSE loop
      /\ decoder' = IF r.ok
                    THEN [decoder EXCEPT !.state = "start", !.buffer = rest]
                    ELSE [decoder EXCEPT !.state = "error"]
      /\ UNCHANGED <<direction, sent, buffer, wire, reported>>

\* The agent looks at the decoder's state: it reports again at every read.
DecodeEndAgain ==
  /\ loop # "idle" /\ NeedsMore(decoder)
  /\ loop' = "idle"
  /\ reported' = reported + (IF decoder.state = "error" THEN 1 ELSE 0)
  /\ UNCHANGED <<direction, sent, buffer, wire, decoder, heard>>

\* and the end of the loop, where cb_reader_flow reports decoder_error.
DecodeEnd ==
  /\ loop # "idle" /\ NeedsMore(decoder)
  /\ loop' = "idle"
  /\ reported' = reported + (IF loop = "failed" THEN 1 ELSE 0)
  /\ UNCHANGED <<direction, sent, buffer, wire, decoder, heard>>

Next == \/ \E m \in Messages[direction] : Send(m)
        \/ \E c \in Malformed[direction] : SendForeign(c)
        \/ \E size \in 1..Len(wire) : Read(size)
        \/ DecodeStart \/ DecodeLength \/ DecodeContent \/ DecodeEnd

Spec == Init /\ [][Next]_vars
-----------------------------------------------------------------------------
(* Properties. *)

\* What a message says, however it was cut: chunks byte by byte, an empty
\* value of change-header deletes, empty parameters are none.
Meaning(m) ==
  CASE m.name \in {"body", "replace_body"} ->
         [i \in DOMAIN m.args[1] |-> [name |-> m.name, byte |-> m.args[1][i]]]
    [] m.name = "change_header" /\ m.args[2] = <<>> ->
         <<[m EXCEPT !.name = "delete_header"]>>
    [] m.name \in {"change_from", "add_recipient"} /\ Last(m.args) = <<>> ->
         <<[m EXCEPT !.args = Front(@)]>>
    [] OTHER -> <<m>>
Meanings(ms) == FlattenSeq([i \in DOMAIN ms |-> Meaning(ms[i])])

\* The messages before the first foreign packet.
Before(ms) == LET p == SelectInSeq(ms, LAMBDA m : m.name = "foreign")
              IN  IF p = 0 THEN ms ELSE SubSeq(ms, 1, p - 1)
Own == Before(sent)

\* The decoder tells its owner what the encoder was told to send, in that
\* order and nothing else, however the stream is cut, and nothing that follows
\* a packet it cannot decode (both encoders, both decoders,
\* milter_decoder_decode).
Faithful == IsPrefix(Meanings(heard), Meanings(Own))

\* When the last byte has been read every message has been heard: no packet
\* is left in a buffer (milter_decoder_decode, milter_encoder_pack).
Complete == wire = <<>> /\ loop = "idle" => Meanings(heard) = Meanings(Own)

\* A packet that cannot be decoded is reported, once, and stops the decoder;
\* nothing else is reported (cb_reader_flow, milter_decoder_decode).
ErrorsReported ==
  loop = "idle" =>
    /\ reported = IF decoder.state = "error" THEN 1 ELSE 0
    /\ wire = <<>> /\ Own # sent => decoder.state = "error"

\* milter_client_context_set_reply accepts an extended code of the class of
\* the code (extended_code_parse, components of one digit).
SetReply(m) ==
  m.extended = <<>> \/ LET e == m.extended[1] IN
    /\ Len(e) = 5 /\ e[2] = DOT /\ e[4] = DOT
    /\ {e[1], e[3], e[5]} \subseteq Digit
    /\ e[1] = m.code[1]

\* A refusal in a child's own words reaches the MTA in these words: the leader
\* takes the codes and the text the decoder found (cb_reply_code) and the
\* client context formats them as the child's did.
ReplyRelayed ==
  \A i \in DOMAIN heard : heard[i].name = "reply_code" =>
    /\ SetReply(heard[i])
    /\ \E j \in DOMAIN sent : /\ sent[j].name = "reply_code"
                              /\ FormatReply(heard[i]) = FormatReply(sent[j])
-----------------------------------------------------------------------------
(* What the proofs ask of Messages and Malformed, one packet at a time. *)
Byte == 0..255
Bytes == Seq(Byte)

\* A content whose length has a zero as its first byte.
Packable(c) == c \in Bytes /\ Len(c) < 16777216

\* What may be behind a content: a zero, the first byte of a length or the NUL
\* of the GString, and any byte.
Beyond == {NUL} \X Byte

\* The messages the encoder packs, and the packets they are sent in.
Encoded(d) == {m \in Messages[d] : Encodable(m)}
Part(d) == UNION {Range(Pieces(m)) : m \in Encoded(d)}

\* A body or a new body is bytes.
IsBody(m) == /\ m = [name |-> m.name, args |-> <<m.args[1]>>]
             /\ m.args[1] \in Bytes

\* What is decoded from a packet, whatever is behind it, says what was encoded,
\* and a reply code is decoded as it was, with an extended code that
\* milter_client_context_set_reply accepts.
RoundTrip(d, p) ==
  /\ Packable(Content(p))
  /\ \A b \in Beyond :
       LET r == Decode(d, Content(p), b)
           x == r.signal[1]
       IN  /\ r = Ok(x)
           /\ Meaning(x) = Meaning(p)
           /\ x.name = "reply_code" => x = p /\ SetReply(x)

\* A malformed packet is refused with an error, whatever is behind it.
Refused(d, c) == Packable(c) /\ \A b \in Beyond : Decode(d, c, b) = Bad

Sound ==
  \A d \in DOMAIN Messages :
    /\ \A m \in Encoded(d) :
         m.name # "foreign" /\ (m.name \in {"body", "replace_body"} => IsBody(m))
    /\ \A p \in Part(d) : RoundTrip(d, p)
    /\ \A c \in Malformed[d] : Refused(d, c)
============================================================================
