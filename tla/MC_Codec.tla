------------------------------ MODULE MC_Codec ------------------------------
EXTENDS Codec

\* Two letters, and the strings the arguments are made of.
a == 97
b == 98
A == <<a>>
AB == <<a, b>>
Codes == <<53, 53, 48>>
Extended == <<53, DOT, 55, DOT, 49>>

Option(requests) == [name |-> "negotiate", version |-> 6, action |-> 258,
                     step |-> 65537, requests |-> requests]
Code(extended, message) == [name |-> "reply_code", code |-> Codes,
                            extended |-> extended, message |-> message]

\* One of every command, and the forms that differ on the wire.
CommandMessages ==
  {Option(<<>>)}
  \cup [name : {"data", "end_of_header", "abort", "quit"}]
  \cup [name : {"helo", "envelope_from", "envelope_recipient", "unknown"},
         args : {<<A>>}]
  \cup [name : {"header"}, args : {<<A, <<>>>>, <<AB, A>>}]
  \cup [name : {"body"}, args : {<<A>>, <<<<a, NUL, b>>>>}]
  \cup [name : {"end_of_message"}, args : {<<<<>>>>, <<A>>}]
  \cup [name : {"define_macro"}, context : {"connect"},
         macros : {<<>>, A :> AB, AB :> <<>> @@ A :> A}]
  \cup [name : {"connect"}, args : {<<A>>}, family : {UNKNOWN}, port : {<<>>},
         address : {<<>>}]
  \cup [name : {"connect"}, args : {<<A>>}, family : {UNIX}, port : {<<>>},
         address : {A}]
  \cup [name : {"connect"}, args : {<<A>>}, family : {INET, INET6},
         port : {<<0, 25>>}, address : {<<49, DOT, 49>>}]

ReplyMessages ==
  {Option("connect" :> <<A, AB>> @@ "end_of_header" :> <<A>>),
   Code(<<Extended>>, <<<<a, SPACE, b>>>>)}
  \cup [name : StatusNames \cup {"progress", "connection_failure", "shutdown",
                                "skip"}]
  \cup [name : {"delete_recipient", "quarantine"}, args : {<<A>>}]
  \cup [name : {"add_header"}, args : {<<A, <<>>>>, <<AB, A>>}]
  \cup [name : {"insert_header", "change_header"}, index : {1, 300},
         args : {<<A, <<>>>>, <<A, AB>>}]
  \cup [name : {"change_from"}, args : {<<A>>, <<A, AB>>}]
  \cup [name : {"add_recipient"}, args : {<<A>>, <<A, <<>>>>, <<A, AB>>}]
  \cup [name : {"replace_body"}, args : {<<A>>, <<<<a, NUL, b, a, b>>>>}]

\* Packets that are refused with an error: no content, an unknown command, a
\* string without NUL, bytes too many, a bad number, address or context.
MalformedCommands == {<<>>, <<1>>, <<Tag.helo, a>>, <<Tag.data, a>>,
                      <<Tag.header, a, NUL, b>>, <<Tag.define_macro>>,
                      <<Tag.define_macro, Tag.quit>>,
                      <<Tag.connect, a, NUL, INET, 0, 25, a, NUL>>}
MalformedReplies == {<<>>, <<Tag.helo, a, NUL>>, <<Tag.quarantine, a>>,
                     <<Tag.accept, a>>, <<Tag.change_from, a, NUL, b>>,
                     <<Tag.reply_code, 50, 53, 48, NUL>>}

\* A refusal without an extended code, or of several lines.
ReplyCodes == {Code(<<>>, <<AB>>), Code(<<Extended>>, <<<<a, NL, b>>>>)}

AllMessages == [commands |-> CommandMessages, replies |-> ReplyMessages]
AllMalformed == [commands |-> MalformedCommands, replies |-> MalformedReplies]
OnlyReplyCodes == [replies |-> ReplyCodes]
NoneMalformed == [replies |-> {}]

\* What the theorems assume of single packets, where no theorem says it: of
\* reply codes PlainRoundTrips does.
ASSUME MessagesAssumption ==
  Messages = AllMessages =>
    \A d \in DOMAIN Messages :
      /\ \A m \in Messages[d] : m.name \in {"body", "replace_body"} => IsBody(m)
      /\ \A p \in Part(d) : p.name # "reply_code" => RoundTrip(d, p)
      /\ \A c \in Malformed[d] : Refused(d, c)
=============================================================================
