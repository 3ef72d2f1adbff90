------------------------------ MODULE Framing ------------------------------
(***************************************************************************)
(* How messages travel over a connection: a header of two numbers and a    *)
(* body, each sent with one write and received with one read, which may    *)
(* return less than it asked for.  On one connection goes one message, or  *)
(* LOG_ON with GET_CLIENTS behind it.                                      *)
(*                                                                         *)
(* The connection carries digits below Radix, which stand for bytes: a     *)
(* number in a header has two of them, and so have a port and an IPv4      *)
(* address; the name of a command has two or three, none of which is 0.    *)
(***************************************************************************)
EXTENDS Naturals, Sequences, SequencesExt, FiniteSetsExt

CONSTANTS
    Radix,          \* digits are 0 .. Radix - 1
    OptionValues,   \* what the user may give as port (option -p)
    MinPort,        \* 2000
    Addresses,      \* the IPv4 addresses of hosts
    LongAddresses   \* those, of all there are, that take 15 characters to print

Digit      == 0 .. Radix - 1
u16_values == Radix * Radix
INADDR_NONE == <<Radix - 1, Radix - 1>>     \* 255.255.255.255

ASSUME FramingAssumption ==
    /\ Radix \in Nat /\ Radix > 7
    /\ OptionValues \subseteq Nat /\ MinPort \in Nat
    /\ Addresses \subseteq Digit \X Digit
    /\ LongAddresses \subseteq Digit \X Digit /\ INADDR_NONE \in LongAddresses

\* htons and htonl; ntohs and ntohl, for which missing digits are 0.
Digits(n) == <<n \div Radix, n % Radix>>
Number(d) == (IF Len(d) > 0 THEN d[1] * Radix ELSE 0) + (IF Len(d) > 1 THEN d[2] ELSE 0)

\* What there is of a sequence from m to n.
Part(s, m, n) == SubSeq(s, m, Min({n, Len(s)}))

name ==
    [LOG_ON |-> <<1, 2>>, LOG_OFF |-> <<1, 3>>, USER_ON |-> <<2, 2>>, USER_OFF |-> <<2, 3>>,
     GET_CLIENTS |-> <<4, 5>>, GET_FILE |-> <<4, 6>>, GET_FILE_LIST |-> <<4, 6, 7>>,
     CLIENT_LIST |-> <<5, 7>>, FILE_LIST |-> <<6, 7>>,
     FILE_NOT_FOUND |-> <<6, 1>>, FILE_UP_TO_DATE |-> <<6, 3>>,
     FILE |-> <<>>]     \* a file is sent with command_length 0

\* In the order in which handle_request tries them.
Commands  == <<"LOG_ON", "GET_CLIENTS", "LOG_OFF", "GET_FILE", "GET_FILE_LIST", "USER_ON", "USER_OFF">>
\* In the order in which request_file_from_client does, and what it takes the
\* answer for otherwise.
Verdicts  == <<"FILE_NOT_FOUND", "FILE_UP_TO_DATE">>
-----------------------------------------------------------------------------
(* Options, addresses and ports. *)

\* Option -p: checked as a number of 64 bits, kept as one of 16.
Accepted(value)    == value >= MinPort
port_number(value) == value % u16_values

\* The buffer has room for 15 bytes: a longer text, with its final 0, is empty.
inet_ntop(binary) == IF binary \in LongAddresses THEN <<>> ELSE binary
inet_addr(text)   == IF text = <<>> THEN INADDR_NONE ELSE text

\* Mutant: the port is not put into the host's order.
client_tuple_from_ntoh_bytes_unswapped(data) ==
    [ip |-> inet_ntop(SubSeq(data, 1, 2)), port |-> Number(<<data[4], data[3]>>)]

client_tuple_from_ntoh_bytes(data) ==
    [ip |-> inet_ntop(SubSeq(data, 1, 2)), port |-> Number(SubSeq(data, 3, 4))]

TupleBytes(tuple) == inet_addr(tuple.ip) \o Digits(tuple.port)

\* A client names itself; the server passes on what it has understood.
Own(value, a)   == TupleBytes([ip |-> a, port |-> port_number(value)])
Heard(value, a) == TupleBytes(client_tuple_from_ntoh_bytes(Own(value, a)))
-----------------------------------------------------------------------------
(* Messages: what the functions create_* build. *)

Message(command, payload) == [command |-> command, payload |-> payload]

\* Mutant: the length does not count the name.
header_of_payload(message) ==
    Digits(Len(message.payload)) \o Digits(Len(name[message.command]))

header_hton(message) ==
    Digits(Len(name[message.command]) + Len(message.payload)) \o Digits(Len(name[message.command]))

\* ipv4_socket_send_request writes twice.
Writes(message) == <<header_hton(message), name[message.command] \o message.payload>>

\* What goes over a connection: a request or a notice, an answer, or LOG_ON
\* and GET_CLIENTS.  (A pathname, a version, a content is a few digits.)
Conversations(value, a) ==
    {<<Message("LOG_ON", Own(value, a)), Message("GET_CLIENTS", <<>>)>>}
      \cup {<<Message("LOG_OFF", Own(value, a))>>}
      \cup {<<Message(command, Heard(value, a))>> :
               command \in {"USER_ON", "USER_OFF", "CLIENT_LIST"}}
      \cup {<<Message(command, <<>>)>> :
               command \in {"GET_FILE_LIST", "FILE_NOT_FOUND", "FILE_UP_TO_DATE"}}
      \cup {<<Message(command, <<2, 0, 1>>)>> :
               command \in {"GET_FILE", "FILE_LIST", "FILE"}}
-----------------------------------------------------------------------------
VARIABLES
    option,         \* the port a client was given
    address,        \* its host's address
    conversation,   \* the messages of one connection
    writes,         \* how often the sender has written
    stream,         \* the digits it wrote
    closed,         \* has it ended?
    position,       \* how many digits the receiver has read
    header,         \* the header it read last
    pc,             \* what it reads next, if it reads on
    listed,         \* has the server got LOG_ON on this connection?
    handled,        \* the messages it handled
    cut             \* what was ever cut off by a short read

sender   == <<option, address, conversation>>
receiver == <<position, header, pc, listed, handled, cut>>
vars     == <<sender, writes, stream, closed, receiver>>

AllWrites == FlattenSeq([i \in 1 .. Len(conversation) |-> Writes(conversation[i])])

Init ==
    /\ option \in {value \in OptionValues : Accepted(value)}
    /\ address \in Addresses
    /\ conversation \in Conversations(option, address)
    /\ writes = 0
    /\ stream = <<>>
    /\ closed = FALSE
    /\ position = 0
    /\ header = [bytes |-> 0, command_length |-> 0]
    /\ pc = "header"
    /\ listed = FALSE
    /\ handled = <<>>
    /\ cut = {}

Write ==
    /\ ~closed
    /\ writes < Len(AllWrites)
    /\ writes' = writes + 1
    /\ stream' = stream \o AllWrites[writes + 1]
    /\ UNCHANGED <<sender, closed, receiver>>

\* The sender is done, or its process ends.
Close ==
    /\ ~closed
    /\ closed' = TRUE
    /\ UNCHANGED <<sender, writes, stream, receiver>>
-----------------------------------------------------------------------------
(* The receiver: ipv4_socket_get_request and who calls it. *)

\* Mutant: a read that the end cuts short counts as whole.
Received_past_the_end(n) ==
    IF n = 0 \/ (closed /\ position = Len(stream)) THEN {0}
    ELSE IF closed /\ position + n > Len(stream) THEN {n}
    ELSE 1 .. Min({n, Len(stream) - position})

\* What a read of n may return: it waits, unless n is 0, while there is nothing.
Received(n) ==
    IF n = 0 \/ (closed /\ position = Len(stream)) THEN {0}
    ELSE 1 .. Min({n, Len(stream) - position})

ReadHeader ==
    /\ pc = "header"
    /\ \E k \in Received(4) :
          LET digits == Part(stream, position + 1, position + k) IN
          /\ position' = position + k
          /\ header' = [bytes |-> Number(Part(digits, 1, 2)),
                        command_length |-> Number(Part(digits, 3, 4))]
          /\ pc' = IF k = 0 THEN "done" ELSE "body"
          /\ cut' = IF k \in 1 .. 3 THEN cut \cup {"header"} ELSE cut
    /\ UNCHANGED <<sender, writes, stream, closed, listed, handled>>

\* Mutant: n may be 0.
str_n_may_equal_nothing(data, command, n) ==
    \A i \in 1 .. Min({n, Len(name[command]) + 1, Len(data)}) :
        data[i] = Append(name[command], 0)[i]

(***************************************************************************)
(* str_n_equals: strncmp stops after n or behind the name.  What data does *)
(* not hold is memory that nobody wrote: it may equal anything.            *)
(***************************************************************************)
str_n_may_equal(data, command, n) ==
    /\ n # 0
    /\ \A i \in 1 .. Min({n, Len(name[command]) + 1, Len(data)}) :
          data[i] = Append(name[command], 0)[i]

str_n_equals(data, command, n) ==
    /\ str_n_may_equal(data, command, n)
    /\ Min({n, Len(name[command]) + 1}) <= Len(data)

\* What the receiver looks for, and what it takes other messages for.
Asked == conversation[1].command
Names ==
    CASE Asked \in ToSet(Commands)               -> Commands
      [] Asked \in ToSet(Verdicts) \cup {"FILE"} -> Verdicts
      [] OTHER                                   -> <<>>
Other ==
    CASE Names = Commands -> "unknown"
      [] Names = Verdicts -> "FILE"
      [] OTHER            -> Asked

\* The first name that data equals.
Taken(data) ==
    LET n == header.command_length
        Equal(i) == str_n_equals(data, Names[i], n)
        NoneBefore(i) == \A j \in 1 .. i - 1 : ~Equal(j)
    IN  {Names[i] : i \in {j \in 1 .. Len(Names) :
                              str_n_may_equal(data, Names[j], n) /\ NoneBefore(j)}}
          \cup {Other : i \in {j \in {Len(Names) + 1} : NoneBefore(j)}}

\* Mutant: handle_log_on_request closes the connection.
Next_pc_closed(command) == IF listed /\ command = "unknown" THEN "header" ELSE "done"

\* Every handler closes the connection, except that of LOG_ON; an unknown
\* command does too, or rather forgets it, unless it is in the server's list.
Next_pc(command) ==
    IF command = "LOG_ON" \/ (listed /\ command = "unknown") THEN "header" ELSE "done"

ReadBody ==
    /\ pc = "body"
    /\ \E k \in Received(header.bytes) :
          LET data == Part(stream, position + 1, position + k)
              n    == header.command_length
          IN
          /\ position' = position + k
          /\ \/ /\ k = 0     \* a null request
                /\ pc' = IF listed /\ header.bytes = 0 THEN "header" ELSE "done"
                /\ UNCHANGED <<listed, handled, cut>>
             \/ /\ k > 0
                /\ cut' = cut \cup (IF k < header.bytes THEN {"payload"} ELSE {})
                              \cup (IF k < n THEN {"name"} ELSE {})
                /\ \E command \in Taken(data) :
                      /\ handled' = IF command = "unknown" THEN handled
                                    ELSE Append(handled,
                                                Message(command, Part(data, n + 1, header.bytes)))
                      /\ listed' = (listed \/ command = "LOG_ON")
                      /\ pc' = Next_pc(command)
    /\ UNCHANGED <<sender, writes, stream, closed, header>>

Receive == ReadHeader \/ ReadBody

Next == Write \/ Close \/ Receive

Spec == Init /\ [][Next]_vars

\* The receiver runs; the sender need not go on.
FairSpec == Spec /\ WF_vars(Receive)
-----------------------------------------------------------------------------
Messages == [command : DOMAIN name, payload : Seq(Digit)]

(***************************************************************************)
(* The values of the variables.  About reads that return less than asked   *)
(* for: nothing is counted that was not sent.                              *)
(***************************************************************************)
TypeOK ==
    /\ option \in OptionValues
    /\ address \in Addresses
    /\ conversation \in Seq(Messages)
    /\ writes \in 0 .. Len(AllWrites)
    /\ stream \in Seq(Digit)
    /\ closed \in BOOLEAN
    /\ position \in 0 .. Len(stream)
    /\ header \in [bytes : 0 .. u16_values - 1, command_length : 0 .. u16_values - 1]
    /\ pc \in {"header", "body", "done"}
    /\ listed \in BOOLEAN
    /\ handled \in Seq(Messages)
    /\ cut \subseteq {"header", "name", "payload"}

(***************************************************************************)
(* As long as no read is short, what is handled is what was sent, message  *)
(* for message and digit for digit, wherever the sender stops; two         *)
(* messages on one connection keep their boundary.                         *)
(***************************************************************************)
WholeReadsAreExact == cut = {} => IsPrefix(handled, conversation)

(***************************************************************************)
(* And everything that was sent is handled, unless a read is short.        *)
(***************************************************************************)
MessagesArrive ==
    writes = Len(AllWrites) ~> (handled = conversation \/ cut # {})

(***************************************************************************)
(* Whatever is cut, a process does for a new connection what it was asked  *)
(* or nothing - unless the very name was cut, whose end is then memory     *)
(* nobody wrote.  (It is not so for answers: a FILE_NOT_FOUND whose header *)
(* was cut is taken for a file.)                                           *)
(***************************************************************************)
FirstCommandIsTheOneSent ==
    Names = Commands /\ handled # <<>> /\ "name" \notin cut =>
        handled[1].command = Asked

(***************************************************************************)
(* Who is told of a client, by itself or by the server, can connect to it: *)
(* at the port it was given, if that has 16 bits, and at its address, if   *)
(* it is short enough for inet_ntop's buffer.                              *)
(***************************************************************************)
AnnouncedIsReachable ==
    cut = {} => \A i \in 1 .. Len(handled) :
        handled[i].command \in {"LOG_ON", "LOG_OFF", "USER_ON", "USER_OFF", "CLIENT_LIST"} =>
            LET tuple == client_tuple_from_ntoh_bytes(handled[i].payload) IN
            /\ \/ inet_addr(tuple.ip) = address
               \/ address \in LongAddresses
            /\ \/ tuple.port = option
               \/ option >= u16_values
=============================================================================
