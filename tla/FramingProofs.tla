--------------------------- MODULE FramingProofs ---------------------------
(***************************************************************************)
(* TLAPS: what is received is what was sent, for digits of any width, any  *)
(* addresses and ports, and whatever part of a message a read returns.     *)
(***************************************************************************)
EXTENDS Framing, DataLemmas

(* Digits. *)

\* A digit is wide enough for what the names and the lengths need.
LEMMA Widths == Radix \in Nat /\ Radix > 7 /\ u16_values \in Nat /\ u16_values > Radix
<1>1. Radix \in Nat /\ Radix > 7
  BY FramingAssumption
<1>2. \A r \in Nat : r > 7 => r * r \in Nat /\ r * r > r
  OBVIOUS
<1>. QED BY <1>1, <1>2 DEF u16_values

\* htons and ntohs undo each other, for what 16 bits hold.
LEMMA DigitsAre ==
    ASSUME NEW n \in 0 .. u16_values - 1
    PROVE  Digits(n) \in Digit \X Digit /\ Number(Digits(n)) = n
<1>1. n \in Nat /\ Radix \in Nat \ {0} /\ n < Radix * Radix
  BY Widths DEF u16_values
<1>. DEFINE q == n \div Radix   r == n % Radix
<1>2. q \in Nat /\ r \in 0 .. Radix - 1 /\ n = Radix * q + r
  BY <1>1, Division
<1>. HIDE DEF q, r
<1>3. q < Radix
  <2>1. ASSUME q >= Radix PROVE FALSE
    <3>1. \A a, b, c \in Nat : a >= b => c * a >= c * b
      OBVIOUS
    <3>2. Radix * q >= Radix * Radix
      BY <1>1, <1>2, <2>1, <3>1
    <3>3. Radix * q \in Nat /\ Radix * Radix \in Nat
      BY <1>1, <1>2
    <3>. QED BY <1>1, <1>2, <3>2, <3>3
  <2>. QED BY <1>1, <1>2, <2>1
<1>4. Digits(n) = <<q, r>>
  BY DEF Digits, q, r
<1>5. Number(<<q, r>>) = q * Radix + r
  BY DEF Number
<1>6. q * Radix = Radix * q /\ Radix * q \in Nat
  BY <1>1, <1>2
<1>7. Digits(n) \in Digit \X Digit
  <2>1. q \in Digit /\ r \in Digit
    BY <1>1, <1>2, <1>3 DEF Digit
  <2>. QED BY <1>4, <2>1
<1>. QED BY <1>2, <1>4, <1>5, <1>6, <1>7

\* A number of at most two digits fits.
LEMMA NumberType ==
    ASSUME NEW d \in Seq(Digit), Len(d) <= 2
    PROVE  Number(d) \in 0 .. u16_values - 1
<1>1. Radix \in Nat /\ Radix > 7
  BY Widths
<1>2. Len(d) \in Nat /\ \A i \in 1 .. Len(d) : d[i] \in 0 .. Radix - 1
  BY LenProperties DEF Digit
<1>3. \A x, y \in 0 .. Radix - 1 : x * Radix + y \in 0 .. Radix * Radix - 1
  <2>. SUFFICES ASSUME NEW x \in 0 .. Radix - 1, NEW y \in 0 .. Radix - 1
                PROVE  x * Radix + y \in 0 .. Radix * Radix - 1
    OBVIOUS
  <2>1. \A a, b, c \in Nat : a <= b => a * c <= b * c
    OBVIOUS
  <2>2. x * Radix <= (Radix - 1) * Radix
    BY <1>1, <2>1
  <2>3. (Radix - 1) * Radix = Radix * Radix - Radix /\ x * Radix \in Nat /\ Radix * Radix \in Nat
    BY <1>1
  <2>. QED BY <1>1, <2>2, <2>3
<1>4. 0 \in 0 .. Radix - 1 /\ 0 * Radix = 0
  BY <1>1
<1>. DEFINE x == IF Len(d) > 0 THEN d[1] ELSE 0
            y == IF Len(d) > 1 THEN d[2] ELSE 0
<1>5. x \in 0 .. Radix - 1 /\ y \in 0 .. Radix - 1
  BY <1>2, <1>4
<1>6. Number(d) = x * Radix + y
  BY <1>4 DEF Number
<1>. HIDE DEF x, y
<1>. QED BY <1>3, <1>5, <1>6 DEF u16_values

\* What there is of a sequence.
LEMMA MinOfTwo ==
    ASSUME NEW a \in Nat, NEW b \in Nat
    PROVE  Min({a, b}) = IF a <= b THEN a ELSE b
<1>1. CASE a <= b
  BY <1>1, MinIs
<1>2. CASE b < a
  BY <1>2, MinIs
<1>. QED BY <1>1, <1>2

LEMMA Parts ==
    ASSUME NEW S, NEW s \in Seq(S), NEW m \in Nat \ {0}, NEW n \in Nat
    PROVE  /\ Part(s, m, n) \in Seq(S)
           /\ Len(Part(s, m, n)) <= IF m <= n THEN n - m + 1 ELSE 0
           /\ n <= Len(s) => Len(Part(s, m, n)) = IF m <= n THEN n - m + 1 ELSE 0
           /\ \A i \in 1 .. Len(Part(s, m, n)) :
                 m + i - 1 <= Len(s) /\ Part(s, m, n)[i] = s[m + i - 1]
<1>1. Len(s) \in Nat /\ \A i \in 1 .. Len(s) : s[i] \in S
  BY LenProperties
<1>2. PICK e \in Nat : e = Min({n, Len(s)}) /\ e <= n /\ e <= Len(s) /\ (n <= Len(s) => e = n)
  <2>1. Min({n, Len(s)}) = IF n <= Len(s) THEN n ELSE Len(s)
    BY <1>1, MinOfTwo
  <2>. QED BY <1>1, <2>1
<1>3. Part(s, m, n) = SubSeq(s, m, e)
  BY <1>2 DEF Part
<1>4. \A i \in m .. e : s[i] \in S
  BY <1>1, <1>2
<1>5. /\ SubSeq(s, m, e) \in Seq(S)
      /\ Len(SubSeq(s, m, e)) = IF m <= e THEN e - m + 1 ELSE 0
      /\ \A i \in 1 .. e - m + 1 : SubSeq(s, m, e)[i] = s[m + i - 1]
  BY <1>4, SubSeqProperties
<1>6. ASSUME NEW i \in 1 .. Len(SubSeq(s, m, e))
      PROVE  m + i - 1 <= Len(s) /\ SubSeq(s, m, e)[i] = s[m + i - 1]
  <2>1. m <= e /\ i \in 1 .. e - m + 1
    BY <1>5
  <2>. QED BY <1>1, <1>2, <1>5, <2>1
<1>7. Len(SubSeq(s, m, e)) <= IF m <= n THEN n - m + 1 ELSE 0
  BY <1>2, <1>5
<1>8. n <= Len(s) => Len(SubSeq(s, m, e)) = IF m <= n THEN n - m + 1 ELSE 0
  BY <1>2, <1>5
<1>. QED BY <1>3, <1>5, <1>6, <1>7, <1>8
-----------------------------------------------------------------------------
(* Messages. *)

\* Names have two or three digits, none of which is 0.
LEMMA NameTypes ==
    ASSUME NEW c \in DOMAIN name
    PROVE  /\ name[c] \in Seq(1 .. 7) /\ Len(name[c]) <= 3
           /\ Len(name[c]) = 0 <=> c = "FILE"
<1>1. CASE c = "FILE"
  <2>1. name[c] = <<>>
    BY <1>1 DEF name
  <2>. QED BY <1>1, <2>1, EmptySeq
<1>2. CASE c = "GET_FILE_LIST"
  <2>1. name[c] = <<4, 6, 7>>
    BY <1>2 DEF name
  <2>. QED BY <1>2, <2>1
<1>3. CASE c \notin {"FILE", "GET_FILE_LIST"}
  <2>1. \E a, b \in 1 .. 7 : name[c] = <<a, b>>
    BY <1>3 DEF name
  <2>2. \A a, b \in 1 .. 7 : <<a, b>> \in Seq(1 .. 7) /\ Len(<<a, b>>) = 2
    OBVIOUS
  <2>. QED BY <1>3, <2>1, <2>2
<1>. QED BY <1>1, <1>2, <1>3

Sendable(x) ==
    /\ x \in [command : DOMAIN name, payload : Seq(Digit)]
    /\ Len(x.payload) <= 4
    /\ x.command = "FILE" => Len(x.payload) > 0

Body(x) == name[x.command] \o x.payload

\* The header says how long the body is and where in it the name ends.
LEMMA Sent ==
    ASSUME NEW x, Sendable(x)
    PROVE  /\ Len(name[x.command]) \in 0 .. 3 /\ Len(x.payload) \in 0 .. 4
           /\ Body(x) \in Seq(Digit) /\ Len(Body(x)) = Len(name[x.command]) + Len(x.payload)
           /\ Len(Body(x)) \in 1 .. 7
           /\ \A i \in 1 .. Len(name[x.command]) : Body(x)[i] = name[x.command][i]
           /\ \A i \in 1 .. Len(x.payload) : Body(x)[Len(name[x.command]) + i] = x.payload[i]
           /\ header_hton(x) \in Seq(Digit) /\ Len(header_hton(x)) = 4
           /\ header_hton(x)[1] = 0 /\ header_hton(x)[2] = Len(Body(x))
           /\ header_hton(x)[3] = 0 /\ header_hton(x)[4] = Len(name[x.command])
<1>. DEFINE n == Len(name[x.command])   p == Len(x.payload)
<1>1. /\ x.command \in DOMAIN name /\ x.payload \in Seq(Digit)
      /\ name[x.command] \in Seq(1 .. 7) /\ n \in 0 .. 3 /\ p \in 0 .. 4
      /\ n + p \in 1 .. 7
  <2>1. x.command \in DOMAIN name /\ x.payload \in Seq(Digit)
    BY DEF Sendable
  <2>2. n \in Nat /\ p \in Nat
    BY <2>1, NameTypes, LenProperties
  <2>3. n = 0 => p > 0
    BY <2>1, NameTypes DEF Sendable
  <2>4. name[x.command] \in Seq(1 .. 7) /\ n <= 3 /\ p <= 4
    BY <2>1, NameTypes DEF Sendable
  <2>. HIDE DEF n, p
  <2>. QED BY <2>1, <2>2, <2>3, <2>4
<1>2. Radix > 7 /\ Radix \in Nat
  BY Widths
<1>3. name[x.command] \in Seq(Digit)
  <2>1. 1 .. 7 \subseteq Digit
    BY <1>2 DEF Digit
  <2>. QED BY <1>1, <2>1, SeqMonotonic
<1>. HIDE DEF n, p
<1>4. /\ Body(x) \in Seq(Digit) /\ Len(Body(x)) = n + p
      /\ \A i \in 1 .. n + p : Body(x)[i] = IF i <= n THEN name[x.command][i] ELSE x.payload[i - n]
  BY <1>1, <1>3, ConcatProperties DEF Body, n, p
<1>5. /\ \A i \in 1 .. n : Body(x)[i] = name[x.command][i]
      /\ \A i \in 1 .. p : Body(x)[n + i] = x.payload[i]
  BY <1>1, <1>4
<1>6. \A m \in 0 .. 7 : Digits(m) = <<0, m>>
  BY <1>2, Division DEF Digits
<1>7. header_hton(x) = <<0, n + p>> \o <<0, n>>
  <2>1. n + p \in 0 .. 7 /\ n \in 0 .. 7
    BY <1>1
  <2>2. Digits(n + p) = <<0, n + p>> /\ Digits(n) = <<0, n>>
    BY <1>6, <2>1
  <2>. QED BY <2>2 DEF header_hton, n, p
<1>8. <<0, n + p>> \in Seq(Digit) /\ <<0, n>> \in Seq(Digit)
  <2>1. 0 \in Digit /\ n \in Digit /\ n + p \in Digit
    BY <1>1, <1>2 DEF Digit
  <2>. QED BY <2>1
<1>9. Len(<<0, n + p>>) = 2 /\ Len(<<0, n>>) = 2
  OBVIOUS
<1>10. /\ header_hton(x) \in Seq(Digit) /\ Len(header_hton(x)) = 4
       /\ header_hton(x)[1] = 0 /\ header_hton(x)[2] = n + p
       /\ header_hton(x)[3] = 0 /\ header_hton(x)[4] = n
  BY <1>7, <1>8, <1>9, ConcatProperties
<1>. QED BY <1>1, <1>4, <1>5, <1>10 DEF n, p
-----------------------------------------------------------------------------
(* Addresses and ports, sent and understood. *)

LEMMA Pairs ==
    ASSUME NEW d \in Digit \X Digit
    PROVE  d \in Seq(Digit) /\ Len(d) = 2 /\ d # <<>>
<1>1. PICK x \in Digit, y \in Digit : d = <<x, y>>
  OBVIOUS
<1>2. <<x, y>> \in Seq(Digit) /\ Len(<<x, y>>) = 2 /\ <<x, y>> # <<>>
  OBVIOUS
<1>. QED BY <1>1, <1>2

LEMMA Cut ==
    ASSUME NEW s \in Seq(Digit), NEW m \in Nat, NEW n \in Nat, 0 < m, m <= n, n <= Len(s)
    PROVE  /\ SubSeq(s, m, n) \in Seq(Digit) /\ Len(SubSeq(s, m, n)) = n - m + 1
           /\ \A i \in 1 .. n - m + 1 : SubSeq(s, m, n)[i] = s[m + i - 1]
<1>1. \A i \in m .. n : s[i] \in Digit
  <2>1. \A i \in 1 .. Len(s) : s[i] \in Digit
    BY LenProperties
  <2>2. Len(s) \in Nat
    BY LenProperties
  <2>. QED BY <2>1, <2>2
<1>. QED BY <1>1, SubSeqProperties

LEMMA Joined ==
    ASSUME NEW d \in Seq(Digit), Len(d) = 2, NEW e \in Seq(Digit), Len(e) = 2
    PROVE  /\ d \o e \in Seq(Digit) /\ Len(d \o e) = 4
           /\ SubSeq(d \o e, 1, 2) = d /\ SubSeq(d \o e, 3, 4) = e
<1>1. d \o e \in Seq(Digit) /\ Len(d \o e) = Len(d) + Len(e)
  BY ConcatProperties
<1>2. \A i \in 1 .. Len(d) + Len(e) : (d \o e)[i] = IF i <= Len(d) THEN d[i] ELSE e[i - Len(d)]
  BY ConcatProperties
<1>3. PICK s \in Seq(Digit) : s = d \o e
  BY <1>1
<1>4. Len(s) = 4 /\ \A i \in 1 .. 4 : s[i] = IF i <= 2 THEN d[i] ELSE e[i - 2]
  BY <1>1, <1>2, <1>3
<1>5. SubSeq(s, 1, 2) = d
  <2>. PICK m \in Nat, n \in Nat : m = 1 /\ n = 2
    OBVIOUS
  <2>1. /\ SubSeq(s, m, n) \in Seq(Digit) /\ Len(SubSeq(s, m, n)) = n - m + 1
        /\ \A i \in 1 .. n - m + 1 : SubSeq(s, m, n)[i] = s[m + i - 1]
    <3>1. 0 < m /\ m <= n /\ n <= Len(s)
      BY <1>4
    <3>. QED BY <3>1, Cut
  <2>2. \A i \in 1 .. 2 : SubSeq(s, m, n)[i] = d[i]
    BY <1>4, <2>1
  <2>3. Len(SubSeq(s, m, n)) = Len(d)
    BY <2>1
  <2>. QED BY <2>1, <2>2, <2>3, SeqEqual
<1>6. SubSeq(s, 3, 4) = e
  <2>. PICK m \in Nat, n \in Nat : m = 3 /\ n = 4
    OBVIOUS
  <2>1. /\ SubSeq(s, m, n) \in Seq(Digit) /\ Len(SubSeq(s, m, n)) = n - m + 1
        /\ \A i \in 1 .. n - m + 1 : SubSeq(s, m, n)[i] = s[m + i - 1]
    <3>1. 0 < m /\ m <= n /\ n <= Len(s)
      BY <1>4
    <3>. QED BY <3>1, Cut
  <2>2. \A i \in 1 .. 2 : SubSeq(s, m, n)[i] = e[i]
    BY <1>4, <2>1
  <2>3. Len(SubSeq(s, m, n)) = Len(e)
    BY <2>1
  <2>. QED BY <2>1, <2>2, <2>3, SeqEqual
<1>. QED BY <1>3, <1>4, <1>5, <1>6

\* Whom these bytes are about can be reached, but for the two exceptions.
Reaches(bytes, value, a) ==
    LET tuple == client_tuple_from_ntoh_bytes(bytes) IN
    /\ \/ inet_addr(tuple.ip) = a
       \/ a \in LongAddresses
    /\ \/ tuple.port = value
       \/ value >= u16_values

\* Own and Heard are two digits of an address and two of a port; whom they are
\* about can be reached.
LEMMA Announced ==
    ASSUME NEW value \in Nat, NEW a \in Addresses
    PROVE  /\ Own(value, a) \in Seq(Digit) /\ Len(Own(value, a)) = 4
           /\ Heard(value, a) \in Seq(Digit) /\ Len(Heard(value, a)) = 4
           /\ Reaches(Own(value, a), value, a) /\ Reaches(Heard(value, a), value, a)
<1>. DEFINE p == port_number(value)
<1>1. p \in 0 .. u16_values - 1 /\ (value < u16_values => p = value)
  <2>1. u16_values \in Nat \ {0}
    BY Widths
  <2>. QED BY <2>1, Division DEF port_number
<1>2. Digits(p) \in Seq(Digit) /\ Len(Digits(p)) = 2 /\ Number(Digits(p)) = p
  BY <1>1, DigitsAre, Pairs
<1>3. a \in Digit \X Digit /\ INADDR_NONE \in Digit \X Digit
  BY FramingAssumption
<1>. HIDE DEF p
<1>4. inet_addr(a) = a
  BY <1>3, Pairs DEF inet_addr
<1>5. Own(value, a) = a \o Digits(p)
  BY <1>4 DEF Own, TupleBytes, p
<1>6. a \in Seq(Digit) /\ Len(a) = 2
  BY <1>3, Pairs
<1>7. client_tuple_from_ntoh_bytes(Own(value, a)) = [ip |-> inet_ntop(a), port |-> p]
  <2>1. SubSeq(Own(value, a), 1, 2) = a /\ SubSeq(Own(value, a), 3, 4) = Digits(p)
    BY <1>2, <1>5, <1>6, Joined
  <2>. QED BY <1>2, <2>1 DEF client_tuple_from_ntoh_bytes
<1>8. PICK b \in Seq(Digit) : /\ Len(b) = 2 /\ b = inet_addr(inet_ntop(a))
                              /\ a \notin LongAddresses => b = a
  <2>1. CASE a \in LongAddresses
    BY <1>3, <2>1, Pairs DEF inet_ntop, inet_addr
  <2>2. CASE a \notin LongAddresses
    BY <1>4, <1>6, <2>2 DEF inet_ntop
  <2>. QED BY <2>1, <2>2
<1>9. Heard(value, a) = b \o Digits(p)
  BY <1>7, <1>8 DEF Heard, TupleBytes
<1>10. client_tuple_from_ntoh_bytes(Heard(value, a)) = [ip |-> inet_ntop(b), port |-> p]
  <2>1. SubSeq(Heard(value, a), 1, 2) = b /\ SubSeq(Heard(value, a), 3, 4) = Digits(p)
    BY <1>2, <1>8, <1>9, Joined
  <2>. QED BY <1>2, <2>1 DEF client_tuple_from_ntoh_bytes
<1>11. p = value \/ value >= u16_values
  BY <1>1, Widths
<1>12. a \in LongAddresses \/ (b = a /\ inet_addr(inet_ntop(a)) = a)
  BY <1>8
<1>13. Reaches(Own(value, a), value, a)
  BY <1>7, <1>11, <1>12 DEF Reaches
<1>14. Reaches(Heard(value, a), value, a)
  BY <1>10, <1>11, <1>12 DEF Reaches
<1>. QED BY <1>2, <1>5, <1>6, <1>8, <1>9, <1>13, <1>14, Joined
-----------------------------------------------------------------------------
(* Conversations. *)

TupleCommands == {"LOG_ON", "LOG_OFF", "USER_ON", "USER_OFF", "CLIENT_LIST"}

Announces(x, value, a) == x.command \in TupleCommands => Reaches(x.payload, value, a)

\* One message, or LOG_ON with GET_CLIENTS behind it.
Conversation(c, value, a) ==
    /\ c \in Seq(Messages)
    /\ Len(c) \in {1, 2}
    /\ \A i \in 1 .. Len(c) : Sendable(c[i]) /\ Announces(c[i], value, a)
    /\ Len(c) = 1 => c[1].command # "LOG_ON"
    /\ Len(c) = 2 => c[1].command = "LOG_ON" /\ c[2].command = "GET_CLIENTS"

LEMMA Alone ==
    ASSUME NEW x, NEW value, NEW a, Sendable(x), Announces(x, value, a), x.command # "LOG_ON"
    PROVE  Conversation(<<x>>, value, a)
<1>1. x \in Messages
  BY DEF Sendable, Messages
<1>2. <<x>> \in Seq(Messages) /\ Len(<<x>>) = 1 /\ <<x>>[1] = x
  BY <1>1
<1>3. \A i \in 1 .. 1 : <<x>>[i] = x
  BY <1>2
<1>. QED BY <1>2, <1>3 DEF Conversation

LEMMA MessageIs ==
    ASSUME NEW command \in DOMAIN name, NEW payload \in Seq(Digit), Len(payload) <= 4,
           command = "FILE" => Len(payload) > 0
    PROVE  LET x == Message(command, payload)
           IN  Sendable(x) /\ x.command = command /\ x.payload = payload
BY DEF Message, Sendable

\* All that is ever sent on a connection is one of these.
LEMMA ConversationsAre ==
    ASSUME NEW value \in Nat, NEW a \in Addresses, NEW c \in Conversations(value, a)
    PROVE  Conversation(c, value, a)
<1>1. /\ Own(value, a) \in Seq(Digit) /\ Len(Own(value, a)) <= 4
      /\ Heard(value, a) \in Seq(Digit) /\ Len(Heard(value, a)) <= 4
      /\ Reaches(Own(value, a), value, a) /\ Reaches(Heard(value, a), value, a)
  <2>1. Len(Own(value, a)) = 4 /\ Len(Heard(value, a)) = 4
    BY Announced
  <2>2. Len(Own(value, a)) <= 4 /\ Len(Heard(value, a)) <= 4
    BY <2>1
  <2>. QED BY <2>2, Announced
<1>2. PICK none \in Seq(Digit) : none = <<>> /\ Len(none) <= 4
  <2>1. <<>> \in Seq(Digit) /\ Len(<<>>) = 0
    BY EmptySeq
  <2>2. Len(<<>>) <= 4
    BY <2>1
  <2>. QED BY <2>1, <2>2
<1>3. PICK some \in Seq(Digit) : some = <<2, 0, 1>> /\ Len(some) <= 4 /\ Len(some) > 0
  <2>1. 2 \in Digit /\ 0 \in Digit /\ 1 \in Digit
    BY Widths DEF Digit
  <2>2. <<2, 0, 1>> \in Seq(Digit) /\ Len(<<2, 0, 1>>) = 3
    BY <2>1
  <2>3. Len(<<2, 0, 1>>) <= 4 /\ Len(<<2, 0, 1>>) > 0
    BY <2>2
  <2>. QED BY <2>2, <2>3
<1>4. DOMAIN name = {"LOG_ON", "LOG_OFF", "USER_ON", "USER_OFF", "GET_CLIENTS", "GET_FILE",
                     "GET_FILE_LIST", "CLIENT_LIST", "FILE_LIST", "FILE_NOT_FOUND",
                     "FILE_UP_TO_DATE", "FILE"}
  BY DEF name
<1>5. CASE c = <<Message("LOG_ON", Own(value, a)), Message("GET_CLIENTS", <<>>)>>
  <2>1. PICK x : /\ x = Message("LOG_ON", Own(value, a))
                 /\ Sendable(x) /\ x.command = "LOG_ON" /\ x.payload = Own(value, a)
    BY <1>1, <1>4, MessageIs
  <2>2. PICK y : /\ y = Message("GET_CLIENTS", <<>>)
                 /\ Sendable(y) /\ y.command = "GET_CLIENTS"
    BY <1>2, <1>4, MessageIs
  <2>3. c = <<x, y>>
    BY <1>5, <2>1, <2>2
  <2>4. x \in Messages /\ y \in Messages
    BY <2>1, <2>2 DEF Sendable, Messages
  <2>5. /\ <<x, y>> \in Seq(Messages) /\ Len(<<x, y>>) = 2
        /\ <<x, y>>[1] = x /\ <<x, y>>[2] = y
    BY <2>4
  <2>6. Announces(x, value, a) /\ Announces(y, value, a)
    BY <1>1, <2>1, <2>2 DEF Announces, TupleCommands
  <2>7. \A i \in 1 .. 2 : Sendable(<<x, y>>[i]) /\ Announces(<<x, y>>[i], value, a)
    BY <2>1, <2>2, <2>5, <2>6
  <2>. QED BY <2>1, <2>2, <2>3, <2>5, <2>7 DEF Conversation
<1>6. CASE c \in {<<Message("LOG_OFF", Own(value, a))>>}
  <2>1. PICK x : /\ c = <<x>>
                 /\ Sendable(x) /\ x.command = "LOG_OFF" /\ x.payload = Own(value, a)
    BY <1>1, <1>4, <1>6, MessageIs
  <2>2. Announces(x, value, a)
    BY <1>1, <2>1 DEF Announces
  <2>. QED BY <2>1, <2>2, Alone
<1>7. CASE c \in {<<Message(command, Heard(value, a))>> :
                     command \in {"USER_ON", "USER_OFF", "CLIENT_LIST"}}
  <2>1. PICK command \in {"USER_ON", "USER_OFF", "CLIENT_LIST"} :
           c = <<Message(command, Heard(value, a))>>
    BY <1>7
  <2>2. PICK x : /\ c = <<x>>
                 /\ Sendable(x) /\ x.command = command /\ x.payload = Heard(value, a)
    BY <1>1, <1>4, <2>1, MessageIs
  <2>3. Announces(x, value, a)
    BY <1>1, <2>2 DEF Announces
  <2>. QED BY <2>1, <2>2, <2>3, Alone
<1>8. CASE c \in {<<Message(command, <<>>)>> :
                     command \in {"GET_FILE_LIST", "FILE_NOT_FOUND", "FILE_UP_TO_DATE"}}
  <2>1. PICK command \in {"GET_FILE_LIST", "FILE_NOT_FOUND", "FILE_UP_TO_DATE"} :
           c = <<Message(command, <<>>)>>
    BY <1>8
  <2>2. PICK x : c = <<x>> /\ Sendable(x) /\ x.command = command
    BY <1>2, <1>4, <2>1, MessageIs
  <2>3. Announces(x, value, a)
    BY <2>1, <2>2 DEF Announces, TupleCommands
  <2>. QED BY <2>1, <2>2, <2>3, Alone
<1>9. CASE c \in {<<Message(command, <<2, 0, 1>>)>> :
                     command \in {"GET_FILE", "FILE_LIST", "FILE"}}
  <2>1. PICK command \in {"GET_FILE", "FILE_LIST", "FILE"} :
           c = <<Message(command, <<2, 0, 1>>)>>
    BY <1>9
  <2>2. PICK x : c = <<x>> /\ Sendable(x) /\ x.command = command
    BY <1>3, <1>4, <2>1, MessageIs
  <2>3. Announces(x, value, a)
    BY <2>1, <2>2 DEF Announces, TupleCommands
  <2>. QED BY <2>1, <2>2, <2>3, Alone
<1>. QED BY <1>5, <1>6, <1>7, <1>8, <1>9 DEF Conversations
-----------------------------------------------------------------------------
(* What the receiver takes a message for. *)

Requests == {"LOG_ON", "GET_CLIENTS", "LOG_OFF", "GET_FILE", "GET_FILE_LIST", "USER_ON", "USER_OFF"}
Answers  == {"FILE_NOT_FOUND", "FILE_UP_TO_DATE"}

LEMMA Lists ==
    /\ Len(Commands) = 7 /\ Len(Verdicts) = 2
    /\ Commands[1] = "LOG_ON" /\ Commands[2] = "GET_CLIENTS" /\ Commands[3] = "LOG_OFF"
    /\ Commands[4] = "GET_FILE" /\ Commands[5] = "GET_FILE_LIST"
    /\ Commands[6] = "USER_ON" /\ Commands[7] = "USER_OFF"
    /\ Verdicts[1] = "FILE_NOT_FOUND" /\ Verdicts[2] = "FILE_UP_TO_DATE"
    /\ DOMAIN Commands = 1 .. 7 /\ DOMAIN Verdicts = 1 .. 2
BY DEF Commands, Verdicts

LEMMA ListsHold == ToSet(Commands) = Requests /\ ToSet(Verdicts) = Answers
<1>1. \A i \in 1 .. 7 : i \in {1, 2, 3, 4, 5, 6, 7}
  OBVIOUS
<1>2. \A i \in 1 .. 2 : i \in {1, 2}
  OBVIOUS
<1>3. ToSet(Verdicts) = Answers
  BY <1>2, Lists DEF ToSet, Answers
<1>4. \A c \in ToSet(Commands) : c \in Requests
  BY <1>1, Lists DEF ToSet, Requests
<1>5. \A i \in 1 .. 7 : Commands[i] \in ToSet(Commands)
  BY Lists DEF ToSet
<1>6. {1, 2, 3, 4, 5, 6, 7} \subseteq 1 .. 7
  OBVIOUS
<1>7. \A c \in Requests : c \in ToSet(Commands)
  BY <1>5, <1>6, Lists DEF Requests
<1>. QED BY <1>3, <1>4, <1>7

LEMMA NamesAre ==
    /\ Asked \in Requests => Names = Commands /\ Other = "unknown"
    /\ Asked \in Answers \cup {"FILE"} => Names = Verdicts /\ Other = "FILE"
    /\ Asked \notin Requests \cup Answers \cup {"FILE"} => Names = <<>> /\ Other = Asked
    /\ Names = Commands => Asked \in Requests
<1>1. Commands # Verdicts /\ Commands # <<>> /\ Verdicts # <<>>
  BY Lists
<1>2. Requests \cap (Answers \cup {"FILE"}) = {}
  BY DEF Requests, Answers
<1>3. CASE Asked \in Requests
  <2>1. Names = Commands
    BY <1>2, <1>3, ListsHold DEF Names
  <2>2. Other = "unknown"
    BY <1>1, <2>1 DEF Other
  <2>. QED BY <1>2, <1>3, <2>1, <2>2
<1>4. CASE Asked \in Answers \cup {"FILE"}
  <2>1. Names = Verdicts
    BY <1>2, <1>4, ListsHold DEF Names
  <2>2. Other = "FILE"
    BY <1>1, <2>1 DEF Other
  <2>. QED BY <1>1, <1>2, <1>4, <2>1, <2>2
<1>5. CASE Asked \notin Requests \cup Answers \cup {"FILE"}
  <2>1. Names = <<>>
    BY <1>5, ListsHold DEF Names
  <2>2. Other = Asked
    BY <1>1, <2>1 DEF Other
  <2>. QED BY <1>1, <1>5, <2>1, <2>2
<1>. QED BY <1>3, <1>4, <1>5

\* Nothing is taken for what is not a message.
LEMMA TakenType ==
    ASSUME NEW data, Asked \in DOMAIN name, NEW command \in Taken(data)
    PROVE  command \in DOMAIN name \cup {"unknown"}
<1>1. DOMAIN name = Requests \cup Answers \cup {"FILE", "CLIENT_LIST", "FILE_LIST"}
  BY DEF name, Requests, Answers
<1>2. Other \in DOMAIN name \cup {"unknown"}
  BY <1>1, NamesAre
<1>3. \A i \in 1 .. Len(Names) : Names[i] \in DOMAIN name
  <2>1. CASE Asked \in Requests
    <3>1. \A i \in DOMAIN Commands : Commands[i] \in DOMAIN name
      BY <1>1, ListsHold DEF ToSet
    <3>. QED BY <2>1, <3>1, Lists, NamesAre
  <2>2. CASE Asked \in Answers \cup {"FILE"}
    <3>1. \A i \in DOMAIN Verdicts : Verdicts[i] \in DOMAIN name
      BY <1>1, ListsHold DEF ToSet
    <3>. QED BY <2>2, <3>1, Lists, NamesAre
  <2>3. CASE Asked \notin Requests \cup Answers \cup {"FILE"}
    <3>1. Len(Names) = 0
      BY <2>3, NamesAre
    <3>. QED BY <3>1
  <2>. QED BY <2>1, <2>2, <2>3
<1>. QED BY <1>2, <1>3 DEF Taken

\* What equals the i-th name and may equal none before is taken for the i-th;
LEMMA TakenIsFirst ==
    ASSUME NEW data, NEW i \in 1 .. Len(Names),
           str_n_equals(data, Names[i], header.command_length),
           \A j \in 1 .. i - 1 : ~str_n_may_equal(data, Names[j], header.command_length),
           Len(Names) \in Nat
    PROVE  Taken(data) = {Names[i]}
<1>. DEFINE n == header.command_length
            Equal(j) == str_n_equals(data, Names[j], n)
            May(j) == str_n_may_equal(data, Names[j], n)
            NoneBefore(j) == \A l \in 1 .. j - 1 : ~Equal(l)
            Firsts == {j \in 1 .. Len(Names) : May(j) /\ NoneBefore(j)}
            None == {j \in {Len(Names) + 1} : NoneBefore(j)}
<1>1. Taken(data) = {Names[j] : j \in Firsts} \cup {Other : j \in None}
  BY DEF Taken
<1>2. \A j \in 1 .. Len(Names) : Equal(j) => May(j)
  BY DEF str_n_equals
<1>3. Equal(i) /\ \A j \in 1 .. i - 1 : ~May(j)
  OBVIOUS
<1>. HIDE DEF Equal, May
<1>4. NoneBefore(i)
  BY <1>2, <1>3
<1>5. \A j \in 1 .. Len(Names) + 1 : j > i => ~NoneBefore(j)
  BY <1>3
<1>6. Firsts = {i}
  BY <1>2, <1>3, <1>4, <1>5
<1>7. None = {}
  BY <1>5
<1>. HIDE DEF Firsts, None
<1>. QED BY <1>1, <1>6, <1>7

\* and for none what has the length 0.
LEMMA TakenForNone ==
    ASSUME NEW data, header.command_length = 0
    PROVE  Taken(data) = {Other}
<1>1. \A j : /\ ~str_n_may_equal(data, Names[j], header.command_length)
             /\ ~str_n_equals(data, Names[j], header.command_length)
  BY DEF str_n_equals, str_n_may_equal
<1>. DEFINE n == header.command_length
            NoneBefore(j) == \A l \in 1 .. j - 1 : ~str_n_equals(data, Names[l], n)
            Firsts == {j \in 1 .. Len(Names) : str_n_may_equal(data, Names[j], n) /\ NoneBefore(j)}
            None == {j \in {Len(Names) + 1} : NoneBefore(j)}
<1>2. Taken(data) = {Names[j] : j \in Firsts} \cup {Other : j \in None}
  BY DEF Taken
<1>3. Firsts = {} /\ None = {Len(Names) + 1}
  BY <1>1
<1>. HIDE DEF Firsts, None
<1>. QED BY <1>2, <1>3

\* data begins with the name of c.
Begins(data, c) ==
    /\ data \in Seq(Digit) /\ Len(name[c]) <= Len(data)
    /\ \A i \in 1 .. Len(name[c]) : data[i] = name[c][i]

LEMMA NameDigits ==
    ASSUME NEW c \in Requests \cup Answers
    PROVE  /\ c \in DOMAIN name /\ name[c] \in Seq(Nat)
           /\ Len(name[c]) = IF c = "GET_FILE_LIST" THEN 3 ELSE 2
           /\ c = "GET_FILE_LIST" => name[c][3] = 7
<1>1. CASE c = "GET_FILE_LIST"
  <2>1. name[c] = <<4, 6, 7>> /\ c \in DOMAIN name
    BY <1>1 DEF name
  <2>. QED BY <1>1, <2>1
<1>2. CASE c # "GET_FILE_LIST"
  <2>1. c \in DOMAIN name
    BY DEF name, Requests, Answers
  <2>2. \E a, b \in Nat : name[c] = <<a, b>>
    BY <1>2 DEF name, Requests, Answers
  <2>. QED BY <1>2, <2>1, <2>2
<1>. QED BY <1>1, <1>2

\* Names differ in their first two digits, but for GET_FILE and GET_FILE_LIST.
LEMMA NamesDiffer ==
    ASSUME NEW c \in Requests \cup Answers, NEW d \in Requests \cup Answers, c # d,
           {c, d} # {"GET_FILE", "GET_FILE_LIST"}
    PROVE  name[c][1] # name[d][1] \/ name[c][2] # name[d][2]
<1>. DEFINE N(e) == 10 * name[e][1] + name[e][2]
<1>1. /\ N("LOG_ON") = 12 /\ N("LOG_OFF") = 13 /\ N("USER_ON") = 22 /\ N("USER_OFF") = 23
      /\ N("GET_CLIENTS") = 45 /\ N("GET_FILE") = 46 /\ N("GET_FILE_LIST") = 46
      /\ N("FILE_NOT_FOUND") = 61 /\ N("FILE_UP_TO_DATE") = 63
  BY DEF name
<1>. HIDE DEF N
<1>2. N(c) # N(d)
  BY <1>1 DEF Requests, Answers
<1>. QED BY <1>2 DEF N

LEMMA EqualsItsName ==
    ASSUME NEW data, NEW c \in Requests \cup Answers, Begins(data, c)
    PROVE  str_n_equals(data, c, Len(name[c]))
<1>1. PICK n \in Nat : n = Len(name[c]) /\ n # 0
  BY NameDigits
<1>2. Len(data) \in Nat /\ n <= Len(data)
  BY <1>1, LenProperties DEF Begins
<1>3. Min({n, n + 1}) = n
  BY <1>1, MinOfTwo
<1>4. Min({n, n + 1, Len(data)}) = n
  <2>. DEFINE T == {n, n + 1, Len(data)}
  <2>1. n \in T /\ \A m \in T : n <= m
    BY <1>1, <1>2
  <2>. HIDE DEF T
  <2>2. Min(T) = n
    BY <2>1, MinIs
  <2>. QED BY <2>2 DEF T
<1>5. \A i \in 1 .. n : Append(name[c], 0)[i] = data[i]
  <2>1. name[c] \in Seq(Nat)
    BY NameDigits
  <2>2. \A i \in 1 .. n : Append(name[c], 0)[i] = name[c][i]
    BY <1>1, <2>1, AppendProperties
  <2>. QED BY <1>1, <2>2 DEF Begins
<1>. QED BY <1>1, <1>2, <1>3, <1>4, <1>5 DEF str_n_equals, str_n_may_equal

LEMMA EqualsNoOther ==
    ASSUME NEW data, NEW c \in Requests \cup Answers, Begins(data, c),
           NEW d \in Requests \cup Answers, c # d, <<c, d>> # <<"GET_FILE", "GET_FILE_LIST">>
    PROVE  ~str_n_may_equal(data, d, Len(name[c]))
<1>1. PICK n \in Nat, o \in Nat : n = Len(name[c]) /\ o = Len(name[d]) /\ n >= 2 /\ o >= 2
  BY NameDigits
<1>2. PICK l \in Nat : l = Len(data) /\ n <= l
  BY <1>1, LenProperties DEF Begins
<1>3. PICK m \in Nat : m = Min({n, o + 1, l}) /\ m \in {n, o + 1, l}
  <2>. DEFINE T == {n, o + 1, l}
  <2>1. T \in SUBSET Nat /\ T # {}
    BY <1>1, <1>2
  <2>. HIDE DEF T
  <2>2. Min(T) \in T
    BY <2>1, MinNat
  <2>. QED BY <2>1, <2>2 DEF T
<1>4. /\ name[d] \in Seq(Nat) /\ Append(name[d], 0)[o + 1] = 0
      /\ \A i \in 1 .. o : Append(name[d], 0)[i] = name[d][i]
  BY <1>1, NameDigits, AppendProperties
<1>5. PICK i \in 1 .. n : i <= o + 1 /\ Append(name[d], 0)[i] # data[i]
  <2>1. CASE <<c, d>> = <<"GET_FILE_LIST", "GET_FILE">>
    <3>1. n = 3 /\ o = 2 /\ name[c][3] = 7
      BY <1>1, <2>1, NameDigits
    <3>2. 3 \in 1 .. n /\ 3 = o + 1 /\ 3 <= o + 1
      BY <3>1
    <3>3. data[3] = 7
      BY <1>1, <3>1, <3>2 DEF Begins
    <3>4. Append(name[d], 0)[3] = 0
      BY <1>4, <3>2
    <3>5. 3 <= o + 1 /\ Append(name[d], 0)[3] # data[3]
      <4>1. Append(name[d], 0)[3] # data[3]
        <5>1. 0 # 7
          OBVIOUS
        <5>. QED BY <3>3, <3>4, <5>1, Zenon
      <4>. QED BY <3>2, <4>1, Zenon
    <3>. QED BY <3>2, <3>5, Zenon
  <2>2. CASE {c, d} # {"GET_FILE", "GET_FILE_LIST"}
    <3>1. name[c][1] # name[d][1] \/ name[c][2] # name[d][2]
      BY <2>2, NamesDiffer
    <3>2. 1 \in 1 .. o /\ 2 \in 1 .. o /\ 1 \in 1 .. n /\ 2 \in 1 .. n
      BY <1>1
    <3>3. /\ data[1] = name[c][1] /\ Append(name[d], 0)[1] = name[d][1]
          /\ data[2] = name[c][2] /\ Append(name[d], 0)[2] = name[d][2]
      BY <1>1, <1>4, <3>2 DEF Begins
    <3>. QED BY <1>1, <3>1, <3>2, <3>3
  <2>. QED BY <2>1, <2>2
<1>6. i <= m
  BY <1>1, <1>2, <1>3, <1>5
<1>. QED BY <1>1, <1>2, <1>3, <1>5, <1>6 DEF str_n_may_equal

\* A request whose name is there is taken for itself; so is an answer.
LEMMA TakenIs ==
    ASSUME NEW data, NEW c, Begins(data, c), header.command_length = Len(name[c]),
           \/ Names = Commands /\ c \in Requests
           \/ Names = Verdicts /\ c \in Answers
    PROVE  Taken(data) = {c}
<1>1. c \in Requests \cup Answers
  OBVIOUS
<1>2. str_n_equals(data, c, header.command_length)
  BY <1>1, EqualsItsName
<1>3. PICK i \in 1 .. Len(Names) :
         /\ Names[i] = c /\ Len(Names) \in Nat
         /\ \A j \in 1 .. i - 1 : /\ Names[j] \in Requests \cup Answers /\ Names[j] # c
                                  /\ <<c, Names[j]>> # <<"GET_FILE", "GET_FILE_LIST">>
  <2>1. CASE Names = Commands /\ c \in Requests
    <3>1. PICK i \in 1 .. 7 : Commands[i] = c /\ \A j \in 1 .. 7 : Commands[j] = c => i = j
      BY <2>1, Lists DEF Requests
    <3>2. \A j \in 1 .. 7 : Commands[j] \in Requests
      BY Lists, ListsHold DEF ToSet
    <3>3. c = "GET_FILE" => i = 4
      BY <3>1, Lists
    <3>4. \A j \in 1 .. 7 : Commands[j] = "GET_FILE_LIST" => j = 5
      BY Lists
    <3>. QED BY <2>1, <3>1, <3>2, <3>3, <3>4, Lists
  <2>2. CASE Names = Verdicts /\ c \in Answers
    <3>1. PICK i \in 1 .. 2 : Verdicts[i] = c /\ \A j \in 1 .. 2 : Verdicts[j] = c => i = j
      BY <2>2, Lists DEF Answers
    <3>2. \A j \in 1 .. 2 : Verdicts[j] \in Answers
      BY Lists, ListsHold DEF ToSet
    <3>3. c # "GET_FILE"
      BY <2>2 DEF Answers
    <3>. QED BY <2>2, <3>1, <3>2, <3>3, Lists
  <2>. QED BY <2>1, <2>2
<1>4. \A j \in 1 .. i - 1 : ~str_n_may_equal(data, Names[j], header.command_length)
  BY <1>1, <1>3, EqualsNoOther
<1>. QED BY <1>2, <1>3, <1>4, TakenIsFirst
-----------------------------------------------------------------------------
(* What is written. *)

LEMMA FlattenOne ==
    ASSUME NEW s, Len(s) = 1
    PROVE  FlattenSeq(s) = s[1]
<1>. DEFINE Step(f) == [i \in 1 .. Len(s) |-> IF i = 1 THEN s[i] ELSE f[i - 1] \o s[i]]
            F == CHOOSE f : f = Step(f)
            g == [i \in 1 .. Len(s) |-> s[1]]
<1>1. g = Step(g)
  OBVIOUS
<1>2. F = Step(F)
  <2>1. \E f : f = Step(f)
    BY <1>1
  <2>. QED BY <2>1
<1>3. FlattenSeq(s) = F[Len(s)]
  BY DEF FlattenSeq
<1>. QED BY <1>2, <1>3

LEMMA FlattenTwo ==
    ASSUME NEW s, Len(s) = 2
    PROVE  FlattenSeq(s) = s[1] \o s[2]
<1>. DEFINE Step(f) == [i \in 1 .. Len(s) |-> IF i = 1 THEN s[i] ELSE f[i - 1] \o s[i]]
            F == CHOOSE f : f = Step(f)
            g == [i \in 1 .. Len(s) |-> IF i = 1 THEN s[1] ELSE s[1] \o s[2]]
<1>1. g = Step(g)
  <2>1. \A i \in 1 .. 2 : i = 1 \/ (i = 2 /\ i - 1 = 1 /\ i # 1)
    OBVIOUS
  <2>2. \A i \in 1 .. 2 : g[i] = IF i = 1 THEN s[i] ELSE g[i - 1] \o s[i]
    BY <2>1
  <2>. QED BY <2>2
<1>2. F = Step(F)
  <2>1. \E f : f = Step(f)
    BY <1>1
  <2>. QED BY <2>1
<1>3. FlattenSeq(s) = F[Len(s)]
  BY DEF FlattenSeq
<1>. HIDE DEF F
<1>4. \A i \in 1 .. 2 : F[i] = Step(F)[i]
  BY <1>2
<1>5. F[1] = s[1]
  BY <1>4
<1>6. F[2] = F[1] \o s[2]
  <2>1. 2 \in 1 .. Len(s) /\ 2 - 1 = 1 /\ 2 # 1
    OBVIOUS
  <2>2. Step(F)[2] = F[2 - 1] \o s[2]
    BY <2>1
  <2>. QED BY <1>4, <2>1, <2>2
<1>. QED BY <1>3, <1>5, <1>6
IsFour(S, w, x, y, z, o) ==
    w \in Seq(S) /\ Len(w) = 4 /\ w[1] = x /\ w[2] = y /\ w[3] = z /\ w[4] = o

LEMMA TwoPairs ==
    ASSUME NEW S, NEW x \in S, NEW y \in S, NEW z \in S, NEW o \in S
    PROVE  IsFour(S, <<x, y>> \o <<z, o>>, x, y, z, o)
<1>1. PICK u \in Seq(S) : u = <<x, y>> /\ Len(u) = 2 /\ u[1] = x /\ u[2] = y
  <2>1. <<x, y>> \in Seq(S) /\ Len(<<x, y>>) = 2 /\ <<x, y>>[1] = x /\ <<x, y>>[2] = y
    OBVIOUS
  <2>. QED BY <2>1, Zenon
<1>2. PICK v \in Seq(S) : v = <<z, o>> /\ Len(v) = 2 /\ v[1] = z /\ v[2] = o
  <2>1. <<z, o>> \in Seq(S) /\ Len(<<z, o>>) = 2 /\ <<z, o>>[1] = z /\ <<z, o>>[2] = o
    OBVIOUS
  <2>. QED BY <2>1, Zenon
<1>3. u \o v \in Seq(S) /\ Len(u \o v) = Len(u) + Len(v)
  BY ConcatProperties
<1>4. \A i \in 1 .. Len(u) + Len(v) : (u \o v)[i] = IF i <= Len(u) THEN u[i] ELSE v[i - Len(u)]
  BY ConcatProperties
<1>5. PICK w \in Seq(S) : w = u \o v /\ Len(w) = 4
  <2>1. Len(u \o v) = 4
    BY <1>1, <1>2, <1>3
  <2>. QED BY <1>3, <2>1, Zenon
<1>6. \A i \in 1 .. 4 : w[i] = IF i <= 2 THEN u[i] ELSE v[i - 2]
  BY <1>1, <1>2, <1>4, <1>5
<1>7. w[1] = u[1] /\ w[2] = u[2] /\ w[3] = v[1] /\ w[4] = v[2]
  BY <1>6
<1>8. IsFour(S, w, x, y, z, o)
  BY <1>1, <1>2, <1>5, <1>7 DEF IsFour
<1>. QED BY <1>1, <1>2, <1>5, <1>8

\* The writes of a conversation: a header and a body for each message.
Written(w, c) ==
    /\ w \in Seq(Seq(Digit)) /\ Len(w) = 2 * Len(c)
    /\ w[1] = header_hton(c[1]) /\ w[2] = Body(c[1])
    /\ Len(c) = 2 => w[3] = header_hton(c[2]) /\ w[4] = Body(c[2])

\* AllWrites is this, for one message and for two.
LEMMA WritesAre ==
    ASSUME Conversation(conversation, option, address)
    PROVE  Written(AllWrites, conversation)
<1>1. PICK n \in {1, 2} : n = Len(conversation)
  BY DEF Conversation
<1>2. PICK c : c = conversation
  OBVIOUS
<1>3. Sendable(c[1]) /\ (n = 2 => Sendable(c[2]))
  BY <1>1, <1>2 DEF Conversation
<1>4. /\ header_hton(c[1]) \in Seq(Digit) /\ Body(c[1]) \in Seq(Digit)
      /\ n = 2 => header_hton(c[2]) \in Seq(Digit) /\ Body(c[2]) \in Seq(Digit)
  BY <1>3, Sent
<1>5. PICK s : s = [i \in 1 .. n |-> Writes(c[i])]
  OBVIOUS
<1>6. AllWrites = FlattenSeq(s)
  BY <1>1, <1>2, <1>5 DEF AllWrites
<1>7. Len(s) = n /\ s[1] = Writes(c[1]) /\ (n = 2 => s[2] = Writes(c[2]))
  BY <1>5
<1>8. \A i : Writes(c[i]) = <<header_hton(c[i]), Body(c[i])>>
  BY DEF Writes, Body
<1>9. CASE n = 1
  <2>1. AllWrites = <<header_hton(c[1]), Body(c[1])>>
    BY <1>6, <1>7, <1>8, <1>9, FlattenOne
  <2>2. PICK x \in Seq(Digit), y \in Seq(Digit) : x = header_hton(c[1]) /\ y = Body(c[1])
    BY <1>4
  <2>3. /\ <<x, y>> \in Seq(Seq(Digit)) /\ Len(<<x, y>>) = 2
        /\ <<x, y>>[1] = x /\ <<x, y>>[2] = y
    OBVIOUS
  <2>4. AllWrites = <<x, y>>
    BY <2>1, <2>2
  <2>5. Len(AllWrites) = 2 * Len(c) /\ Len(c) # 2
    BY <1>1, <1>2, <1>9, <2>3, <2>4
  <2>. QED BY <1>2, <2>2, <2>3, <2>4, <2>5 DEF Written
<1>10. CASE n = 2
  <2>1. AllWrites = <<header_hton(c[1]), Body(c[1])>> \o <<header_hton(c[2]), Body(c[2])>>
    BY <1>6, <1>7, <1>8, <1>10, FlattenTwo
  <2>2. PICK x \in Seq(Digit), y \in Seq(Digit) : x = header_hton(c[1]) /\ y = Body(c[1])
    BY <1>4
  <2>3. PICK z \in Seq(Digit), o \in Seq(Digit) : z = header_hton(c[2]) /\ o = Body(c[2])
    BY <1>4, <1>10
  <2>4. PICK w : w = <<x, y>> \o <<z, o>> /\ IsFour(Seq(Digit), w, x, y, z, o)
    BY <2>2, <2>3, TwoPairs, Zenon
  <2>5. AllWrites = w
    BY <2>1, <2>2, <2>3, <2>4
  <2>6. Len(AllWrites) = 2 * Len(c)
    BY <1>1, <1>2, <1>10, <2>4, <2>5 DEF IsFour
  <2>. QED BY <1>2, <2>2, <2>3, <2>4, <2>5, <2>6 DEF Written, IsFour
<1>. QED BY <1>9, <1>10

\* Where in the stream a write ends.
Offset(c, i) ==
    LET first  == Len(Body(c[1]))
        second == Len(Body(c[2]))
    IN  CASE i = 0 -> 0
          [] i = 1 -> 4
          [] i = 2 -> 4 + first
          [] i = 3 -> 8 + first
          [] OTHER -> 8 + first + second

\* Each write moves the end of the stream by its length, which is not 0.
LEMMA OffsetsAre ==
    ASSUME NEW c, NEW value, NEW a, NEW w, Conversation(c, value, a), Written(w, c)
    PROVE  /\ Len(w) \in Nat /\ \A i \in 0 .. Len(w) : Offset(c, i) \in Nat
           /\ \A i \in 1 .. Len(w) : /\ Len(w[i]) \in Nat \ {0}
                                     /\ Offset(c, i) = Offset(c, i - 1) + Len(w[i])
           /\ \A i, j \in 0 .. Len(w) : i < j => Offset(c, i) < Offset(c, j)
<1>1. Sendable(c[1]) /\ (Len(c) = 2 => Sendable(c[2])) /\ Len(c) \in {1, 2}
  BY DEF Conversation
<1>2. PICK first \in 1 .. 7 : /\ first = Len(Body(c[1])) /\ Len(header_hton(c[1])) = 4
  BY <1>1, Sent
<1>3. /\ Offset(c, 0) = 0 /\ Offset(c, 1) = 4 /\ Offset(c, 2) = 4 + first
      /\ Offset(c, 3) = 8 + first /\ Offset(c, 4) = 8 + first + Len(Body(c[2]))
  BY <1>2 DEF Offset
<1>4. CASE Len(c) = 1
  <2>1. Len(w) = 2 /\ Len(w[1]) = 4 /\ Len(w[2]) = first
    BY <1>2, <1>4 DEF Written
  <2>2. \A i \in 0 .. 2 : i = 0 \/ i = 1 \/ i = 2
    OBVIOUS
  <2>3. \A i \in 0 .. 2 : Offset(c, i) \in Nat
    BY <1>3, <2>2
  <2>4. ASSUME NEW i \in 1 .. 2
        PROVE  Len(w[i]) \in Nat \ {0} /\ Offset(c, i) = Offset(c, i - 1) + Len(w[i])
    <3>1. CASE i = 1
      <4>1. i - 1 = 0
        BY <3>1
      <4>2. Len(w[1]) \in Nat \ {0} /\ Offset(c, 1) = Offset(c, 0) + Len(w[1])
        BY <1>3, <2>1
      <4>. QED BY <3>1, <4>1, <4>2, Zenon
    <3>2. CASE i = 2
      <4>1. i - 1 = 1
        BY <3>2
      <4>2. Len(w[2]) \in Nat \ {0} /\ Offset(c, 2) = Offset(c, 1) + Len(w[2])
        BY <1>3, <2>1
      <4>. QED BY <3>2, <4>1, <4>2, Zenon
    <3>. QED BY <2>2, <3>1, <3>2
  <2>5. ASSUME NEW i \in 0 .. 2, NEW j \in 0 .. 2, i < j
        PROVE  Offset(c, i) < Offset(c, j)
    <3>1. (i = 0 /\ j = 1) \/ (i = 0 /\ j = 2) \/ (i = 1 /\ j = 2)
      BY <2>5
    <3>. QED BY <1>3, <3>1
  <2>. QED BY <2>1, <2>3, <2>4, <2>5
<1>5. CASE Len(c) = 2
  <2>1. PICK second \in 1 .. 7 : second = Len(Body(c[2])) /\ Len(header_hton(c[2])) = 4
    BY <1>1, <1>5, Sent
  <2>2. /\ Len(w) = 4 /\ Len(w[1]) = 4 /\ Len(w[2]) = first
        /\ Len(w[3]) = 4 /\ Len(w[4]) = second
    BY <1>2, <1>5, <2>1 DEF Written
  <2>3. \A i \in 0 .. 4 : i = 0 \/ i = 1 \/ i = 2 \/ i = 3 \/ i = 4
    OBVIOUS
  <2>4. \A i \in 0 .. 4 : Offset(c, i) \in Nat
    BY <1>3, <2>1, <2>3
  <2>5. ASSUME NEW i \in 1 .. 4
        PROVE  Len(w[i]) \in Nat \ {0} /\ Offset(c, i) = Offset(c, i - 1) + Len(w[i])
    <3>1. CASE i = 1
      <4>1. i - 1 = 0
        BY <3>1
      <4>2. Len(w[1]) \in Nat \ {0} /\ Offset(c, 1) = Offset(c, 0) + Len(w[1])
        BY <1>3, <2>2
      <4>. QED BY <3>1, <4>1, <4>2, Zenon
    <3>2. CASE i = 2
      <4>1. i - 1 = 1
        BY <3>2
      <4>2. Len(w[2]) \in Nat \ {0} /\ Offset(c, 2) = Offset(c, 1) + Len(w[2])
        BY <1>3, <2>2
      <4>. QED BY <3>2, <4>1, <4>2, Zenon
    <3>3. CASE i = 3
      <4>1. i - 1 = 2
        BY <3>3
      <4>2. Len(w[3]) \in Nat \ {0} /\ Offset(c, 3) = Offset(c, 2) + Len(w[3])
        BY <1>3, <2>2
      <4>. QED BY <3>3, <4>1, <4>2, Zenon
    <3>4. CASE i = 4
      <4>1. i - 1 = 3
        BY <3>4
      <4>2. Len(w[4]) \in Nat \ {0} /\ Offset(c, 4) = Offset(c, 3) + Len(w[4])
        <5>1. Len(w[4]) = second /\ Offset(c, 4) = 8 + first + second /\ Offset(c, 3) = 8 + first
          BY <1>3, <2>1, <2>2
        <5>. QED BY <5>1
      <4>. QED BY <3>4, <4>1, <4>2, Zenon
    <3>. QED BY <2>3, <3>1, <3>2, <3>3, <3>4
  <2>6. ASSUME NEW i \in 0 .. 4, NEW j \in 0 .. 4, i < j
        PROVE  Offset(c, i) < Offset(c, j)
    <3>1. CASE i = 0
      BY <1>3, <2>1, <2>3, <2>6, <3>1
    <3>2. CASE i = 1
      BY <1>3, <2>1, <2>3, <2>6, <3>2
    <3>3. CASE i = 2
      BY <1>3, <2>1, <2>3, <2>6, <3>3
    <3>4. CASE i = 3
      <4>1. j = 4
        BY <2>3, <2>6, <3>4
      <4>. QED BY <1>3, <2>1, <3>4, <4>1
    <3>5. i # 4
      BY <2>6
    <3>. QED BY <2>3, <3>1, <3>2, <3>3, <3>4, <3>5
  <2>. QED BY <2>2, <2>4, <2>5, <2>6
<1>. QED BY <1>1, <1>4, <1>5
-----------------------------------------------------------------------------
(* What is read. *)

\* s are the digits of the first n writes.
StreamIs(s, n, c, w) ==
    /\ s \in Seq(Digit) /\ n \in 0 .. Len(w) /\ Len(s) = Offset(c, n)
    /\ \A i \in 1 .. n : \A j \in 1 .. Len(w[i]) : s[Offset(c, i - 1) + j] = w[i][j]

\* Write appends to the stream what the next place of it is for.
LEMMA OneMoreWrite ==
    ASSUME NEW c, NEW value, NEW a, NEW w, Conversation(c, value, a), Written(w, c),
           NEW s, NEW n, StreamIs(s, n, c, w), n < Len(w)
    PROVE  StreamIs(s \o w[n + 1], n + 1, c, w)
<1>1. /\ Len(w) \in Nat /\ n \in Nat /\ n + 1 \in 1 .. Len(w) /\ n \in 0 .. Len(w)
      /\ n + 1 \in 0 .. Len(w) /\ (n + 1) - 1 = n
  <2>1. Len(w) \in Nat /\ n \in 0 .. Len(w)
    BY OffsetsAre DEF StreamIs
  <2>. QED BY <2>1
<1>2. PICK x \in Seq(Digit) : x = w[n + 1]
  BY <1>1, LenProperties DEF Written
<1>3. PICK o \in Nat, l \in Nat : /\ o = Offset(c, n) /\ l = Len(x) /\ Len(s) = o
                                  /\ Offset(c, n + 1) = o + l
  <2>1. Offset(c, n + 1) = Offset(c, (n + 1) - 1) + Len(w[n + 1])
    <3>1. \A i \in 1 .. Len(w) : Offset(c, i) = Offset(c, i - 1) + Len(w[i])
      BY OffsetsAre
    <3>. QED BY <1>1, <3>1, Zenon
  <2>2. Offset(c, n) \in Nat /\ Len(x) \in Nat
    BY <1>1, OffsetsAre, LenProperties
  <2>. QED BY <1>1, <1>2, <2>1, <2>2 DEF StreamIs
<1>4. s \in Seq(Digit)
  BY DEF StreamIs
<1>5. s \o x \in Seq(Digit) /\ Len(s \o x) = Len(s) + Len(x)
  BY <1>4, ConcatProperties
<1>6. \A j \in 1 .. Len(s) + Len(x) : (s \o x)[j] = IF j <= Len(s) THEN s[j] ELSE x[j - Len(s)]
  BY <1>4, ConcatProperties
<1>7. PICK t \in Seq(Digit) : t = s \o x /\ Len(t) = o + l
  BY <1>3, <1>5
<1>8. \A j \in 1 .. o : t[j] = s[j]
  BY <1>3, <1>6, <1>7
<1>9. \A j \in 1 .. l : t[o + j] = x[j]
  <2>. SUFFICES ASSUME NEW j \in 1 .. l PROVE t[o + j] = x[j]
    OBVIOUS
  <2>1. o + j \in 1 .. Len(s) + Len(x) /\ ~(o + j <= Len(s)) /\ (o + j) - Len(s) = j
    BY <1>3
  <2>. QED BY <1>6, <1>7, <2>1
<1>10. ASSUME NEW i \in 1 .. n + 1, NEW j \in 1 .. Len(w[i])
       PROVE  t[Offset(c, i - 1) + j] = w[i][j]
  <2>1. CASE i = n + 1
    <3>1. i - 1 = n
      BY <1>1, <2>1
    <3>2. j \in 1 .. l
      BY <1>2, <1>3, <2>1
    <3>. QED BY <1>2, <1>3, <1>9, <2>1, <3>1, <3>2
  <2>2. CASE i # n + 1
    <3>1. i \in 1 .. n /\ i \in 1 .. Len(w) /\ i \in 0 .. Len(w) /\ i - 1 \in 0 .. Len(w)
      BY <1>1, <2>2
    <3>2. PICK e \in Nat, m \in Nat : /\ e = Offset(c, i - 1) /\ m = Len(w[i])
                                      /\ Offset(c, i) = e + m /\ Offset(c, i) \in Nat
      BY <3>1, OffsetsAre
    <3>3. Offset(c, i) <= o
      <4>1. CASE i = n
        BY <1>3, <4>1
      <4>2. CASE i < n
        <5>1. Offset(c, i) < Offset(c, n)
          BY <1>1, <3>1, <4>2, OffsetsAre
        <5>. QED BY <1>3, <3>2, <5>1
      <4>. QED BY <1>1, <3>1, <4>1, <4>2
    <3>4. e + j \in 1 .. o
      BY <3>2, <3>3
    <3>5. s[e + j] = w[i][j]
      BY <3>1, <3>2 DEF StreamIs
    <3>. QED BY <1>8, <3>2, <3>4, <3>5
  <2>. QED BY <2>1, <2>2
<1>11. StreamIs(t, n + 1, c, w)
  BY <1>1, <1>3, <1>7, <1>10 DEF StreamIs
<1>. QED BY <1>2, <1>7, <1>11

\* d are k digits, x's as far as x has them.
Reads(d, k, x) ==
    /\ d \in Seq(Digit) /\ Len(d) = k
    /\ \A j \in 1 .. Len(x) : j <= k => d[j] = x[j]

\* A read that starts where a write did gets the digits of that write first.
LEMMA ReadOne ==
    ASSUME NEW c, NEW value, NEW a, NEW w, Conversation(c, value, a), Written(w, c),
           NEW s, NEW n, StreamIs(s, n, c, w),
           NEW i \in 1 .. Len(w), NEW k \in Nat, k > 0,
           NEW p \in Nat, p = Offset(c, i - 1), p + k <= Len(s)
    PROVE  Reads(Part(s, p + 1, p + k), k, w[i])
<1>1. Len(w) \in Nat /\ n \in 0 .. Len(w) /\ s \in Seq(Digit) /\ Len(s) \in Nat
  BY OffsetsAre, LenProperties DEF StreamIs
<1>2. i <= n
  <2>. SUFFICES ASSUME n < i PROVE FALSE
    BY <1>1
  <2>1. n \in 0 .. Len(w) /\ i - 1 \in 0 .. Len(w) /\ (n = i - 1 \/ n < i - 1)
    BY <1>1
  <2>2. Offset(c, n) <= p
    <3>1. Offset(c, n) \in Nat
      BY <2>1, OffsetsAre
    <3>2. CASE n = i - 1
      BY <3>1, <3>2
    <3>3. CASE n < i - 1
      <4>1. Offset(c, n) < Offset(c, i - 1)
        BY <2>1, <3>3, OffsetsAre
      <4>. QED BY <3>1, <4>1
    <3>. QED BY <2>1, <3>2, <3>3
  <2>3. Len(s) <= p
    BY <2>2 DEF StreamIs
  <2>. QED BY <1>1, <2>3
<1>3. \A j \in 1 .. Len(w[i]) : s[p + j] = w[i][j]
  BY <1>2 DEF StreamIs
<1>. DEFINE d == Part(s, p + 1, p + k)
<1>4. PICK b \in Nat, e \in Nat : b = p + 1 /\ e = p + k /\ b # 0 /\ b <= e /\ e - b + 1 = k
  OBVIOUS
<1>5. d \in Seq(Digit) /\ Len(d) = k /\ \A j \in 1 .. Len(d) : d[j] = s[b + j - 1]
  <2>1. b \in Nat \ {0}
    BY <1>4
  <2>2. /\ Part(s, b, e) \in Seq(Digit)
        /\ \A j \in 1 .. Len(Part(s, b, e)) :
              b + j - 1 <= Len(s) /\ Part(s, b, e)[j] = s[b + j - 1]
    BY <1>1, <2>1, Parts, Zenon
  <2>3. Len(Part(s, b, e)) = IF b <= e THEN e - b + 1 ELSE 0
    <3>1. e <= Len(s)
      BY <1>4
    <3>. QED BY <1>1, <2>1, <3>1, Parts
  <2>4. Len(Part(s, b, e)) = k
    BY <1>4, <2>3
  <2>. QED BY <1>4, <2>2, <2>4
<1>. HIDE DEF d
<1>6. ASSUME NEW j \in 1 .. Len(w[i]), j <= k PROVE d[j] = w[i][j]
  <2>1. Len(w[i]) \in Nat
    BY OffsetsAre
  <2>2. j \in 1 .. Len(d) /\ b + j - 1 = p + j
    BY <1>4, <1>5, <1>6, <2>1
  <2>. QED BY <1>3, <1>5, <2>2
<1>. QED BY <1>5, <1>6 DEF Reads, d

\* The number at the m-th and the next place.
LEMMA NumberAt ==
    ASSUME NEW d \in Seq(Digit), NEW m \in Nat, m > 0,
           NEW k \in Nat, Len(d) = k, m <= k => d[m] = 0
    PROVE  Number(Part(d, m, m + 1)) = IF m + 1 <= k THEN d[m + 1] ELSE 0
<1>1. PICK n \in Nat, l \in Nat \ {0} : n = m + 1 /\ l = m
  OBVIOUS
<1>2. PICK q : q = Part(d, l, n)
  OBVIOUS
<1>3. /\ q \in Seq(Digit) /\ Len(q) <= IF l <= n THEN n - l + 1 ELSE 0
      /\ n <= Len(d) => Len(q) = IF l <= n THEN n - l + 1 ELSE 0
      /\ \A i \in 1 .. Len(q) : l + i - 1 <= Len(d) /\ q[i] = d[l + i - 1]
  <2>1. /\ q \in Seq(Digit)
        /\ \A i \in 1 .. Len(q) : l + i - 1 <= Len(d) /\ q[i] = d[l + i - 1]
    <3>1. d \in Seq(Digit) /\ l \in Nat \ {0} /\ n \in Nat
      BY <1>1
    <3>2. Part(d, l, n) \in Seq(Digit)
      BY <3>1, Parts
    <3>3. \A i \in 1 .. Len(Part(d, l, n)) : l + i - 1 <= Len(d) /\ Part(d, l, n)[i] = d[l + i - 1]
      BY <3>1, Parts
    <3>. QED BY <1>2, <3>2, <3>3
  <2>2. Len(q) <= IF l <= n THEN n - l + 1 ELSE 0
    BY <1>1, <1>2, Parts
  <2>3. n <= Len(d) => Len(q) = IF l <= n THEN n - l + 1 ELSE 0
    BY <1>1, <1>2, Parts
  <2>. QED BY <2>1, <2>2, <2>3
<1>4. PICK e \in Nat : /\ e = Len(q) /\ e <= 2 /\ (m + 1 <= k => e = 2)
                       /\ \A i \in 1 .. e : m + i - 1 <= k /\ q[i] = d[m + i - 1]
  <2>1. Len(q) \in Nat
    BY <1>3, LenProperties
  <2>2. Len(q) <= 2 /\ (m + 1 <= k => Len(q) = 2)
    BY <1>1, <1>3, <2>1
  <2>3. \A i \in 1 .. Len(q) : m + i - 1 <= k /\ q[i] = d[m + i - 1]
    BY <1>1, <1>3
  <2>. QED BY <2>1, <2>2, <2>3
<1>5. e > 0 => q[1] = 0
  <2>. SUFFICES ASSUME e > 0 PROVE q[1] = 0
    OBVIOUS
  <2>1. 1 \in 1 .. e /\ m + 1 - 1 = m
    OBVIOUS
  <2>2. m <= k /\ q[1] = d[m]
    BY <1>4, <2>1
  <2>. QED BY <2>2
<1>6. e > 1 => m + 1 <= k /\ q[2] = d[m + 1]
  <2>. SUFFICES ASSUME e > 1 PROVE m + 1 <= k /\ q[2] = d[m + 1]
    OBVIOUS
  <2>1. 2 \in 1 .. e /\ m + 2 - 1 = m + 1
    OBVIOUS
  <2>. QED BY <1>4, <2>1
<1>7. (IF e > 0 THEN q[1] * Radix ELSE 0) = 0
  <2>1. 0 * Radix = 0
    BY Widths
  <2>. QED BY <1>5, <2>1
<1>8. (IF e > 1 THEN q[2] ELSE 0) = IF m + 1 <= k THEN d[m + 1] ELSE 0
  BY <1>4, <1>6
<1>9. Number(q) = 0 + (IF m + 1 <= k THEN d[m + 1] ELSE 0)
  BY <1>4, <1>7, <1>8 DEF Number
<1>10. m + 1 <= k => d[m + 1] \in Nat
  <2>1. m + 1 <= k => m + 1 \in 1 .. Len(d)
    OBVIOUS
  <2>. QED BY <2>1, LenProperties, Widths DEF Digit
<1>11. Number(q) = IF m + 1 <= k THEN d[m + 1] ELSE 0
  BY <1>9, <1>10
<1>. QED BY <1>1, <1>2, <1>11

\* Of a header that was cut, no length of a command is left.
LEMMA HeaderRead ==
    ASSUME NEW x, Sendable(x), NEW k \in 1 .. 4, NEW d, Reads(d, k, header_hton(x))
    PROVE  /\ Number(Part(d, 3, 4)) = IF k = 4 THEN Len(name[x.command]) ELSE 0
           /\ k = 4 => Number(Part(d, 1, 2)) = Len(Body(x))
<1>1. /\ d \in Seq(Digit) /\ Len(d) = k
      /\ \A j \in 1 .. 4 : j <= k => d[j] = header_hton(x)[j]
  BY Sent DEF Reads
<1>2. /\ d[1] = 0 /\ (2 <= k => d[2] = Len(Body(x)))
      /\ 3 <= k => d[3] = 0
      /\ 4 <= k => d[4] = Len(name[x.command])
  <2>1. /\ header_hton(x)[1] = 0 /\ header_hton(x)[2] = Len(Body(x))
        /\ header_hton(x)[3] = 0 /\ header_hton(x)[4] = Len(name[x.command])
    BY Sent
  <2>. QED BY <1>1, <2>1
<1>3. Number(Part(d, 3, 4)) = IF k = 4 THEN Len(name[x.command]) ELSE 0
  <2>1. PICK m \in Nat : m = 3 /\ m > 0 /\ m + 1 = 4
    OBVIOUS
  <2>2. m <= k => d[m] = 0
    BY <1>2, <2>1
  <2>3. Number(Part(d, m, m + 1)) = IF m + 1 <= k THEN d[m + 1] ELSE 0
    BY <1>1, <2>1, <2>2, NumberAt
  <2>. QED BY <1>2, <2>1, <2>3
<1>4. k = 4 => Number(Part(d, 1, 2)) = Len(Body(x))
  <2>1. PICK m \in Nat : m = 1 /\ m > 0 /\ m + 1 = 2
    OBVIOUS
  <2>2. m <= k => d[m] = 0
    BY <1>2, <2>1
  <2>3. Number(Part(d, m, m + 1)) = IF m + 1 <= k THEN d[m + 1] ELSE 0
    BY <1>1, <2>1, <2>2, NumberAt
  <2>. QED BY <1>2, <2>1, <2>3
<1>. QED BY <1>3, <1>4

\* A body of which the name was read begins with it,
LEMMA NameRead ==
    ASSUME NEW x, Sendable(x), NEW k \in Nat, NEW d, Reads(d, k, Body(x)),
           Len(name[x.command]) <= k
    PROVE  Begins(d, x.command)
<1>1. PICK n \in Nat, l \in Nat : /\ n = Len(name[x.command]) /\ l = Len(Body(x)) /\ n <= l
                                  /\ \A i \in 1 .. n : Body(x)[i] = name[x.command][i]
  <2>1. Len(name[x.command]) \in Nat /\ Len(x.payload) \in Nat
    BY Sent
  <2>2. Len(Body(x)) = Len(name[x.command]) + Len(x.payload)
    BY Sent
  <2>3. \A i \in 1 .. Len(name[x.command]) : Body(x)[i] = name[x.command][i]
    BY Sent
  <2>4. Len(Body(x)) \in Nat /\ Len(name[x.command]) <= Len(Body(x))
    <3>1. \A n, p \in Nat : n + p \in Nat /\ n <= n + p
      OBVIOUS
    <3>. QED BY <2>1, <2>2, <3>1
  <2>. QED BY <2>1, <2>3, <2>4
<1>2. d \in Seq(Digit) /\ Len(d) = k /\ \A j \in 1 .. l : j <= k => d[j] = Body(x)[j]
  BY <1>1 DEF Reads
<1>3. \A j \in 1 .. n : d[j] = name[x.command][j]
  BY <1>1, <1>2
<1>. QED BY <1>1, <1>2, <1>3 DEF Begins

\* and one that was read as a whole has the payload behind it.
LEMMA BodyRead ==
    ASSUME NEW x, Sendable(x), NEW k, k = Len(Body(x)), NEW d, Reads(d, k, Body(x))
    PROVE  /\ Part(d, Len(name[x.command]) + 1, k) = x.payload
           /\ Message(x.command, x.payload) = x
<1>1. PICK n \in Nat, p \in Nat : /\ n = Len(name[x.command]) /\ p = Len(x.payload)
                                  /\ Len(Body(x)) = n + p
                                  /\ \A i \in 1 .. p : Body(x)[n + i] = x.payload[i]
  <2>1. Len(name[x.command]) \in Nat /\ Len(x.payload) \in Nat
    BY Sent
  <2>2. Len(Body(x)) = Len(name[x.command]) + Len(x.payload)
    BY Sent
  <2>3. \A i \in 1 .. Len(x.payload) : Body(x)[Len(name[x.command]) + i] = x.payload[i]
    BY Sent
  <2>. QED BY <2>1, <2>2, <2>3
<1>2. d \in Seq(Digit) /\ Len(d) = k /\ \A j \in 1 .. k : d[j] = Body(x)[j]
  <2>1. d \in Seq(Digit) /\ Len(d) = k /\ k \in Nat
    <3>1. n + p \in Nat
      OBVIOUS
    <3>2. k \in Nat
      BY <1>1, <3>1, Zenon
    <3>. QED BY <3>2 DEF Reads
  <2>2. \A j \in 1 .. k : j <= k => d[j] = Body(x)[j]
    BY DEF Reads
  <2>. QED BY <2>1, <2>2
<1>3. PICK b \in Nat \ {0}, e \in Nat : /\ b = n + 1 /\ e = k /\ (b <= e <=> p > 0)
                                        /\ e - b + 1 = p /\ e = Len(d)
  <2>1. /\ n + 1 \in Nat \ {0} /\ n + p \in Nat /\ (n + 1 <= n + p <=> p > 0)
        /\ (n + p) - (n + 1) + 1 = p
    OBVIOUS
  <2>2. k = n + p /\ k = Len(d)
    BY <1>1, <1>2
  <2>. QED BY <2>1, <2>2
<1>4. PICK q : q = Part(d, b, e)
  OBVIOUS
<1>5. q \in Seq(Digit) /\ \A i \in 1 .. Len(q) : b + i - 1 <= Len(d) /\ q[i] = d[b + i - 1]
  BY <1>2, <1>4, Parts
<1>6. Len(q) = p
  <2>1. e <= Len(d)
    BY <1>3
  <2>2. Len(Part(d, b, e)) = IF b <= e THEN e - b + 1 ELSE 0
    BY <1>2, <2>1, Parts
  <2>. QED BY <1>3, <1>4, <2>2
<1>7. x.payload \in Seq(Digit)
  BY DEF Sendable
<1>8. \A i \in 1 .. p : q[i] = x.payload[i]
  <2>. SUFFICES ASSUME NEW i \in 1 .. p PROVE q[i] = x.payload[i]
    OBVIOUS
  <2>1. b + i - 1 = n + i /\ n + i \in 1 .. k
    <3>1. (n + 1) + i - 1 = n + i /\ n + i \in 1 .. n + p
      OBVIOUS
    <3>2. b = n + 1 /\ k = n + p
      BY <1>1, <1>3
    <3>. QED BY <3>1, <3>2, Zenon
  <2>. QED BY <1>1, <1>2, <1>5, <1>6, <2>1
<1>9. q = x.payload
  BY <1>1, <1>5, <1>6, <1>7, <1>8, SeqEqual
<1>10. Message(x.command, x.payload) = x
  BY DEF Sendable, Message
<1>. QED BY <1>1, <1>3, <1>4, <1>9, <1>10
-----------------------------------------------------------------------------
(* The invariant. *)

\* What is written is the conversation.
StreamOK ==
    /\ Conversation(conversation, option, address)
    /\ StreamIs(stream, writes, conversation, AllWrites)

\* As long as nothing was cut, the receiver is between two reads where the
\* sender is between two writes, and expects what comes.
Between ==
    LET m == Len(handled)
        x == conversation[m + 1]
    IN  /\ m <= Len(conversation) /\ \A i \in 1 .. m : handled[i] = conversation[i]
        /\ pc = "header" => m < Len(conversation) /\ position = Offset(conversation, 2 * m)
        /\ pc = "body" => /\ m < Len(conversation) /\ position = Offset(conversation, 2 * m + 1)
                          /\ header.bytes = Len(Body(x))
                          /\ header.command_length = Len(name[x.command])

InStep == cut = {} => Between

\* Before anything was handled, a header was read as a whole, or it gives no
\* length of a command.
Fresh ==
    handled = <<>> =>
        /\ ~listed
        /\ pc = "header" => position = 0
        /\ pc = "body" => \/ header.command_length = 0
                          \/ position = 4 /\ header.command_length = Len(name[Asked])

IInv == TypeOK /\ StreamOK /\ InStep /\ Fresh /\ FirstCommandIsTheOneSent

\* Where the header and the body of the next message are.
LEMMA WriteAt ==
    ASSUME NEW c, NEW value, NEW a, NEW w, Conversation(c, value, a), Written(w, c),
           NEW m \in Nat, m < Len(c)
    PROVE  /\ 2 * m + 1 \in 1 .. Len(w) /\ 2 * m + 2 \in 1 .. Len(w)
           /\ w[2 * m + 1] = header_hton(c[m + 1]) /\ w[2 * m + 2] = Body(c[m + 1])
           /\ Offset(c, 2 * m) \in Nat /\ Offset(c, 2 * m + 1) = Offset(c, 2 * m) + 4
           /\ Offset(c, 2 * m + 2) = Offset(c, 2 * m + 1) + Len(Body(c[m + 1]))
           /\ Sendable(c[m + 1])
<1>1. Len(c) \in {1, 2} /\ Len(w) = 2 * Len(c) /\ Len(w) \in Nat
  BY OffsetsAre DEF Conversation, Written
<1>2. m = 0 \/ (m = 1 /\ Len(c) = 2)
  <2>1. PICK l \in Nat : l = Len(c) /\ (l = 1 \/ l = 2) /\ m < l
    BY <1>1
  <2>2. m = 0 \/ (m = 1 /\ l = 2)
    BY <2>1
  <2>. QED BY <2>1, <2>2
<1>3. /\ 2 * m \in 0 .. Len(w) /\ 2 * m + 1 \in 1 .. Len(w) /\ 2 * m + 2 \in 1 .. Len(w)
      /\ (2 * m + 1) - 1 = 2 * m /\ (2 * m + 2) - 1 = 2 * m + 1 /\ m + 1 \in 1 .. Len(c)
  <2>1. CASE m = 0
    BY <1>1, <2>1
  <2>2. CASE m = 1 /\ Len(c) = 2
    BY <1>1, <2>2
  <2>. QED BY <1>2, <2>1, <2>2
<1>4. w[2 * m + 1] = header_hton(c[m + 1]) /\ w[2 * m + 2] = Body(c[m + 1])
  <2>1. CASE m = 0
    BY <2>1 DEF Written
  <2>2. CASE m = 1 /\ Len(c) = 2
    BY <2>2 DEF Written
  <2>. QED BY <1>2, <2>1, <2>2
<1>5. Sendable(c[m + 1])
  BY <1>3 DEF Conversation
<1>6. Len(header_hton(c[m + 1])) = 4
  BY <1>5, Sent
<1>7. Offset(c, 2 * m) \in Nat
  BY <1>3, OffsetsAre
<1>8. \A i \in 1 .. Len(w) : Offset(c, i) = Offset(c, i - 1) + Len(w[i])
  BY OffsetsAre
<1>9. Offset(c, 2 * m + 1) = Offset(c, 2 * m) + Len(w[2 * m + 1])
  BY <1>3, <1>8, Zenon
<1>10. Offset(c, 2 * m + 2) = Offset(c, 2 * m + 1) + Len(w[2 * m + 2])
  BY <1>3, <1>8, Zenon
<1>. QED BY <1>3, <1>4, <1>5, <1>6, <1>7, <1>9, <1>10

\* A read returns no more than was asked for, and no more than was written.
LEMMA ReceivedIs ==
    ASSUME NEW n \in Nat, stream \in Seq(Digit), position \in 0 .. Len(stream),
           NEW k \in Received(n)
    PROVE  /\ k \in Nat /\ k <= n /\ position + k \in Nat /\ position + k <= Len(stream)
           /\ n # 0 => k > 0 \/ (k = 0 /\ closed)
<1>1. PICK l \in Nat, p \in Nat : l = Len(stream) /\ p = position /\ p <= l
  BY LenProperties
<1>2. PICK e \in Nat : e = Min({n, l - p}) /\ e <= n /\ e <= l - p
  <2>1. l - p \in Nat
    BY <1>1
  <2>2. Min({n, l - p}) = IF n <= l - p THEN n ELSE l - p
    BY <2>1, MinOfTwo
  <2>. QED BY <2>1, <2>2
<1>3. CASE n = 0 \/ (closed /\ position = Len(stream))
  <2>1. k = 0
    BY <1>3 DEF Received
  <2>. QED BY <1>1, <1>3, <2>1
<1>4. CASE ~(n = 0 \/ (closed /\ position = Len(stream)))
  <2>1. k \in 1 .. e
    BY <1>1, <1>2, <1>4 DEF Received
  <2>2. k \in Nat /\ k > 0 /\ k <= n /\ p + k <= l /\ p + k \in Nat
    BY <1>1, <1>2, <2>1
  <2>. QED BY <1>1, <2>2
<1>. QED BY <1>3, <1>4

\* Every step of the sender, and none, leaves the receiver where it was.
LEMMA ReceiverWaits ==
    ASSUME InStep, Fresh, FirstCommandIsTheOneSent, UNCHANGED <<conversation, receiver>>
    PROVE  InStep' /\ Fresh' /\ FirstCommandIsTheOneSent'
<1>1. /\ conversation' = conversation /\ position' = position /\ header' = header /\ pc' = pc
      /\ listed' = listed /\ handled' = handled /\ cut' = cut
  BY DEF receiver
<1>2. InStep'
  BY <1>1 DEF InStep, Between
<1>3. Fresh'
  BY <1>1 DEF Fresh, Asked
<1>4. FirstCommandIsTheOneSent'
  BY <1>1 DEF FirstCommandIsTheOneSent, Names, Asked
<1>. QED BY <1>2, <1>3, <1>4

\* The invariant holds at the start and is kept by every step.
LEMMA InvInit == Init => IInv
<1>. SUFFICES ASSUME Init PROVE IInv
  OBVIOUS
<1>1. /\ option \in OptionValues /\ address \in Addresses
      /\ conversation \in Conversations(option, address)
      /\ writes = 0 /\ stream = <<>> /\ closed = FALSE /\ position = 0
      /\ header = [bytes |-> 0, command_length |-> 0] /\ pc = "header"
      /\ listed = FALSE /\ handled = <<>> /\ cut = {}
  BY DEF Init
<1>2. Conversation(conversation, option, address)
  BY <1>1, FramingAssumption, ConversationsAre
<1>3. Written(AllWrites, conversation)
  BY <1>2, WritesAre
<1>4. Len(AllWrites) \in Nat
  BY <1>2, <1>3, OffsetsAre
<1>5. conversation \in Seq(Messages) /\ Len(conversation) \in {1, 2}
  BY <1>2 DEF Conversation
<1>6. Offset(conversation, 0) = 0
  BY DEF Offset
<1>7. <<>> \in Seq(Digit) /\ Len(<<>>) = 0 /\ <<>> \in Seq(Messages)
  BY EmptySeq
<1>8. TypeOK
  <2>1. writes \in 0 .. Len(AllWrites)
    BY <1>1, <1>4
  <2>2. stream \in Seq(Digit) /\ handled \in Seq(Messages) /\ Len(stream) = 0
    BY <1>1, <1>7
  <2>3. position \in 0 .. Len(stream)
    BY <1>1, <2>2
  <2>4. header \in [bytes : 0 .. u16_values - 1, command_length : 0 .. u16_values - 1]
    <3>1. 0 \in 0 .. u16_values - 1
      BY Widths
    <3>. QED BY <1>1, <3>1
  <2>. QED BY <1>1, <1>5, <2>1, <2>2, <2>3, <2>4 DEF TypeOK
<1>9. StreamOK
  <2>1. 0 \in 0 .. Len(AllWrites) /\ Len(stream) = Offset(conversation, 0) /\ stream \in Seq(Digit)
    BY <1>1, <1>4, <1>6, <1>7
  <2>. QED BY <1>1, <1>2, <2>1 DEF StreamOK, StreamIs
<1>10. InStep
  <2>1. Len(handled) = 0 /\ 0 < Len(conversation) /\ 2 * 0 = 0
    BY <1>1, <1>5, <1>7
  <2>. QED BY <1>1, <1>6, <2>1 DEF InStep, Between
<1>11. Fresh /\ FirstCommandIsTheOneSent
  BY <1>1 DEF Fresh, FirstCommandIsTheOneSent
<1>. QED BY <1>8, <1>9, <1>10, <1>11 DEF IInv

LEMMA WriteKeeps == IInv /\ Write => IInv'
<1>. SUFFICES ASSUME IInv, Write PROVE IInv'
  OBVIOUS
<1>1. TypeOK /\ StreamOK /\ InStep /\ Fresh /\ FirstCommandIsTheOneSent
  BY DEF IInv
<1>2. /\ writes < Len(AllWrites) /\ writes' = writes + 1
      /\ stream' = stream \o AllWrites[writes + 1]
      /\ option' = option /\ address' = address /\ conversation' = conversation
      /\ closed' = closed /\ UNCHANGED receiver
  BY DEF Write, sender
<1>3. AllWrites' = AllWrites
  BY <1>2 DEF AllWrites
<1>4. Conversation(conversation, option, address) /\ Written(AllWrites, conversation)
  BY <1>1, WritesAre DEF StreamOK
<1>5. StreamIs(stream', writes', conversation, AllWrites)
  BY <1>1, <1>2, <1>4, OneMoreWrite DEF StreamOK
<1>6. StreamOK'
  BY <1>2, <1>3, <1>4, <1>5 DEF StreamOK
<1>7. TypeOK'
  <2>1. stream' \in Seq(Digit) /\ writes' \in 0 .. Len(AllWrites)
    BY <1>5 DEF StreamIs
  <2>2. Len(stream) <= Len(stream') /\ Len(stream) \in Nat /\ Len(stream') \in Nat
    <3>1. Len(AllWrites) \in Nat /\ writes \in 0 .. Len(AllWrites)
      BY <1>1, <1>4, OffsetsAre DEF TypeOK
    <3>2. /\ writes \in 0 .. Len(AllWrites) /\ writes + 1 \in 0 .. Len(AllWrites)
          /\ writes < writes + 1
      BY <1>2, <3>1
    <3>3. Offset(conversation, writes) < Offset(conversation, writes + 1)
      BY <1>4, <3>2, OffsetsAre
    <3>4. Offset(conversation, writes) \in Nat /\ Offset(conversation, writes + 1) \in Nat
      BY <1>4, <3>2, OffsetsAre
    <3>5. Len(stream) = Offset(conversation, writes)
      BY <1>1 DEF StreamOK, StreamIs
    <3>6. Len(stream') = Offset(conversation, writes + 1)
      BY <1>2, <1>5 DEF StreamIs
    <3>. QED BY <3>3, <3>4, <3>5, <3>6
  <2>3. position' \in 0 .. Len(stream')
    <3>1. position \in 0 .. Len(stream) /\ position' = position
      BY <1>1, <1>2 DEF TypeOK, receiver
    <3>. QED BY <2>2, <3>1
  <2>. QED BY <1>1, <1>2, <1>3, <2>1, <2>3 DEF TypeOK, receiver
<1>8. InStep' /\ Fresh' /\ FirstCommandIsTheOneSent'
  BY <1>1, <1>2, ReceiverWaits
<1>. QED BY <1>6, <1>7, <1>8 DEF IInv

\* The end of the sender, and a step of nobody, change nothing of this.
LEMMA CloseKeeps == IInv /\ (Close \/ UNCHANGED vars) => IInv'
<1>. SUFFICES ASSUME IInv, Close \/ UNCHANGED vars PROVE IInv'
  OBVIOUS
<1>1. TypeOK /\ StreamOK /\ InStep /\ Fresh /\ FirstCommandIsTheOneSent
  BY DEF IInv
<1>2. /\ writes' = writes /\ stream' = stream /\ closed' \in BOOLEAN
      /\ option' = option /\ address' = address /\ conversation' = conversation
      /\ UNCHANGED receiver
  BY <1>1 DEF Close, vars, sender, TypeOK
<1>3. AllWrites' = AllWrites
  BY <1>2 DEF AllWrites
<1>4. StreamOK'
  BY <1>1, <1>2, <1>3 DEF StreamOK
<1>5. TypeOK'
  BY <1>1, <1>2, <1>3 DEF TypeOK, receiver
<1>6. InStep' /\ Fresh' /\ FirstCommandIsTheOneSent'
  BY <1>1, <1>2, ReceiverWaits
<1>. QED BY <1>4, <1>5, <1>6 DEF IInv

LEMMA ReadHeaderKeeps == IInv /\ ReadHeader => IInv'
<1>. SUFFICES ASSUME IInv, ReadHeader PROVE IInv'
  OBVIOUS
<1>1. TypeOK /\ StreamOK /\ InStep /\ Fresh /\ FirstCommandIsTheOneSent
  BY DEF IInv
<1>2. PICK k \in Received(4) :
         LET digits == Part(stream, position + 1, position + k) IN
         /\ position' = position + k
         /\ header' = [bytes |-> Number(Part(digits, 1, 2)),
                       command_length |-> Number(Part(digits, 3, 4))]
         /\ pc' = IF k = 0 THEN "done" ELSE "body"
         /\ cut' = IF k \in 1 .. 3 THEN cut \cup {"header"} ELSE cut
  BY DEF ReadHeader
<1>3. /\ pc = "header" /\ listed' = listed /\ handled' = handled
      /\ option' = option /\ address' = address /\ conversation' = conversation
      /\ writes' = writes /\ stream' = stream /\ closed' = closed
  BY DEF ReadHeader, sender
<1>4. AllWrites' = AllWrites /\ Asked' = Asked /\ Names' = Names
  BY <1>3 DEF AllWrites, Names, Asked
<1>5. /\ stream \in Seq(Digit) /\ position \in 0 .. Len(stream)
      /\ Len(stream) \in Nat /\ position \in Nat
  <2>1. stream \in Seq(Digit) /\ position \in 0 .. Len(stream)
    BY <1>1 DEF TypeOK
  <2>. QED BY <2>1, LenProperties
<1>6. /\ k \in Nat /\ k <= 4 /\ position + k \in Nat /\ position + k <= Len(stream)
      /\ position' \in 0 .. Len(stream)
  <2>1. k \in Nat /\ k <= 4 /\ position + k \in Nat /\ position + k <= Len(stream)
    BY <1>5, ReceivedIs
  <2>. QED BY <1>2, <1>5, <2>1
<1>7. PICK d \in Seq(Digit) : d = Part(stream, position + 1, position + k)
  <2>1. position + 1 \in Nat \ {0}
    BY <1>5
  <2>. QED BY <1>5, <1>6, <2>1, Parts
<1>8. StreamOK'
  BY <1>1, <1>3, <1>4 DEF StreamOK
<1>9. TypeOK'
  <2>1. Number(Part(d, 1, 2)) \in 0 .. u16_values - 1
    <3>1. Part(d, 1, 2) \in Seq(Digit) /\ Len(Part(d, 1, 2)) <= IF 1 <= 2 THEN 2 - 1 + 1 ELSE 0
      BY <1>7, Parts
    <3>2. Len(Part(d, 1, 2)) <= 2
      BY <3>1
    <3>. QED BY <3>1, <3>2, NumberType
  <2>2. Number(Part(d, 3, 4)) \in 0 .. u16_values - 1
    <3>1. Part(d, 3, 4) \in Seq(Digit) /\ Len(Part(d, 3, 4)) <= IF 3 <= 4 THEN 4 - 3 + 1 ELSE 0
      BY <1>7, Parts
    <3>2. Len(Part(d, 3, 4)) <= 2
      BY <3>1
    <3>. QED BY <3>1, <3>2, NumberType
  <2>3. header' \in [bytes : 0 .. u16_values - 1, command_length : 0 .. u16_values - 1]
    BY <1>2, <1>7, <2>1, <2>2
  <2>4. pc' \in {"header", "body", "done"} /\ cut' \subseteq {"header", "name", "payload"}
    BY <1>1, <1>2 DEF TypeOK
  <2>. QED BY <1>1, <1>3, <1>4, <1>6, <2>3, <2>4 DEF TypeOK
<1>10. PICK c, w : /\ c = conversation /\ w = AllWrites
                   /\ Conversation(c, option, address) /\ Written(w, c)
                   /\ StreamIs(stream, writes, c, w)
  BY <1>1, WritesAre DEF StreamOK
<1>11. Len(c) \in Nat
  BY <1>10 DEF Conversation
\* What a header says that the receiver meets where it was written.
<1>12. ASSUME NEW m \in Nat, m < Len(c), position = Offset(c, 2 * m), k > 0
       PROVE  /\ header'.command_length = IF k = 4 THEN Len(name[c[m + 1].command]) ELSE 0
              /\ k = 4 => header'.bytes = Len(Body(c[m + 1]))
              /\ k = 4 => position' = Offset(c, 2 * m + 1)
  <2>1. /\ 2 * m + 1 \in 1 .. Len(w) /\ w[2 * m + 1] = header_hton(c[m + 1])
        /\ Offset(c, 2 * m + 1) = Offset(c, 2 * m) + 4 /\ Sendable(c[m + 1])
    BY <1>10, <1>12, WriteAt
  <2>2. PICK i \in 1 .. Len(w) : i = 2 * m + 1 /\ i - 1 = 2 * m
    BY <1>12, <2>1
  <2>3. PICK p \in Nat : p = position /\ p = Offset(c, i - 1) /\ p + k <= Len(stream)
    BY <1>5, <1>6, <1>12, <2>2
  <2>4. Reads(Part(stream, p + 1, p + k), k, w[i])
    BY <1>6, <1>10, <1>12, <2>3, ReadOne
  <2>5. Reads(d, k, header_hton(c[m + 1]))
    BY <1>7, <2>1, <2>2, <2>3, <2>4
  <2>6. k \in 1 .. 4
    BY <1>6, <1>12
  <2>7. /\ Number(Part(d, 3, 4)) = IF k = 4 THEN Len(name[c[m + 1].command]) ELSE 0
        /\ k = 4 => Number(Part(d, 1, 2)) = Len(Body(c[m + 1]))
    BY <2>1, <2>5, <2>6, HeaderRead
  <2>8. header'.command_length = Number(Part(d, 3, 4)) /\ header'.bytes = Number(Part(d, 1, 2))
    BY <1>2, <1>7
  <2>. QED BY <1>2, <1>12, <2>1, <2>7, <2>8
<1>13. InStep'
  <2>. SUFFICES ASSUME cut' = {} PROVE Between'
    BY DEF InStep
  <2>1. cut = {} /\ k \notin 1 .. 3
    BY <1>2
  <2>2. PICK m \in Nat : /\ m = Len(handled) /\ m < Len(c) /\ position = Offset(c, 2 * m)
                         /\ \A i \in 1 .. m : handled[i] = c[i]
    <3>1. handled \in Seq(Messages)
      BY <1>1 DEF TypeOK
    <3>. QED BY <1>1, <1>3, <1>10, <2>1, <3>1, LenProperties DEF InStep, Between
  <2>3. CASE k = 0
    <3>1. pc' = "done"
      BY <1>2, <2>3
    <3>2. m <= Len(c)
      BY <1>11, <2>2
    <3>. QED BY <1>3, <1>10, <2>2, <3>1, <3>2 DEF Between
  <2>4. CASE k # 0
    <3>1. k = 4 /\ k > 0
      BY <1>6, <2>1, <2>4
    <3>2. pc' = "body"
      BY <1>2, <2>4
    <3>3. /\ header'.command_length = Len(name[c[m + 1].command])
          /\ header'.bytes = Len(Body(c[m + 1])) /\ position' = Offset(c, 2 * m + 1)
      BY <1>12, <2>2, <3>1
    <3>4. m <= Len(c)
      BY <1>11, <2>2
    <3>. QED BY <1>3, <1>10, <2>2, <3>2, <3>3, <3>4 DEF Between
  <2>. QED BY <2>3, <2>4
<1>14. Fresh'
  <2>. SUFFICES ASSUME handled' = <<>>
                PROVE  /\ ~listed'
                       /\ pc' = "header" => position' = 0
                       /\ pc' = "body" => \/ header'.command_length = 0
                                          \/ /\ position' = 4
                                             /\ header'.command_length = Len(name[Asked'])
    BY DEF Fresh
  <2>1. ~listed /\ position = 0
    BY <1>1, <1>3 DEF Fresh
  <2>2. CASE k = 0
    <3>1. pc' = "done"
      BY <1>2, <2>2
    <3>. QED BY <1>3, <2>1, <3>1
  <2>3. CASE k # 0
    <3>1. PICK m \in Nat : m = 0 /\ 2 * m = 0 /\ m + 1 = 1
      OBVIOUS
    <3>2. m < Len(c) /\ position = Offset(c, 2 * m)
      <4>1. Len(c) \in {1, 2}
        BY <1>10 DEF Conversation
      <4>2. 0 < Len(c)
        BY <4>1
      <4>3. Offset(c, 0) = 0
        BY DEF Offset
      <4>. QED BY <2>1, <3>1, <4>2, <4>3, Zenon
    <3>3. k > 0
      BY <1>6, <2>3
    <3>4. header'.command_length = IF k = 4 THEN Len(name[c[m + 1].command]) ELSE 0
      BY <1>12, <3>2, <3>3
    <3>5. c[m + 1].command = Asked
      BY <1>10, <3>1 DEF Asked
    <3>6. k = 4 => position' = 4
      BY <1>2, <2>1
    <3>7. pc' = "body"
      BY <1>2, <2>3
    <3>. QED BY <1>3, <1>4, <2>1, <3>4, <3>5, <3>6, <3>7
  <2>. QED BY <2>2, <2>3
<1>15. FirstCommandIsTheOneSent'
  <2>1. cut \subseteq cut'
    BY <1>2
  <2>. QED BY <1>1, <1>3, <1>4, <2>1 DEF FirstCommandIsTheOneSent
<1>. QED BY <1>8, <1>9, <1>13, <1>14, <1>15 DEF IInv

\* Who looks for no name takes a message for what it waits for.
LEMMA TakenWithoutNames ==
    ASSUME NEW data, Names = <<>>
    PROVE  Taken(data) = {Other}
<1>. DEFINE n == header.command_length
            NoneBefore(j) == \A l \in 1 .. j - 1 : ~str_n_equals(data, Names[l], n)
            Firsts == {j \in 1 .. Len(Names) : str_n_may_equal(data, Names[j], n) /\ NoneBefore(j)}
            None == {j \in {Len(Names) + 1} : NoneBefore(j)}
<1>1. Taken(data) = {Names[j] : j \in Firsts} \cup {Other : j \in None}
  BY DEF Taken
<1>2. Len(Names) = 0
  OBVIOUS
<1>3. NoneBefore(1)
  OBVIOUS
<1>4. Firsts = {} /\ None = {1}
  BY <1>2, <1>3
<1>. HIDE DEF Firsts, None
<1>. QED BY <1>1, <1>4

\* A body that was read with its name is taken for what it is.
LEMMA TakenForItself ==
    ASSUME Conversation(conversation, option, address),
           NEW m \in Nat, m < Len(conversation), NEW data,
           header.command_length = Len(name[conversation[m + 1].command]),
           Begins(data, conversation[m + 1].command)
    PROVE  Taken(data) = {conversation[m + 1].command}
<1>. DEFINE x == conversation[m + 1]
<1>1. PICK l \in {1, 2} : /\ l = Len(conversation) /\ m + 1 \in 1 .. l
                          /\ (m = 0 /\ l = 1) \/ (m = 0 /\ l = 2) \/ (m = 1 /\ l = 2)
  <2>1. PICK l \in {1, 2} : l = Len(conversation) /\ m < l
    BY DEF Conversation
  <2>2. m + 1 \in 1 .. l /\ ((m = 0 /\ l = 1) \/ (m = 0 /\ l = 2) \/ (m = 1 /\ l = 2))
    BY <2>1
  <2>. QED BY <2>1, <2>2
<1>2. x.command = Asked \/ (Asked = "LOG_ON" /\ x.command = "GET_CLIENTS")
  <2>1. CASE m = 0
    BY <2>1 DEF Asked
  <2>2. CASE m = 1 /\ l = 2
    BY <1>1, <2>2 DEF Conversation, Asked
  <2>. QED BY <1>1, <2>1, <2>2
<1>3. x.command \in DOMAIN name
  BY <1>1 DEF Conversation, Sendable
<1>4. CASE Asked \in Requests
  <2>1. Names = Commands /\ x.command \in Requests
    BY <1>2, <1>4, NamesAre DEF Requests
  <2>. QED BY <2>1, TakenIs
<1>5. CASE Asked \in Answers
  <2>1. Names = Verdicts /\ x.command \in Answers
    BY <1>2, <1>5, NamesAre DEF Answers
  <2>. QED BY <2>1, TakenIs
<1>6. CASE Asked = "FILE"
  <2>1. Other = "FILE" /\ x.command = "FILE"
    BY <1>2, <1>6, NamesAre
  <2>2. header.command_length = 0
    BY <1>3, <2>1, NameTypes
  <2>. QED BY <2>1, <2>2, TakenForNone
<1>7. CASE Asked \notin Requests \cup Answers \cup {"FILE"}
  <2>1. Names = <<>> /\ Other = Asked
    BY <1>7, NamesAre
  <2>2. x.command = Asked
    BY <1>2, <1>7 DEF Requests
  <2>3. Taken(data) = {Other}
    BY <2>1, TakenWithoutNames
  <2>. QED BY <2>1, <2>2, <2>3
<1>. QED BY <1>4, <1>5, <1>6, <1>7

LEMMA ReadBodyKeeps == IInv /\ ReadBody => IInv'
<1>. SUFFICES ASSUME IInv, ReadBody PROVE IInv'
  OBVIOUS
<1>1. TypeOK /\ StreamOK /\ InStep /\ Fresh /\ FirstCommandIsTheOneSent
  BY DEF IInv
<1>. DEFINE n == header.command_length
<1>2. PICK k \in Received(header.bytes) :
         LET data == Part(stream, position + 1, position + k) IN
         /\ position' = position + k
         /\ \/ /\ k = 0
               /\ pc' = IF listed /\ header.bytes = 0 THEN "header" ELSE "done"
               /\ UNCHANGED <<listed, handled, cut>>
            \/ /\ k > 0
               /\ cut' = cut \cup (IF k < header.bytes THEN {"payload"} ELSE {})
                             \cup (IF k < n THEN {"name"} ELSE {})
               /\ \E command \in Taken(data) :
                     /\ handled' = IF command = "unknown" THEN handled
                                   ELSE Append(handled,
                                               Message(command, Part(data, n + 1, header.bytes)))
                     /\ listed' = (listed \/ command = "LOG_ON")
                     /\ pc' = Next_pc(command)
  BY DEF ReadBody
<1>3. /\ pc = "body" /\ header' = header
      /\ option' = option /\ address' = address /\ conversation' = conversation
      /\ writes' = writes /\ stream' = stream /\ closed' = closed
  BY DEF ReadBody, sender
<1>4. AllWrites' = AllWrites /\ Asked' = Asked /\ Names' = Names
  BY <1>3 DEF AllWrites, Names, Asked
<1>5. /\ stream \in Seq(Digit) /\ position \in 0 .. Len(stream)
      /\ Len(stream) \in Nat /\ position \in Nat
  <2>1. stream \in Seq(Digit) /\ position \in 0 .. Len(stream)
    BY <1>1 DEF TypeOK
  <2>. QED BY <2>1, LenProperties
<1>6. header.bytes \in Nat /\ n \in Nat
  <2>1. header.bytes \in 0 .. u16_values - 1 /\ n \in 0 .. u16_values - 1
    BY <1>1 DEF TypeOK
  <2>. QED BY <2>1, Widths
<1>. HIDE DEF n
<1>7. /\ k \in Nat /\ k <= header.bytes /\ position + k \in Nat /\ position + k <= Len(stream)
      /\ position' \in 0 .. Len(stream)
  <2>1. /\ k \in Nat /\ k <= header.bytes
        /\ position + k \in Nat /\ position + k <= Len(stream)
    BY <1>5, <1>6, ReceivedIs
  <2>. QED BY <1>2, <1>5, <2>1
<1>8. PICK d \in Seq(Digit) : d = Part(stream, position + 1, position + k)
  <2>1. position + 1 \in Nat \ {0}
    BY <1>5
  <2>. QED BY <1>5, <1>7, <2>1, Parts
<1>9. PICK c, w : /\ c = conversation /\ w = AllWrites
                  /\ Conversation(c, option, address) /\ Written(w, c)
                  /\ StreamIs(stream, writes, c, w)
  BY <1>1, WritesAre DEF StreamOK
<1>10. StreamOK'
  BY <1>1, <1>3, <1>4 DEF StreamOK
<1>11. handled \in Seq(Messages) /\ Len(handled) \in Nat /\ Asked \in DOMAIN name
  <2>1. handled \in Seq(Messages)
    BY <1>1 DEF TypeOK
  <2>2. Sendable(c[1])
    <3>1. Len(c) \in {1, 2} /\ \A i \in 1 .. Len(c) : Sendable(c[i])
      BY <1>9 DEF Conversation
    <3>. QED BY <3>1
  <2>. QED BY <1>9, <2>1, <2>2, LenProperties DEF Asked, Sendable
\* What is known of the command, if the body is not a null request.
<1>12. PICK command, x :
          \/ k = 0 /\ UNCHANGED <<listed, handled, cut>>
             /\ pc' = IF listed /\ header.bytes = 0 THEN "header" ELSE "done"
          \/ /\ k > 0 /\ command \in Taken(d)
             /\ cut' = cut \cup (IF k < header.bytes THEN {"payload"} ELSE {})
                           \cup (IF k < n THEN {"name"} ELSE {})
             /\ x = Message(command, Part(d, n + 1, header.bytes))
             /\ handled' = IF command = "unknown" THEN handled ELSE Append(handled, x)
             /\ listed' = (listed \/ command = "LOG_ON")
             /\ pc' = Next_pc(command)
  BY <1>2, <1>8
<1>13. k > 0 /\ command # "unknown" => x \in Messages /\ x.command = command
  <2>. SUFFICES ASSUME k > 0, command # "unknown" PROVE x \in Messages /\ x.command = command
    OBVIOUS
  <2>1. command \in Taken(d) /\ x = Message(command, Part(d, n + 1, header.bytes))
    BY <1>12
  <2>2. command \in DOMAIN name
    BY <1>11, <2>1, TakenType
  <2>3. n + 1 \in Nat \ {0}
    BY <1>6
  <2>4. Part(d, n + 1, header.bytes) \in Seq(Digit)
    BY <1>6, <2>3, Parts
  <2>. QED BY <2>1, <2>2, <2>4 DEF Message, Messages
<1>14. handled' = handled \/ (k > 0 /\ command # "unknown" /\ handled' = Append(handled, x))
  BY <1>12
<1>15. cut \subseteq cut'
  BY <1>12
<1>16. TypeOK'
  <2>1. handled' \in Seq(Messages)
    BY <1>11, <1>13, <1>14, AppendProperties
  <2>2. listed' \in BOOLEAN
    <3>1. listed \in BOOLEAN
      BY <1>1 DEF TypeOK
    <3>. QED BY <1>12, <3>1
  <2>3. pc' \in {"header", "body", "done"}
    BY <1>12 DEF Next_pc
  <2>4. cut' \subseteq {"header", "name", "payload"}
    <3>1. cut \subseteq {"header", "name", "payload"}
      BY <1>1 DEF TypeOK
    <3>. QED BY <1>12, <3>1
  <2>. QED BY <1>1, <1>3, <1>4, <1>7, <2>1, <2>2, <2>3, <2>4 DEF TypeOK
\* What a body says that the receiver meets where it was written.
<1>17. ASSUME NEW m \in Nat, m < Len(c), position = Offset(c, 2 * m + 1), k > 0
       PROVE  /\ Reads(d, k, Body(c[m + 1])) /\ Sendable(c[m + 1])
              /\ Offset(c, 2 * m + 2) = position + Len(Body(c[m + 1]))
  <2>1. /\ 2 * m + 2 \in 1 .. Len(w) /\ w[2 * m + 2] = Body(c[m + 1])
        /\ Offset(c, 2 * m + 2) = Offset(c, 2 * m + 1) + Len(Body(c[m + 1])) /\ Sendable(c[m + 1])
    BY <1>9, <1>17, WriteAt
  <2>2. PICK i \in 1 .. Len(w) : i = 2 * m + 2 /\ i - 1 = 2 * m + 1
    BY <1>17, <2>1
  <2>3. PICK p \in Nat : p = position /\ p = Offset(c, i - 1) /\ p + k <= Len(stream)
    BY <1>5, <1>7, <1>17, <2>2
  <2>4. Reads(Part(stream, p + 1, p + k), k, w[i])
    BY <1>7, <1>9, <1>17, <2>3, ReadOne
  <2>5. Reads(d, k, Body(c[m + 1]))
    BY <1>8, <2>1, <2>2, <2>3, <2>4
  <2>. QED BY <1>17, <2>1, <2>5
<1>18. InStep'
  <2>. SUFFICES ASSUME cut' = {} PROVE Between'
    BY DEF InStep
  <2>1. cut = {}
    BY <1>15
  <2>2. PICK m \in Nat : /\ m = Len(handled) /\ m < Len(c) /\ position = Offset(c, 2 * m + 1)
                         /\ \A i \in 1 .. m : handled[i] = c[i]
                         /\ header.bytes = Len(Body(c[m + 1]))
                         /\ n = Len(name[c[m + 1].command])
    BY <1>1, <1>3, <1>9, <1>11, <2>1 DEF InStep, Between, n
  <2>3. Len(c) \in {1, 2} /\ \A i \in 1 .. Len(c) : Sendable(c[i])
    BY <1>9 DEF Conversation
  <2>4. m <= Len(c) /\ m + 1 <= Len(c) /\ m + 1 \in 1 .. Len(c)
    BY <2>2, <2>3
  <2>5. Sendable(c[m + 1])
    BY <2>3, <2>4
  <2>6. CASE k = 0
    <3>1. header.bytes # 0
      <4>1. Len(Body(c[m + 1])) \in 1 .. 7
        BY <2>5, Sent
      <4>2. \A b \in 1 .. 7 : b # 0
        OBVIOUS
      <4>. QED BY <2>2, <4>1, <4>2, Zenon
    <3>2. pc' = "done" /\ handled' = handled
      BY <1>12, <2>6, <3>1
    <3>. QED BY <1>3, <1>9, <2>2, <2>4, <3>2 DEF Between
  <2>7. CASE k # 0
    <3>1. k > 0
      BY <1>7, <2>7
    <3>2. k = header.bytes
      <4>1. ~(k < header.bytes)
        BY <1>12, <3>1
      <4>. QED BY <1>6, <1>7, <4>1
    <3>3. /\ Reads(d, k, Body(c[m + 1]))
          /\ Offset(c, 2 * m + 2) = position + Len(Body(c[m + 1]))
      BY <1>17, <2>2, <3>1
    <3>4. Len(name[c[m + 1].command]) <= k
      <4>1. ~(k < n)
        BY <1>12, <3>1
      <4>. QED BY <1>6, <1>7, <2>2, <4>1
    <3>5. Begins(d, c[m + 1].command)
      BY <1>7, <2>5, <3>3, <3>4, NameRead
    <3>6. Taken(d) = {c[m + 1].command}
      BY <1>9, <2>2, <3>5, TakenForItself DEF n
    <3>7. /\ Part(d, n + 1, k) = c[m + 1].payload
          /\ Message(c[m + 1].command, c[m + 1].payload) = c[m + 1]
      BY <2>2, <2>5, <3>2, <3>3, BodyRead
    <3>8. command = c[m + 1].command /\ command # "unknown"
      <4>1. command = c[m + 1].command
        BY <1>12, <3>1, <3>6
      <4>2. "unknown" \notin DOMAIN name
        BY DEF name
      <4>. QED BY <2>5, <4>1, <4>2 DEF Sendable
    <3>9. x = c[m + 1]
      BY <1>12, <3>1, <3>2, <3>7, <3>8
    <3>10. handled' = Append(handled, c[m + 1])
      BY <1>12, <3>1, <3>8, <3>9
    <3>11. /\ Len(handled') = m + 1
           /\ \A i \in 1 .. m + 1 : handled'[i] = c[i]
      <4>1. c[m + 1] \in Messages
        BY <2>5 DEF Sendable, Messages
      <4>2. /\ Len(Append(handled, c[m + 1])) = Len(handled) + 1
            /\ \A i \in 1 .. Len(handled) : Append(handled, c[m + 1])[i] = handled[i]
            /\ Append(handled, c[m + 1])[Len(handled) + 1] = c[m + 1]
        BY <1>11, <4>1, AppendProperties
      <4>3. Len(handled') = m + 1 /\ handled'[m + 1] = c[m + 1]
        BY <2>2, <3>10, <4>2
      <4>4. \A i \in 1 .. m : handled'[i] = c[i]
        BY <2>2, <3>10, <4>2
      <4>5. \A i \in 1 .. m + 1 : i \in 1 .. m \/ i = m + 1
        OBVIOUS
      <4>. QED BY <4>3, <4>4, <4>5
    <3>12. pc' = IF command = "LOG_ON" THEN "header" ELSE "done"
      BY <1>12, <3>1, <3>8 DEF Next_pc
    <3>13. command = "LOG_ON" => m + 1 < Len(c)
      <4>. SUFFICES ASSUME command = "LOG_ON" PROVE m + 1 < Len(c)
        OBVIOUS
      <4>1. Len(c) # m + 1
        <5>1. Len(c) = 1 => c[Len(c)].command # "LOG_ON"
          BY <1>9 DEF Conversation
        <5>2. Len(c) = 2 => c[Len(c)].command # "LOG_ON"
          BY <1>9 DEF Conversation
        <5>3. c[Len(c)].command # "LOG_ON"
          BY <2>3, <5>1, <5>2
        <5>. QED BY <3>8, <5>3
      <4>. QED BY <2>2, <2>3, <2>4, <4>1
    <3>14. position' = Offset(c, 2 * (m + 1))
      <4>1. 2 * (m + 1) = 2 * m + 2
        OBVIOUS
      <4>. QED BY <1>2, <2>2, <3>2, <3>3, <4>1
    <3>. QED BY <1>3, <1>9, <2>4, <3>11, <3>12, <3>13, <3>14 DEF Between
  <2>. QED BY <2>6, <2>7
<1>19. ASSUME handled' = <<>> PROVE ~listed' /\ pc' = "done" /\ handled = <<>>
  <2>1. handled = <<>> /\ handled' = handled
    <3>1. k > 0 /\ command # "unknown" => Append(handled, x) # <<>>
      <4>. SUFFICES ASSUME k > 0, command # "unknown" PROVE Append(handled, x) # <<>>
        OBVIOUS
      <4>1. Len(Append(handled, x)) = Len(handled) + 1
        BY <1>11, <1>13, AppendProperties
      <4>2. Len(Append(handled, x)) # 0
        BY <1>11, <4>1
      <4>3. Len(<<>>) = 0
        BY EmptySeq
      <4>. QED BY <4>2, <4>3
    <3>. QED BY <1>14, <1>19, <3>1
  <2>2. ~listed
    BY <1>1, <2>1 DEF Fresh
  <2>3. CASE k = 0
    BY <1>12, <2>1, <2>2, <2>3
  <2>4. CASE k # 0
    <3>1. k > 0
      BY <1>7, <2>4
    <3>2. command = "unknown"
      <4>1. command # "unknown" => Len(Append(handled, x)) = Len(handled) + 1
        BY <1>11, <1>13, <3>1, AppendProperties
      <4>. QED BY <1>11, <1>12, <2>1, <3>1, <4>1
    <3>3. listed' = (listed \/ command = "LOG_ON") /\ pc' = Next_pc(command)
      BY <1>12, <3>1
    <3>4. ~listed'
      BY <2>2, <3>2, <3>3
    <3>5. Next_pc(command) = "done"
      BY <2>2, <3>2 DEF Next_pc
    <3>. QED BY <2>1, <3>3, <3>4, <3>5
  <2>. QED BY <2>3, <2>4
<1>20. Fresh'
  BY <1>19 DEF Fresh
<1>21. FirstCommandIsTheOneSent'
  <2>. SUFFICES ASSUME Names' = Commands, handled' # <<>>, "name" \notin cut'
                PROVE  handled'[1].command = Asked'
    BY DEF FirstCommandIsTheOneSent
  <2>1. Names = Commands /\ "name" \notin cut /\ Asked \in Requests
    BY <1>4, <1>15, NamesAre
  <2>2. CASE handled # <<>>
    <3>1. handled[1].command = Asked /\ 1 \in 1 .. Len(handled)
      <4>1. Len(handled) # 0
        BY <1>11, <2>2, EmptySeq
      <4>. QED BY <1>1, <1>11, <2>1, <2>2, <4>1 DEF FirstCommandIsTheOneSent
    <3>2. handled'[1] = handled[1]
      BY <1>11, <1>13, <1>14, <3>1, AppendProperties
    <3>. QED BY <1>4, <3>1, <3>2
  <2>3. CASE handled = <<>>
    <3>1. k > 0 /\ command # "unknown" /\ handled' = Append(handled, x)
      BY <1>14, <2>3
    <3>2. handled'[1].command = command
      <4>1. Len(handled) = 0
        BY <2>3
      <4>2. Append(handled, x)[Len(handled) + 1] = x
        BY <1>11, <1>13, <3>1, AppendProperties
      <4>. QED BY <1>13, <3>1, <4>1, <4>2
    <3>3. command \in Taken(d) /\ ~(k < n)
      BY <1>12, <3>1
    <3>4. n # 0
      <4>. SUFFICES ASSUME n = 0 PROVE FALSE
        OBVIOUS
      <4>1. Taken(d) = {Other}
        BY TakenForNone DEF n
      <4>. QED BY <2>1, <3>1, <3>3, <4>1, NamesAre
    <3>5. position = 4 /\ n = Len(name[Asked])
      BY <1>1, <1>3, <2>3, <3>4 DEF Fresh, n
    <3>6. PICK m \in Nat : m = 0 /\ 2 * m + 1 = 1 /\ m + 1 = 1
      OBVIOUS
    <3>7. m < Len(c) /\ position = Offset(c, 2 * m + 1)
      <4>1. Len(c) \in {1, 2}
        BY <1>9 DEF Conversation
      <4>2. 0 < Len(c)
        <5>1. \A l \in {1, 2} : 0 < l
          OBVIOUS
        <5>. QED BY <4>1, <5>1, Zenon
      <4>3. Offset(c, 1) = 4
        BY DEF Offset
      <4>. QED BY <3>5, <3>6, <4>2, <4>3, Zenon
    <3>8. Reads(d, k, Body(c[m + 1])) /\ Sendable(c[m + 1])
      BY <1>17, <3>1, <3>7
    <3>9. c[m + 1].command = Asked
      BY <1>9, <3>6 DEF Asked
    <3>10. Len(name[c[m + 1].command]) <= k
      BY <1>6, <1>7, <3>3, <3>5, <3>9
    <3>11. Begins(d, Asked)
      BY <1>7, <3>8, <3>9, <3>10, NameRead
    <3>12. Taken(d) = {Asked}
      BY <2>1, <3>5, <3>11, TakenIs DEF n
    <3>. QED BY <1>4, <3>2, <3>3, <3>12
  <2>. QED BY <2>2, <2>3
<1>. QED BY <1>10, <1>16, <1>18, <1>20, <1>21 DEF IInv
-----------------------------------------------------------------------------
(* The theorems. *)

LEMMA NextKeeps == IInv /\ [Next]_vars => IInv'
BY WriteKeeps, CloseKeeps, ReadHeaderKeeps, ReadBodyKeeps DEF Next, Receive

LEMMA InvAlways == Spec => []IInv
<1>. QED BY InvInit, NextKeeps, PTL DEF Spec

(***************************************************************************)
(* TypeOK, whatever part of a message a read returns: a receiver reads     *)
(* nothing that was not written, and handles messages only.                *)
(***************************************************************************)
THEOREM TypeCorrect == Spec => []TypeOK
<1>1. IInv => TypeOK
  BY DEF IInv
<1>. QED BY <1>1, InvAlways, PTL

(***************************************************************************)
(* WholeReadsAreExact: as long as no read is short, the receiver handles   *)
(* the messages that were sent, in their order, and nothing else.          *)
(***************************************************************************)
THEOREM WholeReadsAlwaysExact == Spec => []WholeReadsAreExact
<1>1. IInv => WholeReadsAreExact
  <2>. SUFFICES ASSUME IInv, cut = {} PROVE IsPrefix(handled, conversation)
    BY DEF WholeReadsAreExact
  <2>1. Between /\ handled \in Seq(Messages) /\ conversation \in Seq(Messages)
    BY DEF IInv, InStep, TypeOK
  <2>2. PICK m \in Nat : /\ m = Len(handled) /\ m <= Len(conversation)
                         /\ \A i \in 1 .. m : handled[i] = conversation[i]
    BY <2>1, LenProperties DEF Between
  <2>3. SubSeq(handled, 1, m) = SubSeq(conversation, 1, m)
    <3>1. \A i \in 1 .. m : handled[i] \in Messages
      BY <2>1, <2>2, LenProperties
    <3>2. \A i \in 1 .. m : conversation[i] \in Messages
      BY <2>2, <3>1
    <3>3. /\ SubSeq(handled, 1, m) \in Seq(Messages)
          /\ Len(SubSeq(handled, 1, m)) = IF 1 <= m THEN m - 1 + 1 ELSE 0
          /\ \A i \in 1 .. m - 1 + 1 : SubSeq(handled, 1, m)[i] = handled[1 + i - 1]
      BY <3>1, SubSeqProperties
    <3>4. /\ SubSeq(conversation, 1, m) \in Seq(Messages)
          /\ Len(SubSeq(conversation, 1, m)) = IF 1 <= m THEN m - 1 + 1 ELSE 0
          /\ \A i \in 1 .. m - 1 + 1 : SubSeq(conversation, 1, m)[i] = conversation[1 + i - 1]
      BY <3>2, SubSeqProperties
    <3>5. \A i \in 1 .. m : SubSeq(handled, 1, m)[i] = SubSeq(conversation, 1, m)[i]
      BY <2>2, <3>3, <3>4
    <3>. QED BY <3>3, <3>4, <3>5, SeqEqual
  <2>. QED BY <2>2, <2>3 DEF IsPrefix
<1>. QED BY <1>1, InvAlways, PTL

(***************************************************************************)
(* FirstCommandIsTheOneSent: whatever is cut, but the name, handle_request *)
(* calls no handler but that of the request that was sent.                 *)
(***************************************************************************)
THEOREM FirstCommandAlwaysTheOneSent == Spec => []FirstCommandIsTheOneSent
<1>1. IInv => FirstCommandIsTheOneSent
  BY DEF IInv
<1>. QED BY <1>1, InvAlways, PTL

(***************************************************************************)
(* AnnouncedIsReachable: a tuple goes through htons, inet_addr, inet_ntop  *)
(* and back without losing anything but the bits of a port beyond 16 and   *)
(* an address that is longer than inet_ntop's buffer.                      *)
(***************************************************************************)
THEOREM AnnouncedAlwaysReachable == Spec => []AnnouncedIsReachable
<1>1. IInv => AnnouncedIsReachable
  <2>. SUFFICES ASSUME IInv, cut = {}, NEW i \in 1 .. Len(handled),
                       handled[i].command \in TupleCommands
                PROVE  Reaches(handled[i].payload, option, address)
    BY DEF AnnouncedIsReachable, Reaches, TupleCommands
  <2>1. Between /\ Conversation(conversation, option, address) /\ handled \in Seq(Messages)
    BY DEF IInv, InStep, StreamOK, TypeOK
  <2>2. handled[i] = conversation[i] /\ i \in 1 .. Len(conversation)
    <3>1. Len(handled) \in Nat /\ Len(conversation) \in Nat /\ Len(handled) <= Len(conversation)
      BY <2>1, LenProperties DEF Between, Conversation
    <3>. QED BY <2>1, <3>1 DEF Between
  <2>3. Announces(conversation[i], option, address)
    BY <2>1, <2>2 DEF Conversation
  <2>. QED BY <2>2, <2>3 DEF Announces
<1>. QED BY <1>1, InvAlways, PTL
=============================================================================
