---------------------------- MODULE PeersProofs ----------------------------
(***************************************************************************)
(* What TLAPS proves of Peers, for any clients, outsiders, buffers, accept *)
(* queues and bounds.                                                      *)
(***************************************************************************)
EXTENDS Peers, DataLemmas

LoggingOut == LogOutPCs \cup {"asleep", "exit"}

Shape ==
    /\ main \in [Clients -> MainPCs]
    /\ worker \in [Clients -> WorkerPCs]
    /\ DOMAIN buffer = Clients
    /\ quiet \in [Clients -> BOOLEAN]
    /\ touched \in [Clients -> BOOLEAN]

(***************************************************************************)
(* A worker that had nothing to do when log_out began has nothing to do    *)
(* until it is gone: only main could give it something, and main does not  *)
(* come back from log_out.                                                 *)
(***************************************************************************)
StaysIdle(c) ==
    /\ quiet[c] => worker[c] \in {"pop", "gone"} /\ buffer[c] = <<>> /\ ~touched[c]
    /\ quiet[c] \/ touched[c] => main[c] \in LoggingOut

Idle == Shape /\ \A c \in Clients : StaysIdle(c)

LEMMA InitIdle == Init => Idle
<1> SUFFICES ASSUME Init PROVE Idle
  OBVIOUS
<1>1. /\ main = [c \in Clients |-> "select"]
      /\ worker = [c \in Clients |-> "pop"]
      /\ DOMAIN buffer = Clients
      /\ quiet = [c \in Clients |-> FALSE]
      /\ touched = [c \in Clients |-> FALSE]
  BY DEF Init
<1>. QED BY <1>1 DEF Idle, Shape, StaysIdle, MainPCs, WorkerPCs

-----------------------------------------------------------------------------
(* Three forms that steps have. *)

\* A client's process ends.
LEMMA ExitStep ==
    ASSUME Idle, NEW c \in Clients, Exit(c), UNCHANGED quiet,
           \/ UNCHANGED touched
           \/ ~quiet[c] /\ touched' = [touched EXCEPT ![c] = TRUE]
    PROVE  Idle'
<1>1. /\ main' = [main EXCEPT ![c] = "exit"]
      /\ worker' = [worker EXCEPT ![c] = "gone"]
      /\ buffer' = [buffer EXCEPT ![c] = <<>>]
  BY DEF Exit
<1>2. Shape'
  BY <1>1 DEF Idle, Shape, MainPCs, WorkerPCs
<1>3. StaysIdle(c)'
  BY <1>1 DEF Idle, Shape, StaysIdle, LoggingOut
<1>4. ASSUME NEW d \in Clients, d # c PROVE StaysIdle(d)'
  BY <1>1, <1>4 DEF Idle, Shape, StaysIdle
<1>. QED BY <1>2, <1>3, <1>4 DEF Idle

\* Main goes from one pc to another, and comes to log_out or was not there.
LEMMA MainStep ==
    ASSUME Idle, NEW c \in Clients, NEW pc \in MainPCs, main' = [main EXCEPT ![c] = pc],
           main[c] \in LoggingOut => pc \in LoggingOut,
           UNCHANGED <<worker, buffer, quiet, touched>>
    PROVE  Idle'
BY DEF Idle, Shape, StaysIdle

\* The worker does, while it is not waiting for a record.
LEMMA WorkerStep ==
    ASSUME Idle, NEW c \in Clients, NEW pc \in WorkerPCs, worker' = [worker EXCEPT ![c] = pc],
           worker[c] \notin {"pop", "gone"} \/ pc = "gone",
           UNCHANGED <<main, buffer, quiet, touched>>
    PROVE  Idle'
BY DEF Idle, Shape, StaysIdle, WorkerPCs
-----------------------------------------------------------------------------
LEMMA MainPreserves ==
    ASSUME Idle, NEW c \in Clients, Main(c)
    PROVE  Idle'
<1>. USE DEF mainVars, workerVars, logOutVars, serverVars
<1>1. CASE Accept(c)
  BY <1>1, MainStep DEF Accept, MainPCs, LogOutPCs, LoggingOut
<1>2. CASE Silence(c)
  BY <1>2, MainStep DEF Silence, Serves, Served, MainPCs, LogOutPCs, LoggingOut
<1>3. CASE UserOn(c)
  <2>1. CASE Exit(c) /\ UNCHANGED touched
    BY <1>3, <2>1, ExitStep DEF UserOn
  <2>2. CASE ~(Exit(c) /\ UNCHANGED touched)
    BY <1>3, <2>2, MainStep DEF UserOn, Serves, Served, MainPCs, LogOutPCs, LoggingOut
  <2>. QED BY <2>1, <2>2
<1>4. CASE MainPush(c)
  BY <1>4 DEF MainPush, Served, Idle, Shape, StaysIdle, MainPCs, LogOutPCs, LoggingOut
<1>5. CASE UserOff(c)
  <2>1. CASE Exit(c) /\ UNCHANGED touched
    BY <1>5, <2>1, ExitStep DEF UserOff
  <2>2. CASE ~(Exit(c) /\ UNCHANGED touched)
    BY <1>5, <2>2, MainStep DEF UserOff, Serves, Served, MainPCs, LogOutPCs, LoggingOut
  <2>. QED BY <2>1, <2>2
<1>6. ASSUME NEW a, main[c] = "serve", Reply(c, a) PROVE Idle'
  <2>1. CASE Exit(c)
    BY <1>6, <2>1, ExitStep DEF Reply
  <2>2. CASE ~Exit(c)
    BY <1>6, <2>2, MainStep DEF Reply, Served, MainPCs, LogOutPCs, LoggingOut
  <2>. QED BY <2>1, <2>2
<1>7. CASE AnswerFileList(c)
  BY <1>6, <1>7, ExitStep DEF AnswerFileList, Serves
<1>8. CASE AnswerFile(c)
  BY <1>6, <1>8 DEF AnswerFile, Serves
<1>. QED BY <1>1, <1>2, <1>3, <1>4, <1>5, <1>7, <1>8 DEF Main

LEMMA WorkerPreserves ==
    ASSUME Idle, NEW c \in Clients, Worker(c)
    PROVE  Idle'
<1>. USE DEF mainVars, workerVars, logOutVars, serverVars
<1>1. CASE Pop(c)
  BY <1>1 DEF Pop, Idle, Shape, StaysIdle, WorkerPCs
<1>2. CASE Lookup(c)
  BY <1>2, WorkerStep DEF Lookup, Goes, WorkerPCs
<1>3. CASE Connect(c)
  BY <1>3, WorkerStep DEF Connect, Request, Refused, OutsiderAnswers, Goes, WorkerPCs
<1>4. CASE Receive(c)
  BY <1>4, WorkerStep DEF Receive, Goes, WorkerPCs
<1>5. CASE ReceiveNull(c)
  BY <1>5, ExitStep DEF ReceiveNull
<1>6. CASE WorkerPush(c)
  BY <1>6 DEF WorkerPush, Goes, Idle, Shape, StaysIdle, WorkerPCs
<1>7. CASE IsCancelled(c)
  BY <1>7, WorkerStep DEF IsCancelled, Goes, WorkerPCs
<1>8. CASE TouchFreed(c)
  <2>1. main[c] \in LoggingOut /\ ~quiet[c]
    BY <1>8 DEF TouchFreed, Touches, Reports, Answered, BufferFreed, ListFreed, Past, LoggingOut, LogOutPCs,
                Idle, Shape, StaysIdle
  <2>2. CASE Exit(c)
    BY <1>8, <2>1, <2>2, ExitStep DEF TouchFreed
  <2>3. CASE Goes(c, "gone") /\ UNCHANGED <<main, buffer>>
    BY <1>8, <2>1, <2>3 DEF TouchFreed, Goes, Idle, Shape, StaysIdle, WorkerPCs
  <2>. QED BY <1>8, <2>2, <2>3 DEF TouchFreed
<1>. QED BY <1>1, <1>2, <1>3, <1>4, <1>5, <1>6, <1>7, <1>8 DEF Worker

LEMMA LogOutPreserves ==
    ASSUME Idle, NEW c \in Clients, LogOut(c)
    PROVE  Idle'
<1>. USE DEF mainVars, workerVars, logOutVars, serverVars
<1>1. ASSUME NEW from \in MainPCs, NEW to \in LoggingOut, LogOutStep(c, from, to)
      PROVE  Idle'
  BY <1>1, MainStep DEF LogOutStep, LoggingOut, MainPCs
<1>2. CASE LogOff(c)
  BY <1>1, <1>2 DEF LogOff, LoggingOut, LogOutPCs, MainPCs
<1>3. CASE FallAsleep(c)
  BY <1>1, <1>3 DEF FallAsleep, LoggingOut, LogOutPCs, MainPCs
<1>4. CASE ListDestroy(c)
  BY <1>1, <1>4 DEF ListDestroy, LoggingOut, LogOutPCs, MainPCs
<1>5. CASE BufferDestroy(c)
  BY <1>1, <1>5 DEF BufferDestroy, LoggingOut, LogOutPCs, MainPCs
<1>6. CASE CondDestroy(c)
  BY <1>1, <1>6, ExitStep DEF CondDestroy, LoggingOut, LogOutPCs, MainPCs
<1>. QED BY <1>2, <1>3, <1>4, <1>5, <1>6 DEF LogOut

LEMMA NextPreserves == Idle /\ [Next]_vars => Idle'
<1> SUFFICES ASSUME Idle, [Next]_vars PROVE Idle'
  OBVIOUS
<1>. USE DEF mainVars, workerVars, logOutVars, serverVars
<1>1. ASSUME UNCHANGED <<main, worker, buffer, quiet, touched>> PROVE Idle'
  BY <1>1 DEF Idle, Shape, StaysIdle
<1>2. ASSUME NEW o \in Outsiders, Arrive(o) \/ Depart(o) PROVE Idle'
  BY <1>1, <1>2 DEF Arrive, Depart
<1>3. ASSUME NEW c \in Clients, Interrupt(c) PROVE Idle'
  <2>1. /\ main' = [main EXCEPT ![c] = "log_off"]
        /\ quiet' = [quiet EXCEPT ![c] = worker[c] = "pop" /\ buffer[c] = <<>>]
        /\ UNCHANGED <<worker, buffer, touched>>
    BY <1>3 DEF Interrupt
  <2>2. ~touched[c]
    BY <1>3 DEF Interrupt, Idle, Shape, StaysIdle, LoggingOut, LogOutPCs
  <2>3. Shape'
    BY <2>1 DEF Idle, Shape, MainPCs, LogOutPCs
  <2>4. ASSUME NEW d \in Clients PROVE StaysIdle(d)'
    <3>1. CASE d = c
      BY <2>1, <2>2, <3>1 DEF Idle, Shape, StaysIdle, LoggingOut, LogOutPCs
    <3>2. CASE d # c
      BY <2>1, <3>2 DEF Idle, Shape, StaysIdle
    <3>. QED BY <3>1, <3>2
  <2>. QED BY <2>3, <2>4 DEF Idle
<1>4. CASE Server
  BY <1>1, <1>4 DEF Server, ServeLogOff, NotifyNext, NotifySend
<1>5. CASE UNCHANGED vars
  BY <1>1, <1>5 DEF vars
<1>. QED BY <1>2, <1>3, <1>4, <1>5, MainPreserves, WorkerPreserves, LogOutPreserves
         DEF Next, Runnable

(***************************************************************************)
(* log_out frees the list and the buffer without joining the workers: a    *)
(* worker that waited for a record does not touch them afterwards, because *)
(* main, the only other thread, cannot give it one any more.               *)
(***************************************************************************)
THEOREM IdleLogOutIsCleanAlways == Spec => []IdleLogOutIsClean
<1>1. Idle => IdleLogOutIsClean
  BY DEF Idle, StaysIdle, IdleLogOutIsClean
<1>. QED BY InitIdle, NextPreserves, <1>1, PTL DEF Spec
-----------------------------------------------------------------------------
(* The type invariant. *)

Buffers == {s \in Seq(Records) : Len(s) <= Capacity}
Inboxes == {s \in Seq(Requests) : Len(s) <= Backlog}

(***************************************************************************)
(* Main serves requests and pushes for notices; a worker that is on its    *)
(* way has a record, and one that pushes has something left to push; what  *)
(* the server sends is a notice, and the connection it has made for one    *)
(* has its place in the accept queue.                                      *)
(***************************************************************************)
Holds(c) ==
    /\ main[c] = "serve" => request[c] \in Requests
    /\ main[c] = "push" => request[c] \in Notices
    /\ worker[c] \in {"lookup", "connect", "read", "push"} => record[c] \in Records
    /\ worker[c] = "push" => files[c] # 0

MainTypes ==
    /\ main \in [Clients -> MainPCs]
    /\ request \in [Clients -> Requests \cup {Nothing}]
    /\ inbox \in [Clients -> Inboxes]
    /\ others \in [Clients -> [Peer -> Nat]]

WorkerTypes ==
    /\ worker \in [Clients -> WorkerPCs]
    /\ record \in [Clients -> Records \cup {Nothing}]
    /\ files \in [Clients -> Nat]
    /\ answer \in [Clients -> Answers \cup {Nothing}]
    /\ buffer \in [Clients -> Buffers]

FlagTypes ==
    /\ lost \in [Clients -> BOOLEAN]
    /\ leaked \in [Clients -> BOOLEAN]
    /\ interrupted \in [Clients -> MainPCs \cup {Nothing}]
    /\ quiet \in [Clients -> BOOLEAN]
    /\ touched \in [Clients -> BOOLEAN]

ServerTypes ==
    /\ server \in [up : BOOLEAN, notice : Notices \cup {Nothing}, to : SUBSET Clients,
                   with : Clients \cup {Nothing}]
    /\ server.to # {} \/ server.with # Nothing => server.notice \in Notices
    /\ \A c \in Clients : server.with = c => Len(inbox[c]) < Backlog
    /\ log_offs \subseteq Clients
    /\ online \subseteq Peer
    /\ events \in [notices : Nat, log_outs : Nat]

Types == MainTypes /\ WorkerTypes /\ FlagTypes /\ ServerTypes /\ \A c \in Clients : Holds(c)

\* What is appended, taken and left in a queue.
LEMMA QueueTypes ==
    /\ <<>> \in Buffers /\ <<>> \in Inboxes
    /\ \A s \in Buffers : s # <<>> => Head(s) \in Records /\ Tail(s) \in Buffers
    /\ \A s \in Inboxes : s # <<>> => Head(s) \in Requests /\ Tail(s) \in Inboxes
    /\ \A s \in Buffers, r \in Records : ~(Len(s) >= Capacity) => Append(s, r) \in Buffers
    /\ \A s \in Inboxes, r \in Requests : Len(s) < Backlog => Append(s, r) \in Inboxes
<1>1. Capacity \in Nat /\ Backlog \in Nat
  BY PeersAssumption
<1>2. ASSUME NEW S, NEW n \in Nat
      PROVE  /\ <<>> \in Seq(S) /\ Len(<<>>) <= n
             /\ \A s \in Seq(S) : Len(s) <= n /\ s # <<>> =>
                    Head(s) \in S /\ Tail(s) \in Seq(S) /\ Len(Tail(s)) <= n
             /\ \A s \in Seq(S), r \in S : ~(Len(s) >= n) =>
                    Append(s, r) \in Seq(S) /\ Len(Append(s, r)) <= n
  <2>1. <<>> \in Seq(S) /\ Len(<<>>) <= n
    BY EmptySeq
  <2>2. ASSUME NEW s \in Seq(S), Len(s) <= n, s # <<>>
        PROVE  Head(s) \in S /\ Tail(s) \in Seq(S) /\ Len(Tail(s)) <= n
    <3>1. /\ Head(s) \in S /\ Tail(s) \in Seq(S) /\ Len(Tail(s)) = Len(s) - 1
          /\ Len(s) \in Nat
      BY <2>2, HeadTailProperties, LenProperties
    <3>. QED BY <2>2, <3>1
  <2>3. ASSUME NEW s \in Seq(S), NEW r \in S, ~(Len(s) >= n)
        PROVE  Append(s, r) \in Seq(S) /\ Len(Append(s, r)) <= n
    <3>1. Append(s, r) \in Seq(S) /\ Len(Append(s, r)) = Len(s) + 1 /\ Len(s) \in Nat
      BY AppendProperties, LenProperties
    <3>. QED BY <2>3, <3>1
  <2>. QED BY <2>1, <2>2, <2>3
<1>3. \A s \in Inboxes : Len(s) \in Nat
  BY LenProperties DEF Inboxes
<1>4. <<>> \in Buffers /\ <<>> \in Inboxes
  BY <1>1, <1>2 DEF Buffers, Inboxes
<1>5. \A s \in Buffers : s # <<>> => Head(s) \in Records /\ Tail(s) \in Buffers
  BY <1>1, <1>2 DEF Buffers
<1>6. \A s \in Inboxes : s # <<>> => Head(s) \in Requests /\ Tail(s) \in Inboxes
  BY <1>1, <1>2 DEF Inboxes
<1>7. \A s \in Buffers, r \in Records : ~(Len(s) >= Capacity) => Append(s, r) \in Buffers
  BY <1>1, <1>2 DEF Buffers
<1>8. \A s \in Inboxes, r \in Requests : Len(s) < Backlog => Append(s, r) \in Inboxes
  BY <1>1, <1>2, <1>3 DEF Inboxes
<1>. QED BY <1>4, <1>5, <1>6, <1>7, <1>8

\* A set as a sequence.
LEMMA SetToSeqType ==
    ASSUME NEW S, IsFiniteSet(S)
    PROVE  SetToSeq(S) \in Seq(S) /\ Len(SetToSeq(S)) = Cardinality(S)
<1>1. Cardinality(S) \in Nat /\ ExistsBijection(1 .. Cardinality(S), S)
  BY FS_CardinalityType
<1>2. \E f \in [1 .. Cardinality(S) -> S] : IsInjective(f)
  BY <1>1 DEF ExistsBijection, Bijection, Injection, IsInjective
<1>3. SetToSeq(S) \in [1 .. Cardinality(S) -> S]
  BY <1>2 DEF SetToSeq
<1>. QED BY <1>1, <1>3, FunctionIsSeq

LEMMA InitTypes == Init => Types
<1>. SUFFICES ASSUME Init PROVE Types
  OBVIOUS
<1>1. /\ Order \in Seq(Clients) /\ Len(Order) \in Nat /\ DOMAIN Order = 1 .. Len(Order)
      /\ Capacity \in Nat /\ Backlog \in Nat /\ Len(Order) <= Capacity + 1
      /\ IsInjective(Order) /\ IsFiniteSet(Outsiders)
  BY PeersAssumption, LenProperties
<1>2. IsFiniteSet(Clients) /\ Cardinality(Clients) <= Len(Order)
  <2>1. \A x \in Clients : \E i \in 1 .. Len(Order) : Order[i] = x
    BY <1>1 DEF Clients, ToSet
  <2>2. Order \in Surjection(1 .. Len(Order), Clients)
    BY <1>1, <2>1, LenProperties DEF Surjection
  <2>3. IsFiniteSet(1 .. Len(Order)) /\ Cardinality(1 .. Len(Order)) = Len(Order)
    <3>1. 1 \in Int /\ Len(Order) \in Int
      BY <1>1
    <3>2. IsFiniteSet(1 .. Len(Order)) /\ Cardinality(1 .. Len(Order)) =
              IF 1 > Len(Order) THEN 0 ELSE Len(Order) - 1 + 1
      BY <3>1, FS_Interval
    <3>. QED BY <1>1, <3>2
  <2>. QED BY <2>2, <2>3, FS_Surjection
<1>3. ASSUME NEW S, NEW T, IsFiniteSet(S), NEW f, f = [x \in S |-> f[x]],
             \A x \in S : f[x] \in T, \A y \in T : \E x \in S : y = f[x],
             \A x, y \in S : f[x] = f[y] => x = y
      PROVE  IsFiniteSet(T) /\ Cardinality(T) = Cardinality(S)
  <2>1. f \in Bijection(S, T)
    BY <1>3 DEF Bijection, Injection, Surjection, IsInjective
  <2>. QED BY <1>3, <2>1, FS_Bijection DEF ExistsBijection
<1>4. ASSUME NEW c \in Clients
      PROVE  SetToSeq([client : Before(c), file : {FALSE}]) \in Buffers
  <2>. DEFINE S == Before(c)
              T == [client : S, file : {FALSE}]
              f == [x \in S |-> [client |-> x, file |-> FALSE]]
  <2>1. S \in SUBSET (Clients \ {c})
    <3>1. c \notin S
      BY <1>1 DEF Before, IsInjective
    <3>. QED BY <3>1 DEF Before
  <2>2. IsFiniteSet(Clients \ {c}) /\ Cardinality(Clients \ {c}) = Cardinality(Clients) - 1
    BY <1>2, FS_RemoveElement
  <2>3. IsFiniteSet(S) /\ Cardinality(S) <= Cardinality(Clients \ {c})
    BY <2>1, <2>2, FS_Subset
  <2>4. Cardinality(S) \in Nat /\ Cardinality(Clients) \in Nat
    BY <1>2, <2>3, FS_CardinalityType
  <2>5. Cardinality(S) <= Capacity
    BY <1>1, <1>2, <2>2, <2>3, <2>4
  <2>6. T \subseteq Records
    BY <2>1 DEF Records, Peer
  <2>. HIDE DEF S
  <2>7. IsFiniteSet(T) /\ Cardinality(T) = Cardinality(S)
    <3>1. /\ f = [x \in S |-> f[x]]
          /\ \A x \in S : f[x] \in T
          /\ \A y \in T : \E x \in S : y = f[x]
          /\ \A x, y \in S : f[x] = f[y] => x = y
      <4>1. ASSUME NEW y \in T PROVE \E x \in S : y = f[x]
        <5>1. y.client \in S /\ y = [client |-> y.client, file |-> FALSE]
          OBVIOUS
        <5>. QED BY <5>1
      <4>. QED BY <4>1
    <3>. HIDE DEF f, T
    <3>. QED BY <1>3, <2>3, <3>1
  <2>8. SetToSeq(T) \in Seq(T) /\ Len(SetToSeq(T)) <= Capacity
    <3>. HIDE DEF T
    <3>. QED BY <2>5, <2>7, SetToSeqType
  <2>9. SetToSeq(T) \in Seq(Records)
    <3>. HIDE DEF T
    <3>1. Seq(T) \subseteq Seq(Records)
      BY <2>6
    <3>. QED BY <2>8, <3>1
  <2>. QED BY <2>8, <2>9 DEF Buffers, S
<1>5. PICK told \in [Clients -> SUBSET Peer] :
          /\ \A c \in Clients : told[c] \subseteq Later(c) /\ Cardinality(told[c]) <= Backlog
          /\ inbox = [c \in Clients |-> SetToSeq([kind : {"USER_ON"}, about : told[c]])]
  BY DEF Init
<1>6. ASSUME NEW c \in Clients
      PROVE  SetToSeq([kind : {"USER_ON"}, about : told[c]]) \in Inboxes
  <2>. DEFINE S == told[c]
              T == [kind : {"USER_ON"}, about : S]
              f == [x \in S |-> [kind |-> "USER_ON", about |-> x]]
  <2>1. S \in SUBSET Peer /\ Cardinality(S) <= Backlog
    BY <1>5
  <2>2. IsFiniteSet(Peer)
    BY <1>1, <1>2, FS_Union DEF Peer
  <2>3. IsFiniteSet(S)
    BY <2>1, <2>2, FS_Subset
  <2>4. T \subseteq Requests
    BY <2>1 DEF Requests, Notices
  <2>. HIDE DEF S
  <2>5. IsFiniteSet(T) /\ Cardinality(T) = Cardinality(S)
    <3>1. /\ f = [x \in S |-> f[x]]
          /\ \A x \in S : f[x] \in T
          /\ \A y \in T : \E x \in S : y = f[x]
          /\ \A x, y \in S : f[x] = f[y] => x = y
      OBVIOUS
    <3>. HIDE DEF f, T
    <3>. QED BY <1>3, <2>3, <3>1
  <2>6. SetToSeq(T) \in Seq(T) /\ Len(SetToSeq(T)) <= Backlog
    <3>. HIDE DEF T
    <3>. QED BY <2>1, <2>5, SetToSeqType
  <2>7. SetToSeq(T) \in Seq(Requests)
    <3>. HIDE DEF T
    <3>1. Seq(T) \subseteq Seq(Requests)
      BY <2>4
    <3>. QED BY <2>6, <3>1
  <2>. QED BY <2>6, <2>7 DEF Inboxes, S
<1>7. MainTypes
  <2>1. inbox \in [Clients -> Inboxes]
    BY <1>5, <1>6
  <2>2. others \in [Clients -> [Peer -> Nat]]
    BY DEF Init
  <2>. QED BY <2>1, <2>2 DEF Init, MainTypes, MainPCs
<1>8. WorkerTypes
  <2>1. buffer \in [Clients -> Buffers]
    BY <1>4 DEF Init
  <2>. QED BY <2>1 DEF Init, WorkerTypes, WorkerPCs
<1>9. FlagTypes /\ ServerTypes
  <2>1. Nothing \notin Clients
    BY PeersAssumption
  <2>. QED BY <2>1 DEF Init, FlagTypes, ServerTypes, ServerIdle
<1>10. \A c \in Clients : Holds(c)
  BY DEF Init, Holds
<1>. QED BY <1>7, <1>8, <1>9, <1>10 DEF Types
-----------------------------------------------------------------------------
\* A client's process ends.
LEMMA ExitTypes ==
    ASSUME Types, NEW c \in Clients, Exit(c), UNCHANGED others, UNCHANGED serverVars,
           FlagTypes'
    PROVE  Types'
<1>1. /\ main' = [main EXCEPT ![c] = "exit"]
      /\ request' = [request EXCEPT ![c] = Nothing]
      /\ inbox' = [inbox EXCEPT ![c] = <<>>]
      /\ worker' = [worker EXCEPT ![c] = "gone"]
      /\ record' = [record EXCEPT ![c] = Nothing]
      /\ files' = [files EXCEPT ![c] = 0]
      /\ answer' = [answer EXCEPT ![c] = Nothing]
      /\ buffer' = [buffer EXCEPT ![c] = <<>>]
  BY DEF Exit
<1>2. MainTypes'
  BY <1>1, QueueTypes DEF Types, MainTypes, MainPCs
<1>3. WorkerTypes'
  BY <1>1, QueueTypes DEF Types, WorkerTypes, WorkerPCs
<1>4. ServerTypes'
  <2>1. Backlog \in Nat \ {0} /\ Len(<<>>) = 0
    BY PeersAssumption, EmptySeq
  <2>2. \A d \in Clients : server.with = d => Len(inbox'[d]) < Backlog
    BY <1>1, <2>1 DEF Types, MainTypes, ServerTypes
  <2>. QED BY <2>2 DEF Types, ServerTypes, serverVars
<1>5. ASSUME NEW d \in Clients PROVE Holds(d)'
  <2>1. CASE d = c
    BY <1>1, <2>1 DEF Holds, Types, MainTypes, WorkerTypes
  <2>2. CASE d # c
    BY <1>1, <2>2 DEF Holds, Types, MainTypes, WorkerTypes
  <2>. QED BY <2>1, <2>2
<1>. QED BY <1>2, <1>3, <1>4, <1>5 DEF Types

\* Main goes to another pc, with or without a request.
LEMMA MainTypesStep ==
    ASSUME Types, NEW c \in Clients, NEW pc \in MainPCs, NEW r \in Requests \cup {Nothing},
           main' = [main EXCEPT ![c] = pc], request' = [request EXCEPT ![c] = r],
           inbox' \in [Clients -> Inboxes], others' \in [Clients -> [Peer -> Nat]],
           pc = "serve" => r \in Requests,
           pc = "push" => r \in Notices,
           UNCHANGED <<worker, record, files>>, WorkerTypes', FlagTypes', ServerTypes'
    PROVE  Types'
<1>1. MainTypes'
  BY DEF Types, MainTypes
<1>2. ASSUME NEW d \in Clients PROVE Holds(d)'
  <2>1. CASE d = c
    BY <2>1 DEF Holds, Types, MainTypes
  <2>2. CASE d # c
    BY <2>2 DEF Holds, Types, MainTypes
  <2>. QED BY <2>1, <2>2
<1>. QED BY <1>1, <1>2 DEF Types

\* The worker goes to another pc, with or without a record.
LEMMA WorkerTypesStep ==
    ASSUME Types, NEW c \in Clients, NEW pc \in WorkerPCs, NEW r \in Records \cup {Nothing},
           NEW n \in Nat,
           worker' = [worker EXCEPT ![c] = pc], record' = [record EXCEPT ![c] = r],
           files' = [files EXCEPT ![c] = n],
           buffer' \in [Clients -> Buffers], answer' \in [Clients -> Answers \cup {Nothing}],
           pc \in {"lookup", "connect", "read", "push"} => r \in Records,
           pc = "push" => n # 0,
           UNCHANGED <<main, request>>, MainTypes', FlagTypes', ServerTypes'
    PROVE  Types'
<1>1. WorkerTypes'
  BY DEF Types, WorkerTypes
<1>2. ASSUME NEW d \in Clients PROVE Holds(d)'
  <2>1. CASE d = c
    BY <2>1 DEF Holds, Types, WorkerTypes
  <2>2. CASE d # c
    BY <2>2 DEF Holds, Types, WorkerTypes
  <2>. QED BY <2>1, <2>2
<1>. QED BY <1>1, <1>2 DEF Types
-----------------------------------------------------------------------------
LEMMA MainKeepsTypes ==
    ASSUME Types, NEW c \in Clients, Main(c)
    PROVE  Types'
<1>. USE DEF workerVars, logOutVars, serverVars
<1>1. /\ main[c] \in MainPCs /\ request[c] \in Requests \cup {Nothing}
      /\ inbox[c] \in Inboxes /\ buffer[c] \in Buffers /\ others[c] \in [Peer -> Nat]
      /\ inbox \in [Clients -> Inboxes] /\ others \in [Clients -> [Peer -> Nat]]
      /\ main[c] = "serve" => request[c] \in Requests
      /\ main[c] = "push" => request[c] \in Notices
      /\ \A kind : Serves(c, kind) => request[c] \in Requests
  BY DEF Types, MainTypes, WorkerTypes, Holds, Serves
<1>2. {"select", "serve", "push", "mutex"} \subseteq MainPCs
  BY DEF MainPCs
<1>3. ASSUME UNCHANGED <<worker, record, files, answer, buffer>> PROVE WorkerTypes'
  BY <1>3 DEF Types, WorkerTypes
<1>4. ASSUME UNCHANGED <<touched, lost, leaked, logOutVars>> PROVE FlagTypes'
  BY <1>4 DEF Types, FlagTypes
<1>5. ASSUME UNCHANGED <<serverVars, inbox>> PROVE ServerTypes'
  BY <1>5 DEF Types, ServerTypes
<1>6. \A pc : Served(c, pc) =>
          /\ main' = [main EXCEPT ![c] = pc]
          /\ request' = [request EXCEPT ![c] = IF pc = "push" THEN request[c] ELSE Nothing]
  BY DEF Served, Types, MainTypes
<1>7. CASE Accept(c)
  <2>1. /\ inbox[c] # <<>>
        /\ main' = [main EXCEPT ![c] = "serve"]
        /\ request' = [request EXCEPT ![c] = Head(inbox[c])]
        /\ inbox' = [inbox EXCEPT ![c] = Tail(inbox[c])]
        /\ UNCHANGED <<others, lost, workerVars, buffer, leaked, logOutVars, serverVars>>
    BY <1>7 DEF Accept, Types, MainTypes
  <2>2. Head(inbox[c]) \in Requests /\ Tail(inbox[c]) \in Inboxes
    BY <1>1, <2>1, QueueTypes
  <2>3. inbox' \in [Clients -> Inboxes] /\ others' \in [Clients -> [Peer -> Nat]]
    BY <1>1, <2>1, <2>2
  <2>4. Len(Tail(inbox[c])) = Len(inbox[c]) - 1 /\ Len(inbox[c]) \in Nat /\ Backlog \in Nat
    BY <1>1, <2>1, HeadTailProperties, LenProperties, PeersAssumption DEF Inboxes
  <2>5. \A d \in Clients : server.with = d => Len(inbox'[d]) < Backlog
    BY <1>1, <2>1, <2>4 DEF Types, ServerTypes
  <2>6. ServerTypes'
    BY <2>1, <2>5 DEF Types, ServerTypes
  <2>. QED BY <1>2, <1>3, <1>4, <2>1, <2>2, <2>3, <2>6, MainTypesStep
<1>8. ASSUME NEW pc \in {"select", "push", "mutex"}, Served(c, pc),
             pc = "push" => request[c] \in Notices,
             UNCHANGED <<inbox, worker, record, files>>, others' \in [Clients -> [Peer -> Nat]],
             WorkerTypes', FlagTypes', ServerTypes'
      PROVE  Types'
  <2>. DEFINE r == IF pc = "push" THEN request[c] ELSE Nothing
  <2>1. main' = [main EXCEPT ![c] = pc] /\ request' = [request EXCEPT ![c] = r]
    BY <1>6, <1>8
  <2>2. r \in Requests \cup {Nothing} /\ (pc = "push" => r \in Notices)
    BY <1>1, <1>8
  <2>. HIDE DEF r
  <2>. QED BY <1>1, <1>2, <1>8, <2>1, <2>2, MainTypesStep
<1>9. CASE Silence(c)
  BY <1>1, <1>3, <1>4, <1>5, <1>8, <1>9 DEF Silence
<1>10. CASE UserOn(c)
  <2>1. request[c] \in Notices /\ request[c].about \in Peer
    BY <1>1, <1>10 DEF UserOn, Serves, Requests, Notices
  <2>2. UNCHANGED <<lost, leaked, logOutVars, serverVars>>
    BY <1>10 DEF UserOn
  <2>3. CASE Served(c, "mutex") /\ UNCHANGED <<others, workerVars, buffer, inbox>>
    BY <1>1, <1>3, <1>4, <1>5, <1>8, <2>2, <2>3
  <2>4. CASE /\ others' = [others EXCEPT ![c][request[c].about] = @ + 1]
             /\ Served(c, "push") /\ UNCHANGED <<workerVars, buffer, inbox>>
    <3>1. others' \in [Clients -> [Peer -> Nat]]
      BY <1>1, <2>1, <2>4
    <3>. QED BY <1>3, <1>4, <1>5, <1>8, <2>1, <2>2, <2>4, <3>1
  <2>5. CASE Exit(c) /\ UNCHANGED <<others, touched>>
    BY <1>4, <2>2, <2>5, ExitTypes
  <2>. QED BY <1>10, <2>3, <2>4, <2>5 DEF UserOn
<1>11. CASE MainPush(c)
  <2>. DEFINE r == [client |-> request[c].about, file |-> FALSE]
  <2>1. /\ main[c] = "push" /\ ~(Len(buffer[c]) >= Capacity)
        /\ buffer' = [buffer EXCEPT ![c] = Append(buffer[c], r)]
        /\ Served(c, "select")
        /\ UNCHANGED <<others, lost, workerVars, leaked, inbox, logOutVars, serverVars>>
    BY <1>11 DEF MainPush, Full, Types, WorkerTypes
  <2>2. r \in Records
    BY <1>1, <2>1 DEF Notices, Records
  <2>. HIDE DEF r
  <2>3. Append(buffer[c], r) \in Buffers
    BY <1>1, <2>1, <2>2, QueueTypes
  <2>4. WorkerTypes'
    BY <2>1, <2>3 DEF Types, WorkerTypes
  <2>. QED BY <1>1, <1>4, <1>5, <1>8, <2>1, <2>4
<1>12. CASE UserOff(c)
  <2>1. request[c] \in Notices /\ request[c].about \in Peer
    BY <1>1, <1>12 DEF UserOff, Serves, Requests, Notices
  <2>2. UNCHANGED <<logOutVars, serverVars>>
    BY <1>12 DEF UserOff
  <2>3. CASE /\ Served(c, "mutex") /\ leaked' = [leaked EXCEPT ![c] = TRUE]
             /\ UNCHANGED <<others, lost, workerVars, buffer, inbox>>
    <3>1. FlagTypes'
      BY <2>2, <2>3 DEF Types, FlagTypes
    <3>. QED BY <1>1, <1>3, <1>5, <1>8, <2>2, <2>3, <3>1
  <2>4. CASE /\ others[c][request[c].about] > 0
             /\ others' = [others EXCEPT ![c][request[c].about] = @ - 1]
             /\ Served(c, "select") /\ UNCHANGED <<lost, leaked, workerVars, buffer, inbox>>
    <3>1. others[c][request[c].about] - 1 \in Nat
      BY <1>1, <2>1, <2>4
    <3>2. others' \in [Clients -> [Peer -> Nat]]
      BY <1>1, <2>1, <2>4, <3>1
    <3>. QED BY <1>3, <1>4, <1>5, <1>8, <2>2, <2>4, <3>2
  <2>5. CASE /\ others' = [others EXCEPT ![c] = [q \in Peer |-> 0]]
             /\ lost' = [lost EXCEPT ![c] = TRUE]
             /\ Served(c, "select") /\ UNCHANGED <<leaked, workerVars, buffer, inbox>>
    <3>1. others' \in [Clients -> [Peer -> Nat]]
      BY <1>1, <2>5
    <3>2. FlagTypes'
      BY <2>2, <2>5 DEF Types, FlagTypes
    <3>. QED BY <1>3, <1>5, <1>8, <2>2, <2>5, <3>1, <3>2
  <2>6. CASE Exit(c) /\ UNCHANGED <<others, lost, leaked, touched>>
    BY <1>4, <2>2, <2>6, ExitTypes
  <2>. QED BY <1>12, <2>3, <2>4, <2>5, <2>6 DEF UserOff
<1>13. ASSUME NEW a \in Answers, request[c].from \in Clients, Reply(c, a) PROVE Types'
  <2>1. UNCHANGED <<others, lost, leaked, touched, logOutVars, serverVars>>
    BY <1>13 DEF Reply
  <2>2. CASE Exit(c)
    BY <1>4, <2>1, <2>2, ExitTypes
  <2>3. CASE ~Exit(c)
    <3>1. /\ Served(c, "select")
          /\ answer' = [answer EXCEPT ![request[c].from] =
                            IF worker[request[c].from] = "read" THEN a ELSE @]
          /\ UNCHANGED <<worker, record, files, buffer, inbox>>
      BY <1>13, <2>3 DEF Reply
    <3>2. WorkerTypes'
      BY <1>13, <3>1 DEF Types, WorkerTypes
    <3>. QED BY <1>1, <1>4, <1>5, <1>8, <2>1, <3>1, <3>2
  <2>. QED BY <2>2, <2>3
<1>14. ASSUME Serves(c, "GET_FILE_LIST") \/ Serves(c, "GET_FILE") PROVE request[c].from \in Clients
  BY <1>1, <1>14 DEF Serves, Requests, Notices
<1>15. CASE AnswerFileList(c)
  <2>1. PICK n \in FileLists :
            \/ Reply(c, n)
            \/ Exit(c) /\ UNCHANGED <<others, lost, leaked, touched, logOutVars, serverVars>>
    BY <1>15 DEF AnswerFileList
  <2>2. CASE Reply(c, n)
    BY <1>13, <1>14, <1>15, <2>2 DEF AnswerFileList, Answers
  <2>3. CASE Exit(c) /\ UNCHANGED <<others, lost, leaked, touched, logOutVars, serverVars>>
    BY <1>4, <2>3, ExitTypes
  <2>. QED BY <2>1, <2>2, <2>3
<1>16. CASE AnswerFile(c)
  BY <1>13, <1>14, <1>16 DEF AnswerFile, Answers
<1>. QED BY <1>7, <1>9, <1>10, <1>11, <1>12, <1>15, <1>16 DEF Main

LEMMA WorkerKeepsTypes ==
    ASSUME Types, NEW c \in Clients, Worker(c)
    PROVE  Types'
<1>. USE DEF mainVars, logOutVars, serverVars
<1>1. /\ worker[c] \in WorkerPCs /\ record[c] \in Records \cup {Nothing} /\ files[c] \in Nat
      /\ answer[c] \in Answers \cup {Nothing} /\ buffer[c] \in Buffers
      /\ inbox \in [Clients -> Inboxes] /\ buffer \in [Clients -> Buffers]
      /\ answer \in [Clients -> Answers \cup {Nothing}]
      /\ worker[c] \in {"lookup", "connect", "read", "push"} =>
            record[c] \in Records /\ record[c].client \in Peer
      /\ worker[c] = "push" => files[c] # 0
  BY DEF Types, MainTypes, WorkerTypes, Holds, Records
<1>2. Answers \subseteq Nat /\ 0 \in Answers
  BY PeersAssumption DEF Answers
<1>3. ASSUME UNCHANGED <<main, request, others>>, inbox' \in [Clients -> Inboxes]
      PROVE  MainTypes'
  BY <1>3 DEF Types, MainTypes
<1>4. ASSUME UNCHANGED <<lost, touched, interrupted, quiet>>,
             leaked' = leaked \/ leaked' = [leaked EXCEPT ![c] = @ \/ Alone(c)]
      PROVE  FlagTypes'
  BY <1>4 DEF Types, FlagTypes, Alone
<1>5. ASSUME UNCHANGED <<serverVars, inbox>> PROVE ServerTypes'
  BY <1>5 DEF Types, ServerTypes
<1>6. \A pc : Goes(c, pc) =>
          /\ worker' = [worker EXCEPT ![c] = pc]
          /\ record' = [record EXCEPT ![c] = IF pc \in {"pop", "gone"} THEN Nothing ELSE record[c]]
  BY DEF Goes, Types, WorkerTypes
<1>7. ASSUME NEW pc \in WorkerPCs, Goes(c, pc), NEW n \in Nat, files' = [files EXCEPT ![c] = n],
             worker[c] \in {"lookup", "connect", "read", "push"} \/ pc = "gone",
             pc = "push" => n # 0,
             buffer' \in [Clients -> Buffers], answer' \in [Clients -> Answers \cup {Nothing}],
             UNCHANGED <<main, request>>, MainTypes', FlagTypes', ServerTypes'
      PROVE  Types'
  <2>. DEFINE r == IF pc \in {"pop", "gone"} THEN Nothing ELSE record[c]
  <2>1. worker' = [worker EXCEPT ![c] = pc] /\ record' = [record EXCEPT ![c] = r]
    BY <1>6, <1>7
  <2>2. r \in Records \cup {Nothing}
        /\ (pc \in {"lookup", "connect", "read", "push"} => r \in Records)
    BY <1>1, <1>7
  <2>. HIDE DEF r
  <2>. QED BY <1>7, <2>1, <2>2, WorkerTypesStep
<1>8. ASSUME UNCHANGED files PROVE files' = [files EXCEPT ![c] = files[c]]
  BY <1>8 DEF Types, WorkerTypes
<1>9. {"pop", "lookup", "mutex", "connect", "read", "push", "gone"} = WorkerPCs
  BY DEF WorkerPCs
<1>10. CASE Pop(c)
  <2>1. /\ buffer[c] # <<>>
        /\ worker' = [worker EXCEPT ![c] = "lookup"]
        /\ record' = [record EXCEPT ![c] = Head(buffer[c])]
        /\ buffer' = [buffer EXCEPT ![c] = Tail(buffer[c])]
        /\ UNCHANGED <<mainVars, files, answer, touched, leaked, inbox, logOutVars, serverVars>>
    BY <1>10 DEF Pop, Types, WorkerTypes
  <2>2. Head(buffer[c]) \in Records /\ Tail(buffer[c]) \in Buffers
    BY <1>1, <2>1, QueueTypes
  <2>3. buffer' \in [Clients -> Buffers] /\ answer' \in [Clients -> Answers \cup {Nothing}]
    BY <1>1, <2>1, <2>2
  <2>. QED BY <1>1, <1>3, <1>4, <1>5, <1>8, <1>9, <2>1, <2>2, <2>3, WorkerTypesStep
<1>11. CASE Lookup(c)
  <2>1. PICK pc \in {"mutex", "connect", "pop"} : Goes(c, pc)
    BY <1>11 DEF Lookup
  <2>. QED BY <1>1, <1>3, <1>4, <1>5, <1>7, <1>8, <1>9, <1>11, <2>1 DEF Lookup
<1>12. CASE Connect(c)
  <2>1. /\ worker[c] = "connect"
        /\ UNCHANGED <<mainVars, files, touched, buffer, leaked, logOutVars, serverVars>>
    BY <1>12 DEF Connect
  <2>2. PICK pc \in {"pop", "gone", "read"} : Goes(c, pc)
    BY <1>12 DEF Connect, Request, Refused, OutsiderAnswers
  <2>3. inbox' \in [Clients -> Inboxes] /\ ServerTypes'
    <3>1. CASE inbox' = inbox
      BY <1>1, <1>5, <2>1, <3>1
    <3>2. CASE inbox' # inbox
      <4>. DEFINE p == record[c].client
      <4>1. p \in Clients /\ Accepts(p) /\ Request(c, p)
        BY <1>12, <3>2 DEF Connect, Refused, OutsiderAnswers
      <4>2. PICK kind \in {"GET_FILE", "GET_FILE_LIST", "SILENT"} :
                inbox' = [inbox EXCEPT ![p] = Append(@, [kind |-> kind, from |-> c])]
        BY <4>1 DEF Request
      <4>. HIDE DEF p
      <4>. DEFINE r == [kind |-> kind, from |-> c]
      <4>3. r \in Requests
        BY DEF Requests
      <4>. HIDE DEF r
      <4>4. inbox[p] \in Seq(Requests) /\ Len(inbox[p]) \in Nat /\ Backlog \in Nat
        BY <1>1, <4>1, LenProperties, PeersAssumption DEF Inboxes
      <4>5. Len(inbox[p]) < Backlog /\ (server.with = p => Len(inbox[p]) + 1 < Backlog)
        <5>1. CASE server.with = p
          BY <4>1, <4>4, <5>1 DEF Accepts
        <5>2. CASE server.with # p
          BY <4>1, <4>4, <5>2 DEF Accepts
        <5>. QED BY <5>1, <5>2
      <4>6. Append(inbox[p], r) \in Inboxes /\ Len(Append(inbox[p], r)) = Len(inbox[p]) + 1
        BY <1>1, <4>1, <4>3, <4>4, <4>5, QueueTypes, AppendProperties
      <4>7. inbox' = [inbox EXCEPT ![p] = Append(inbox[p], r)]
        BY <1>1, <4>1, <4>2 DEF r
      <4>8. inbox' \in [Clients -> Inboxes]
        BY <1>1, <4>1, <4>6, <4>7
      <4>9. \A d \in Clients : server.with = d => Len(inbox'[d]) < Backlog
        BY <1>1, <4>1, <4>5, <4>6, <4>7 DEF Types, ServerTypes
      <4>10. ServerTypes'
        BY <2>1, <4>9 DEF Types, ServerTypes
      <4>. QED BY <4>8, <4>10
    <3>. QED BY <3>1, <3>2
  <2>4. answer' \in [Clients -> Answers \cup {Nothing}]
    <3>1. CASE answer' = answer
      BY <1>1, <3>1
    <3>2. CASE answer' # answer
      <4>1. OutsiderAnswers(c)
        BY <1>12, <3>2 DEF Connect, Request, Refused
      <4>2. PICK a \in Answers : answer' = [answer EXCEPT ![c] = a]
        BY <1>2, <4>1 DEF OutsiderAnswers
      <4>. QED BY <1>1, <4>2
    <3>. QED BY <3>1, <3>2
  <2>. QED BY <1>1, <1>3, <1>4, <1>5, <1>7, <1>8, <1>9, <2>1, <2>2, <2>3, <2>4
<1>13. CASE Receive(c)
  <2>. DEFINE n == IF Reset(c) THEN 0 ELSE answer[c]
  <2>1. /\ worker[c] = "read"
        /\ answer[c] # Nothing \/ Reset(c)
        /\ files' = [files EXCEPT ![c] = n]
        /\ Goes(c, IF files'[c] = 0 THEN "pop" ELSE "push")
        /\ answer' = [answer EXCEPT ![c] = Nothing]
        /\ UNCHANGED <<mainVars, touched, buffer, leaked, inbox, logOutVars, serverVars>>
    BY <1>13 DEF Receive
  <2>2. n \in Nat
    BY <1>1, <1>2, <2>1
  <2>3. files'[c] = n
    BY <2>1 DEF Types, WorkerTypes
  <2>. HIDE DEF n
  <2>4. PICK pc \in {"pop", "push"} : Goes(c, pc) /\ (pc = "push" => n # 0)
    BY <2>1, <2>3
  <2>5. answer' \in [Clients -> Answers \cup {Nothing}]
    BY <1>1, <2>1
  <2>. QED BY <1>1, <1>3, <1>4, <1>5, <1>7, <1>9, <2>1, <2>2, <2>4, <2>5
<1>14. CASE ReceiveNull(c)
  <2>1. FlagTypes'
    BY <1>4, <1>14 DEF ReceiveNull
  <2>. QED BY <1>14, <2>1, ExitTypes DEF ReceiveNull
<1>15. CASE WorkerPush(c)
  <2>. DEFINE r == [client |-> record[c].client, file |-> TRUE]
              n == files[c] - 1
  <2>1. /\ worker[c] = "push" /\ ~(Len(buffer[c]) >= Capacity)
        /\ buffer' = [buffer EXCEPT ![c] = Append(buffer[c], r)]
        /\ files' = [files EXCEPT ![c] = n]
        /\ Goes(c, IF files'[c] > 0 THEN "push" ELSE IF Cancelled(c) THEN "gone" ELSE "pop")
        /\ UNCHANGED <<mainVars, answer, touched, leaked, inbox, logOutVars, serverVars>>
    BY <1>15 DEF WorkerPush, Full, Types, WorkerTypes
  <2>2. r \in Records /\ n \in Nat
    BY <1>1, <2>1 DEF Records
  <2>3. files'[c] = n
    BY <2>1 DEF Types, WorkerTypes
  <2>. HIDE DEF r, n
  <2>4. PICK pc \in {"pop", "gone", "push"} : Goes(c, pc) /\ (pc = "push" => n # 0)
    BY <2>1, <2>2, <2>3
  <2>5. Append(buffer[c], r) \in Buffers
    BY <1>1, <2>1, <2>2, QueueTypes
  <2>6. buffer' \in [Clients -> Buffers]
    BY <1>1, <2>1, <2>5
  <2>. QED BY <1>1, <1>3, <1>4, <1>5, <1>7, <1>9, <2>1, <2>2, <2>4, <2>6
<1>16. CASE IsCancelled(c)
  <2>1. /\ Goes(c, "gone") /\ files' = [files EXCEPT ![c] = 0]
        /\ answer' = [answer EXCEPT ![c] = Nothing]
        /\ UNCHANGED <<mainVars, touched, buffer, leaked, inbox, logOutVars, serverVars>>
    BY <1>16 DEF IsCancelled
  <2>2. answer' \in [Clients -> Answers \cup {Nothing}]
    BY <1>1, <2>1
  <2>. QED BY <1>1, <1>3, <1>4, <1>5, <1>7, <1>9, <2>1, <2>2
<1>17. CASE TouchFreed(c)
  <2>1. /\ touched' = [touched EXCEPT ![c] = TRUE]
        /\ UNCHANGED <<others, lost, leaked, logOutVars, serverVars>>
    BY <1>17 DEF TouchFreed
  <2>2. FlagTypes'
    BY <2>1 DEF Types, FlagTypes
  <2>3. CASE Exit(c)
    BY <2>1, <2>2, <2>3, ExitTypes
  <2>4. CASE Goes(c, "gone") /\ UNCHANGED <<main, request, files, answer, buffer, inbox>>
    BY <1>1, <1>3, <1>5, <1>7, <1>8, <1>9, <2>1, <2>2, <2>4
  <2>. QED BY <1>17, <2>3, <2>4 DEF TouchFreed
<1>. QED BY <1>10, <1>11, <1>12, <1>13, <1>14, <1>15, <1>16, <1>17 DEF Worker

LEMMA LogOutKeepsTypes ==
    ASSUME Types, NEW c \in Clients, LogOut(c)
    PROVE  Types'
<1>. USE DEF workerVars, logOutVars
<1>1. ASSUME NEW from, NEW to \in {"list_destroy", "buffer_destroy", "cond_destroy", "asleep"},
             LogOutStep(c, from, to), log_offs' \subseteq Clients
      PROVE  Types'
  <2>1. /\ main' = [main EXCEPT ![c] = to] /\ to \in MainPCs /\ to \notin {"serve", "push"}
        /\ UNCHANGED <<request, others, lost, worker, record, files, answer, touched, buffer, leaked,
                       inbox, interrupted, quiet, server, online, events>>
    BY <1>1 DEF LogOutStep, MainPCs, LogOutPCs
  <2>2. MainTypes'
    BY <2>1 DEF Types, MainTypes
  <2>3. WorkerTypes' /\ FlagTypes'
    BY <2>1 DEF Types, WorkerTypes, FlagTypes
  <2>4. ServerTypes'
    BY <1>1, <2>1 DEF Types, ServerTypes
  <2>5. ASSUME NEW d \in Clients PROVE Holds(d)'
    <3>1. CASE d = c
      BY <2>1, <3>1 DEF Types, Holds, MainTypes
    <3>2. CASE d # c
      BY <2>1, <3>2 DEF Types, Holds, MainTypes
    <3>. QED BY <3>1, <3>2
  <2>. QED BY <2>2, <2>3, <2>4, <2>5 DEF Types
<1>2. log_offs \subseteq Clients
  BY DEF Types, ServerTypes
<1>3. CASE LogOff(c)
  BY <1>1, <1>2, <1>3 DEF LogOff
<1>4. CASE FallAsleep(c) \/ ListDestroy(c) \/ BufferDestroy(c)
  BY <1>1, <1>2, <1>4 DEF FallAsleep, ListDestroy, BufferDestroy
<1>5. CASE CondDestroy(c)
  <2>1. CASE Exit(c) /\ UNCHANGED <<others, lost, touched, leaked, logOutVars, serverVars>>
    BY <2>1, ExitTypes DEF Types, FlagTypes
  <2>. QED BY <1>1, <1>2, <1>5, <2>1 DEF CondDestroy
<1>. QED BY <1>3, <1>4, <1>5 DEF LogOut

\* The server is done with one request and sends notices, or dies of it.
LEMMA LeavesTypes ==
    ASSUME Types, NEW p \in Peer, Leaves(p), UNCHANGED inbox, log_offs' \subseteq Clients,
           events' \in [notices : Nat, log_outs : Nat]
    PROVE  ServerTypes'
<1>1. Nothing \notin Clients
  BY PeersAssumption
<1>2. online' \subseteq Peer
  BY DEF Leaves, Types, ServerTypes
<1>3. CASE server' = Sends("USER_OFF", p, online' \cap Clients)
  BY <1>1, <1>2, <1>3 DEF Sends, Types, ServerTypes, Notices
<1>4. CASE server' = Down
  BY <1>1, <1>2, <1>4 DEF Down, ServerIdle, Types, ServerTypes
<1>. QED BY <1>3, <1>4 DEF Leaves

LEMMA ServerKeepsTypes ==
    ASSUME Types, Server
    PROVE  Types'
<1>. USE DEF mainVars, workerVars, logOutVars
<1>1. ASSUME UNCHANGED <<mainVars, workerVars, buffer, leaked, logOutVars>>,
             inbox' \in [Clients -> Inboxes], ServerTypes'
      PROVE  Types'
  BY <1>1 DEF Types, MainTypes, WorkerTypes, FlagTypes, Holds
<1>2. PICK c \in Clients : ServeLogOff(c) \/ NotifyNext(c) \/ NotifySend(c)
  BY DEF Server
<1>3. inbox \in [Clients -> Inboxes] /\ Nothing \notin Clients
  BY PeersAssumption DEF Types, MainTypes
<1>4. CASE ServeLogOff(c)
  <2>1. /\ Leaves(c) /\ c \in Peer
        /\ log_offs' = log_offs \ {c}
        /\ UNCHANGED <<mainVars, workerVars, buffer, leaked, inbox, logOutVars, events>>
    BY <1>4 DEF ServeLogOff, Peer
  <2>2. log_offs' \subseteq Clients /\ events' \in [notices : Nat, log_outs : Nat]
    BY <2>1 DEF Types, ServerTypes
  <2>3. ServerTypes'
    BY <2>1, <2>2, LeavesTypes
  <2>. QED BY <1>1, <1>3, <2>1, <2>3
<1>5. CASE NotifyNext(c)
  <2>1. /\ c \in server.to
        /\ server' = [server EXCEPT !.to = @ \ {c}, !.with = IF Accepts(c) THEN c ELSE Nothing]
        /\ server.with = Nothing
        /\ UNCHANGED <<mainVars, workerVars, buffer, leaked, inbox, logOutVars, log_offs, online,
                       events>>
    BY <1>5 DEF NotifyNext
  <2>2. Accepts(c) => Len(inbox[c]) < Backlog
    <3>1. Len(inbox[c]) \in Nat /\ Backlog \in Nat
      BY <1>3, LenProperties, PeersAssumption DEF Inboxes
    <3>. QED BY <1>3, <2>1, <3>1 DEF Accepts
  <2>3. ServerTypes'
    BY <1>3, <2>1, <2>2 DEF Types, ServerTypes
  <2>. QED BY <1>1, <1>3, <2>1, <2>3
<1>6. CASE NotifySend(c)
  <2>1. /\ server.with = c /\ server.notice \in Requests
        /\ UNCHANGED <<mainVars, workerVars, buffer, leaked, logOutVars, log_offs, online, events>>
    BY <1>3, <1>6 DEF NotifySend, Types, ServerTypes, Requests
  <2>2. server' \in {[server EXCEPT !.with = Nothing], Down}
    BY <1>6 DEF NotifySend
  <2>3. ServerTypes'
    <3>1. CASE server' = [server EXCEPT !.with = Nothing]
      BY <1>3, <2>1, <3>1 DEF Types, ServerTypes
    <3>2. CASE server' = Down
      BY <1>3, <2>1, <3>2 DEF Down, ServerIdle, Types, ServerTypes
    <3>. QED BY <2>2, <3>1, <3>2
  <2>4. inbox' \in [Clients -> Inboxes]
    <3>1. Append(inbox[c], server.notice) \in Inboxes
      BY <1>3, <2>1, QueueTypes DEF Types, ServerTypes
    <3>. QED BY <1>3, <1>6, <3>1 DEF NotifySend
  <2>. QED BY <1>1, <2>1, <2>3, <2>4
<1>. QED BY <1>2, <1>4, <1>5, <1>6

LEMMA NextKeepsTypes == Types /\ [Next]_vars => Types'
<1>. SUFFICES ASSUME Types, [Next]_vars PROVE Types'
  OBVIOUS
<1>. USE DEF mainVars, workerVars, logOutVars
<1>1. ASSUME NEW what \in {"notices", "log_outs"}, Happens(what)
      PROVE  events' \in [notices : Nat, log_outs : Nat]
  <2>1. events \in [notices : Nat, log_outs : Nat]
    BY DEF Types, ServerTypes
  <2>2. CASE what = "notices"
    BY <1>1, <2>1, <2>2 DEF Happens
  <2>3. CASE what = "log_outs"
    BY <1>1, <2>1, <2>3 DEF Happens
  <2>. QED BY <2>2, <2>3
<1>2. ASSUME NEW o \in Outsiders, Arrive(o) \/ Depart(o) PROVE Types'
  <2>1. /\ UNCHANGED <<mainVars, workerVars, buffer, leaked, inbox, logOutVars, log_offs>>
        /\ Happens("notices")
    BY <1>2 DEF Arrive, Depart
  <2>2. o \in Peer /\ Nothing \notin Clients
        /\ log_offs' \subseteq Clients /\ events' \in [notices : Nat, log_outs : Nat]
    BY <1>1, <2>1, PeersAssumption DEF Types, ServerTypes, Peer
  <2>3. CASE Arrive(o)
    BY <2>1, <2>2, <2>3 DEF Arrive, Sends, Types, MainTypes, WorkerTypes, FlagTypes, ServerTypes,
                            Holds, Notices
  <2>4. CASE Depart(o)
    <3>1. ServerTypes'
      BY <2>1, <2>2, <2>4, LeavesTypes DEF Depart
    <3>. QED BY <2>1, <3>1 DEF Types, MainTypes, WorkerTypes, FlagTypes, Holds
  <2>. QED BY <1>2, <2>3, <2>4
<1>3. ASSUME NEW c \in Clients, Interrupt(c) PROVE Types'
  <2>1. /\ main[c] \in MainPCs
        /\ main' = [main EXCEPT ![c] = "log_off"]
        /\ request' = [request EXCEPT ![c] = Nothing]
        /\ interrupted' = [interrupted EXCEPT ![c] = main[c]]
        /\ quiet' = [quiet EXCEPT ![c] = worker[c] = "pop" /\ buffer[c] = <<>>]
        /\ UNCHANGED <<others, lost, workerVars, buffer, leaked, inbox, server, log_offs, online>>
        /\ Happens("log_outs")
    BY <1>3 DEF Interrupt, Types, MainTypes
  <2>2. FlagTypes'
    BY <2>1 DEF Types, FlagTypes
  <2>3. ServerTypes'
    BY <1>1, <2>1 DEF Types, ServerTypes
  <2>4. WorkerTypes'
    BY <2>1 DEF Types, WorkerTypes
  <2>5. /\ "log_off" \in MainPCs /\ "log_off" \notin {"serve", "push"}
        /\ Nothing \in Requests \cup {Nothing}
        /\ inbox' \in [Clients -> Inboxes] /\ others' \in [Clients -> [Peer -> Nat]]
    BY <2>1 DEF MainPCs, LogOutPCs, Types, MainTypes
  <2>. QED BY <2>1, <2>2, <2>3, <2>4, <2>5, MainTypesStep
<1>4. CASE UNCHANGED vars
  BY <1>4 DEF vars, serverVars, Types, MainTypes, WorkerTypes, FlagTypes, ServerTypes, Holds
<1>. QED BY <1>2, <1>3, <1>4, MainKeepsTypes, WorkerKeepsTypes, LogOutKeepsTypes, ServerKeepsTypes
         DEF Next, Runnable

(***************************************************************************)
(* TypeOK: two threads push into a buffer and never above its capacity, no *)
(* accept queue holds more than the kernel keeps, and a thread that is in  *)
(* the middle of something has what it works on, whoever exits around it.  *)
(***************************************************************************)
THEOREM TypeCorrect == Spec => []TypeOK
<1>1. Types => TypeOK
  BY DEF Types, MainTypes, WorkerTypes, FlagTypes, ServerTypes, TypeOK, Buffers, Inboxes
<1>. QED BY InitTypes, NextKeepsTypes, <1>1, PTL DEF Spec
=============================================================================
