------------------------------- MODULE Peers -------------------------------
(***************************************************************************)
(* Clients that ask one another for files: the main thread and the worker  *)
(* of each, the shared buffer between them, their accept queues, the       *)
(* server's notices, and log_out, which tears a client down around its     *)
(* threads.  What FileTransfer says of one request is here one step; what  *)
(* it leaves out - that the peer's main thread waits too - is the subject. *)
(*                                                                         *)
(* A client has one worker (option -w 1).  So its buffer is a queue of     *)
(* records by value (SharedBuffer, SingleWorkerRefinement) in which pushes *)
(* and pops are atomic and go on (NoLostWakeup).                           *)
(***************************************************************************)
EXTENDS Naturals, Sequences, FiniteSets, SequencesExt

CONSTANTS
    Order,          \* the clients whose threads are modelled, as they logged on
    Outsiders,      \* clients that come and go, and answer
    Capacity,       \* records a buffer holds: option -b, less one
    Backlog,        \* connections a kernel keeps for a process to accept
    FileLists,      \* how many files a FILE_LIST may list
    Bounds,         \* bound: how often outsiders log on or off and users log out
    Nothing         \* no record, no request, no answer

Clients == ToSet(Order)
Peer    == Clients \cup Outsiders
Records == [client : Peer, file : BOOLEAN]

\* A connection whose requester was cancelled before it wrote is SILENT.
Notices  == [kind : {"USER_ON", "USER_OFF"}, about : Peer]
Requests == Notices \cup [kind : {"GET_FILE_LIST", "GET_FILE", "SILENT"}, from : Clients]

\* How many files a FILE_LIST lists; 0 for all that GET_FILE is answered with.
Answers  == FileLists \cup {0}

ASSUME PeersAssumption ==
    /\ Order \in Seq(Clients) /\ IsInjective(Order)
    /\ IsFiniteSet(Outsiders) /\ Clients \cap Outsiders = {}
    /\ Capacity \in Nat /\ Len(Order) <= Capacity + 1
    /\ Backlog \in Nat \ {0} /\ Bounds \subseteq [notices : Nat, log_outs : Nat]
    /\ FileLists \subseteq Nat
    /\ Nothing \notin Clients \cup Records \cup Requests \cup Answers

VARIABLES
    main,       \* what each main thread does; "exit" is a process that ended
    request,    \* the request it serves
    worker,     \* what each worker does
    record,     \* the record it popped
    files,      \* how many records of a FILE_LIST it has still to push
    answer,     \* the answer that lies in its connection
    buffer,     \* the records in the shared buffer
    others,     \* how often each client is in the list
    lost,       \* the list lost its head, but not its size: see UserOff
    leaked,     \* list_find_element kept the list's mutex
    inbox,      \* the accept queue
    interrupted, \* what main was doing when log_out interrupted it
    quiet,      \* was the worker idle then?
    touched,    \* has a thread used memory that log_out freed?
    server,     \* the notice the server sends, to whom it has yet to, and with
                \* whom it is connected
    log_offs,   \* LOG_OFF requests the server has not read
    online,     \* the clients the server lists
    events      \* how often what Bounds bounds has happened

mainVars    == <<main, request, others, lost>>
workerVars  == <<worker, record, files, answer, touched>>
logOutVars  == <<interrupted, quiet>>
serverVars  == <<server, log_offs, online, events>>
vars        == <<mainVars, workerVars, buffer, leaked, inbox, logOutVars, serverVars>>

(***************************************************************************)
(* main is in select, serves a request, waits for room in the buffer       *)
(* ("push") or for the list's mutex, or is in log_out, which it runs on a  *)
(* signal: there it sends LOG_OFF, cancels the worker, frees the list,     *)
(* frees the buffer, destroys the condition variables and exits, or is     *)
(* "asleep" for good.                                                      *)
(***************************************************************************)
LogOutPCs == {"log_off", "list_destroy", "buffer_destroy", "cond_destroy"}
MainPCs   == {"select", "serve", "push", "mutex", "asleep", "exit"} \cup LogOutPCs
WorkerPCs == {"pop", "lookup", "mutex", "connect", "read", "push", "gone"}

Runs(c)     == main[c] # "exit"
Full(c)     == Len(buffer[c]) >= Capacity
Alone(c)    == \A p \in Peer : others[c][p] = 0

\* Nobody else than p is in the list; so p is its head.
Only(c, p)  == \A q \in Peer : others[c][q] = IF q = p THEN 1 ELSE 0

\* How far log_out has come; it falls asleep in its last step at the latest.
Past(c, pcs)   == \/ main[c] \in pcs
                  \/ main[c] = "asleep" /\ interrupted[c] = "push"
Cancelled(c)   == Past(c, {"list_destroy", "buffer_destroy", "cond_destroy"})
ListFreed(c)   == Past(c, {"buffer_destroy", "cond_destroy"})
BufferFreed(c) == Past(c, {"cond_destroy"})

\* The clients have logged on and been sent those who were there before: known
\* to them, and in their buffers.  Of those who came later, outsiders among
\* them, they have a notice to read, or it was dropped.
Before(c) == {p \in Clients : \E i, j \in DOMAIN Order :
                                  i < j /\ Order[i] = p /\ Order[j] = c}
Later(c)  == Peer \ (Before(c) \cup {c})

\* The server waits for requests, or is as good as dead: see Leaves.
ServerIdle == [up |-> TRUE, notice |-> Nothing, to |-> {}, with |-> Nothing]
Down == [ServerIdle EXCEPT !.up = FALSE]

Sends(kind, p, to) ==
    [up |-> TRUE, notice |-> [kind |-> kind, about |-> p], to |-> to, with |-> Nothing]

Waiting == server.up /\ server.to = {} /\ server.with = Nothing

\* c listens, and there is room in its accept queue beside the connection on
\* which the server has not sent yet.
Accepts(c) == Runs(c) /\ Len(inbox[c]) + (IF server.with = c THEN 1 ELSE 0) < Backlog

Init ==
    /\ main = [c \in Clients |-> "select"]
    /\ request = [c \in Clients |-> Nothing]
    /\ worker = [c \in Clients |-> "pop"]
    /\ record = [c \in Clients |-> Nothing]
    /\ files = [c \in Clients |-> 0]
    /\ answer = [c \in Clients |-> Nothing]
    /\ buffer = [c \in Clients |-> SetToSeq([client : Before(c), file : {FALSE}])]
    /\ others = [c \in Clients |-> [p \in Peer |-> IF p \in Before(c) THEN 1 ELSE 0]]
    /\ lost = [c \in Clients |-> FALSE]
    /\ leaked = [c \in Clients |-> FALSE]
    /\ \E told \in [Clients -> SUBSET Peer] :
          /\ \A c \in Clients : told[c] \subseteq Later(c) /\ Cardinality(told[c]) <= Backlog
          /\ inbox = [c \in Clients |-> SetToSeq([kind : {"USER_ON"}, about : told[c]])]
    /\ interrupted = [c \in Clients |-> Nothing]
    /\ quiet = [c \in Clients |-> FALSE]
    /\ touched = [c \in Clients |-> FALSE]
    /\ server = ServerIdle
    /\ log_offs = {}
    /\ online = Peer
    /\ events = [notices |-> 0, log_outs |-> 0]

\* What is bounded happens once more.
Happens(what) ==
    /\ events' = [events EXCEPT ![what] = @ + 1]
    /\ \E b \in Bounds : events'.notices <= b.notices /\ events'.log_outs <= b.log_outs
-----------------------------------------------------------------------------
(* The server, as far as the clients feel it. *)

\* An outsider logs on: the server tells everybody it lists.
Arrive(o) ==
    /\ Waiting
    /\ o \notin online
    /\ Happens("notices")
    /\ online' = online \cup {o}
    /\ server' = Sends("USER_ON", o, online \cap Clients)
    /\ UNCHANGED <<mainVars, workerVars, buffer, leaked, inbox, logOutVars, log_offs>>

(***************************************************************************)
(* handle_log_off_request, up to its loop.  When p is the head of a list   *)
(* with others in it, list_remove reads the node it has freed.  The server *)
(* may die of what it gets, or take its list for empty and die of the next *)
(* request: both are Down.  (Who is the head is not modelled.)             *)
(***************************************************************************)
Leaves(p) ==
    /\ online' = online \ {p}
    /\ \/ server' = Sends("USER_OFF", p, online' \cap Clients)
       \/ online' # {} /\ server' = Down

Depart(o) ==
    /\ Waiting
    /\ o \in online
    /\ Happens("notices")
    /\ Leaves(o)
    /\ UNCHANGED <<mainVars, workerVars, buffer, leaked, inbox, logOutVars, log_offs>>

ServeLogOff(c) ==
    /\ Waiting
    /\ c \in log_offs
    /\ log_offs' = log_offs \ {c}
    /\ Leaves(c)
    /\ UNCHANGED <<mainVars, workerVars, buffer, leaked, inbox, logOutVars, events>>

\* connect waits while the accept queue is full and fails after a time; it
\* fails at once when nobody listens.  Then the notice is dropped.
NotifyNext(c) ==
    /\ c \in server.to
    /\ server.with = Nothing
    /\ server' = [server EXCEPT !.to = @ \ {c}, !.with = IF Accepts(c) THEN c ELSE Nothing]
    /\ UNCHANGED <<mainVars, workerVars, buffer, leaked, inbox, logOutVars, log_offs, online,
                   events>>

\* When the client has ended since, the second write may raise SIGPIPE.
NotifySend(c) ==
    /\ server.with = c
    /\ IF Runs(c)
       THEN /\ inbox' = [inbox EXCEPT ![c] = Append(@, server.notice)]
            /\ server' = [server EXCEPT !.with = Nothing]
       ELSE /\ server' \in {[server EXCEPT !.with = Nothing], Down}
            /\ UNCHANGED inbox
    /\ UNCHANGED <<mainVars, workerVars, buffer, leaked, logOutVars, log_offs, online, events>>

Server == \E c \in Clients : ServeLogOff(c) \/ NotifyNext(c) \/ NotifySend(c)
-----------------------------------------------------------------------------
(* The main thread. *)

\* The process ends: its threads, its buffer and its connections go with it.
Exit(c) ==
    /\ main' = [main EXCEPT ![c] = "exit"]
    /\ request' = [request EXCEPT ![c] = Nothing]
    /\ worker' = [worker EXCEPT ![c] = "gone"]
    /\ record' = [record EXCEPT ![c] = Nothing]
    /\ files' = [files EXCEPT ![c] = 0]
    /\ answer' = [answer EXCEPT ![c] = Nothing]
    /\ buffer' = [buffer EXCEPT ![c] = <<>>]
    /\ inbox' = [inbox EXCEPT ![c] = <<>>]

\* The main loop accepts a connection and reads from it.
Accept(c) ==
    /\ main[c] = "select"
    /\ inbox[c] # <<>>
    /\ request' = [request EXCEPT ![c] = Head(inbox[c])]
    /\ inbox' = [inbox EXCEPT ![c] = Tail(@)]
    /\ main' = [main EXCEPT ![c] = "serve"]
    /\ UNCHANGED <<others, lost, workerVars, buffer, leaked, logOutVars, serverVars>>

Serves(c, kind) ==
    /\ main[c] = "serve"
    /\ request[c].kind = kind

\* A handler ends, with main at pc.
Served(c, pc) ==
    /\ main' = [main EXCEPT ![c] = pc]
    /\ request' = [request EXCEPT ![c] = IF pc = "push" THEN @ ELSE Nothing]

\* The read ends when the silent requester's process does: a null request.
Silence(c) ==
    /\ Serves(c, "SILENT")
    /\ ~Runs(request[c].from)
    /\ Served(c, "select")
    /\ UNCHANGED <<others, lost, workerVars, buffer, leaked, inbox, logOutVars, serverVars>>

\* handle_user_on_request: the list, then (the connection closed) the buffer.
\* When the head is lost, list_rpush follows it all the same.
UserOn(c) ==
    /\ Serves(c, "USER_ON")
    /\ \/ /\ leaked[c]
          /\ Served(c, "mutex")
          /\ UNCHANGED <<others, workerVars, buffer, inbox>>
       \/ /\ ~leaked[c] /\ ~lost[c]
          /\ others' = [others EXCEPT ![c][request[c].about] = @ + 1]
          /\ Served(c, "push")
          /\ UNCHANGED <<workerVars, buffer, inbox>>
       \/ /\ ~leaked[c] /\ lost[c]
          /\ Exit(c)
          /\ UNCHANGED <<others, touched>>
    /\ UNCHANGED <<lost, leaked, logOutVars, serverVars>>

\* Mutant: main does not wait for room.
MainPush_without_waiting(c) ==
    /\ main[c] = "push"
    /\ buffer' = [buffer EXCEPT ![c] =
                     Append(@, [client |-> request[c].about, file |-> FALSE])]
    /\ Served(c, "select")
    /\ UNCHANGED <<others, lost, workerVars, leaked, inbox, logOutVars, serverVars>>

MainPush(c) ==
    /\ main[c] = "push"
    /\ ~Full(c)
    /\ buffer' = [buffer EXCEPT ![c] =
                     Append(@, [client |-> request[c].about, file |-> FALSE])]
    /\ Served(c, "select")
    /\ UNCHANGED <<others, lost, workerVars, leaked, inbox, logOutVars, serverVars>>

(***************************************************************************)
(* handle_user_off_request.  When the list is empty list_find_element      *)
(* keeps its mutex, and list_remove waits for it.  When the client is not  *)
(* in it - its USER_ON was dropped - list_remove follows a null pointer.   *)
(* When it is the head, with others behind it, list_remove reads the node  *)
(* it has freed, and the next pointer may lead nowhere, where the main     *)
(* loop follows it, or be null.                                            *)
(***************************************************************************)
UserOff(c) ==
    LET p == request[c].about IN
    /\ Serves(c, "USER_OFF")
    /\ \/ /\ leaked[c] \/ Alone(c)
          /\ Served(c, "mutex")
          /\ leaked' = [leaked EXCEPT ![c] = TRUE]
          /\ UNCHANGED <<others, lost, workerVars, buffer, inbox>>
       \/ /\ ~leaked[c] /\ others[c][p] > 0
          /\ others' = [others EXCEPT ![c][p] = @ - 1]
          /\ Served(c, "select")
          /\ UNCHANGED <<lost, leaked, workerVars, buffer, inbox>>
       \/ /\ ~leaked[c] /\ others[c][p] > 0 /\ ~Only(c, p)
          /\ others' = [others EXCEPT ![c] = [q \in Peer |-> 0]]
          /\ lost' = [lost EXCEPT ![c] = TRUE]
          /\ Served(c, "select")
          /\ UNCHANGED <<leaked, workerVars, buffer, inbox>>
       \/ /\ ~leaked[c] /\ ~Alone(c) /\ ~Only(c, p)
          /\ Exit(c)
          /\ UNCHANGED <<others, lost, leaked, touched>>
    /\ UNCHANGED <<logOutVars, serverVars>>

\* The answer reaches the worker that waits for it; when the worker's process
\* has ended, writing may be the end of this one (SIGPIPE).
Reply(c, a) ==
    LET to == request[c].from IN
    /\ \/ /\ Served(c, "select")
          /\ answer' = [answer EXCEPT ![to] = IF worker[to] = "read" THEN a ELSE @]
          /\ UNCHANGED <<worker, record, files, buffer, inbox>>
       \/ ~Runs(to) /\ Exit(c)
    /\ UNCHANGED <<others, lost, leaked, touched, logOutVars, serverVars>>

\* handle_get_file_list_request; with nothing to list it follows a null head.
AnswerFileList(c) ==
    /\ Serves(c, "GET_FILE_LIST")
    /\ \E n \in FileLists :
          \/ n > 0 /\ Reply(c, n)
          \/ /\ n = 0
             /\ Exit(c)
             /\ UNCHANGED <<others, lost, leaked, touched, logOutVars, serverVars>>

\* Mutant: a client that has not got the file does not answer.
AnswerFile_or_not(c) ==
    /\ Serves(c, "GET_FILE")
    /\ \/ Reply(c, 0)
       \/ /\ Served(c, "select")
          /\ UNCHANGED <<others, lost, workerVars, buffer, leaked, inbox, logOutVars, serverVars>>

\* handle_get_file_request: the file or a verdict.
AnswerFile(c) == Serves(c, "GET_FILE") /\ Reply(c, 0)

Main(c) ==
    \/ Accept(c) \/ Silence(c) \/ UserOn(c) \/ MainPush(c) \/ UserOff(c)
    \/ AnswerFileList(c) \/ AnswerFile(c)
-----------------------------------------------------------------------------
(* The worker thread: worker_function. *)

\* The worker goes on at pc; between records, or when it is gone, it has none.
Goes(c, pc) ==
    /\ worker' = [worker EXCEPT ![c] = pc]
    /\ record' = [record EXCEPT ![c] = IF pc \in {"pop", "gone"} THEN Nothing ELSE @]

\* Mutant: the worker takes what lies in the ring without asking whether it
\* is a record.
Pop_untested(c) ==
    /\ worker[c] = "pop"
    /\ \E r \in IF buffer[c] = <<>> THEN Records ELSE {Head(buffer[c])} :
          record' = [record EXCEPT ![c] = r]
    /\ buffer' = [buffer EXCEPT ![c] = IF @ = <<>> THEN @ ELSE Tail(@)]
    /\ worker' = [worker EXCEPT ![c] = "lookup"]
    /\ UNCHANGED <<mainVars, files, answer, touched, leaked, inbox, logOutVars, serverVars>>

Pop(c) ==
    /\ worker[c] = "pop"
    /\ buffer[c] # <<>>
    /\ record' = [record EXCEPT ![c] = Head(buffer[c])]
    /\ buffer' = [buffer EXCEPT ![c] = Tail(@)]
    /\ worker' = [worker EXCEPT ![c] = "lookup"]
    /\ UNCHANGED <<mainVars, files, answer, touched, leaked, inbox, logOutVars, serverVars>>

\* list_find_element in the client's list.
Lookup(c) ==
    /\ worker[c] = "lookup"
    /\ Goes(c, IF leaked[c] THEN "mutex"
               ELSE IF others[c][record[c].client] > 0 THEN "connect" ELSE "pop")
    /\ leaked' = [leaked EXCEPT ![c] = @ \/ Alone(c)]
    /\ UNCHANGED <<mainVars, files, answer, touched, buffer, inbox, logOutVars, serverVars>>

\* Nobody listens, or the accept queue is full for too long.
Refused(c) == Goes(c, "pop") /\ UNCHANGED <<inbox, answer>>

\* A request comes to p's accept queue.  The worker that was cancelled between
\* connect and write is gone.
Request(c, p) ==
    \E kind \in {IF record[c].file THEN "GET_FILE" ELSE "GET_FILE_LIST"} \cup
                (IF main[c] = "log_off" THEN {"SILENT"} ELSE {}) :
        /\ inbox' = [inbox EXCEPT ![p] = Append(@, [kind |-> kind, from |-> c])]
        /\ Goes(c, IF kind = "SILENT" THEN "gone" ELSE "read")
        /\ UNCHANGED answer

\* An outsider answers; that it closes without is a list of no files, or a file.
OutsiderAnswers(c) ==
    /\ Goes(c, "read")
    /\ \E a \in IF record[c].file THEN {0} ELSE Answers : answer' = [answer EXCEPT ![c] = a]
    /\ UNCHANGED inbox

\* ipv4_socket_create_and_connect and ipv4_socket_send_request.
Connect(c) ==
    LET p == record[c].client IN
    /\ worker[c] = "connect"
    /\ ~Cancelled(c)
    /\ IF p \in Clients
       THEN IF Accepts(p) THEN Request(c, p) ELSE Refused(c)
       ELSE Refused(c) \/ OutsiderAnswers(c)
    /\ UNCHANGED <<mainVars, files, touched, buffer, leaked, logOutVars, serverVars>>

\* The other end of the connection is closed without an answer.
Reset(c) == answer[c] = Nothing /\ record[c].client \in Clients /\ ~Runs(record[c].client)

\* A FILE_LIST (none follows a null request), or what GET_FILE is answered with.
Receive(c) ==
    /\ worker[c] = "read"
    /\ answer[c] # Nothing \/ (Reset(c) /\ ~record[c].file)
    /\ files' = [files EXCEPT ![c] = IF Reset(c) THEN 0 ELSE answer[c]]
    /\ Goes(c, IF files'[c] = 0 THEN "pop" ELSE "push")
    /\ answer' = [answer EXCEPT ![c] = Nothing]
    /\ UNCHANGED <<mainVars, touched, buffer, leaked, inbox, logOutVars, serverVars>>

\* A null request for an answer to GET_FILE: its file is read from address 8.
ReceiveNull(c) ==
    /\ worker[c] = "read"
    /\ Reset(c) /\ record[c].file
    /\ Exit(c)
    /\ UNCHANGED <<others, lost, touched, leaked, logOutVars, serverVars>>

\* After the last record comes close, where a cancelled thread ends.
WorkerPush(c) ==
    /\ worker[c] = "push"
    /\ ~Full(c)
    /\ buffer' = [buffer EXCEPT ![c] =
                     Append(@, [client |-> record[c].client, file |-> TRUE])]
    /\ files' = [files EXCEPT ![c] = @ - 1]
    /\ Goes(c, IF files'[c] > 0 THEN "push" ELSE IF Cancelled(c) THEN "gone" ELSE "pop")
    /\ UNCHANGED <<mainVars, answer, touched, leaked, inbox, logOutVars, serverVars>>

\* A cancelled thread ends where it waits: in pop and push for the other
\* thread, in connect, in read.  (It does not in pthread_mutex_lock.)
IsCancelled(c) ==
    /\ Cancelled(c)
    /\ \/ worker[c] = "pop" /\ buffer[c] = <<>>
       \/ worker[c] = "push" /\ Full(c)
       \/ worker[c] \in {"connect", "read"}
    /\ Goes(c, "gone")
    /\ files' = [files EXCEPT ![c] = 0]
    /\ answer' = [answer EXCEPT ![c] = Nothing]
    /\ UNCHANGED <<mainVars, touched, buffer, leaked, inbox, logOutVars, serverVars>>

\* The worker read an answer, or the end of the connection: it reports whom it
\* had it from, unless it has records to push first.
Answered(c) == worker[c] = "read" /\ (answer[c] # Nothing \/ Reset(c))
Reports(c)  == \/ Answered(c) /\ (record[c].file \/ answer[c] \in {0, Nothing})
               \/ worker[c] = "push" /\ ~Full(c) /\ files[c] = 1

\* The next step uses the table, the nodes or a connected_client after free.
Touches(c) ==
    \/ worker[c] = "pop" /\ buffer[c] # <<>> /\ BufferFreed(c)
    \/ worker[c] = "lookup" /\ ~leaked[c] /\ ~Alone(c) /\ ListFreed(c)
    \/ worker[c] = "connect" /\ ListFreed(c)
    \/ Reports(c) /\ ListFreed(c)
    \/ worker[c] = "push" /\ ~Full(c) /\ BufferFreed(c)

\* What comes of it is open; the thread is not followed any further.
TouchFreed(c) ==
    /\ Touches(c)
    /\ touched' = [touched EXCEPT ![c] = TRUE]
    /\ \/ Goes(c, "gone") /\ UNCHANGED <<main, request, files, answer, buffer, inbox>>
       \/ Exit(c)
    /\ UNCHANGED <<others, lost, leaked, logOutVars, serverVars>>

Worker(c) ==
    \/ IsCancelled(c) \/ TouchFreed(c)
    \/ /\ ~Touches(c)
       /\ \/ Pop(c) \/ Lookup(c) \/ Connect(c)
          \/ Receive(c) \/ ReceiveNull(c) \/ WorkerPush(c)

-----------------------------------------------------------------------------
(* log_out, the handler of SIGINT and SIGQUIT, which runs in the main thread. *)

(***************************************************************************)
(* The handler allocates memory and prints: when main was doing the same,  *)
(* serving a request, it may wait for its own lock.                        *)
(***************************************************************************)
Interrupt(c) ==
    /\ main[c] \in {"select", "serve", "push", "mutex"}
    /\ Happens("log_outs")
    /\ interrupted' = [interrupted EXCEPT ![c] = main[c]]
    /\ quiet' = [quiet EXCEPT ![c] = worker[c] = "pop" /\ buffer[c] = <<>>]
    /\ main' = [main EXCEPT ![c] = "log_off"]
    /\ request' = [request EXCEPT ![c] = Nothing]
    /\ UNCHANGED <<others, lost, workerVars, buffer, leaked, inbox, server, log_offs, online>>

LogOutStep(c, from, to) ==
    /\ main[c] = from
    /\ main' = [main EXCEPT ![c] = to]
    /\ UNCHANGED <<request, others, lost, workerVars, buffer, leaked, inbox, logOutVars,
                   server, online, events>>

\* The server may be out of reach.  The worker is cancelled.
LogOff(c) ==
    /\ LogOutStep(c, "log_off", "list_destroy")
    /\ log_offs' \in {log_offs} \cup (IF server.up THEN {log_offs \cup {c}} ELSE {})

FallAsleep(c) ==
    /\ interrupted[c] = "serve"
    /\ LogOutStep(c, "log_off", "asleep")
    /\ UNCHANGED log_offs

\* Mutant: the list is destroyed under its mutex.
ListDestroy_locked(c) ==
    /\ ~leaked[c]
    /\ LogOutStep(c, "list_destroy", "buffer_destroy")
    /\ UNCHANGED log_offs

ListDestroy(c) == LogOutStep(c, "list_destroy", "buffer_destroy") /\ UNCHANGED log_offs

BufferDestroy(c) == LogOutStep(c, "buffer_destroy", "cond_destroy") /\ UNCHANGED log_offs

\* pthread_cond_destroy waits for those who wait on condition_full: that may
\* be the thread that it runs in.
CondDestroy(c) ==
    \/ /\ interrupted[c] = "push"
       /\ LogOutStep(c, "cond_destroy", "asleep")
       /\ UNCHANGED log_offs
    \/ /\ main[c] = "cond_destroy"
       /\ Exit(c)
       /\ UNCHANGED <<others, lost, touched, leaked, logOutVars, serverVars>>

LogOut(c) ==
    LogOff(c) \/ FallAsleep(c) \/ ListDestroy(c) \/ BufferDestroy(c) \/ CondDestroy(c)
-----------------------------------------------------------------------------
Runnable == Server \/ \E c \in Clients : Main(c) \/ Worker(c) \/ LogOut(c)

Next ==
    \/ \E o \in Outsiders : Arrive(o) \/ Depart(o)
    \/ \E c \in Clients : Interrupt(c)
    \/ Runnable

Spec == Init /\ [][Next]_vars

\* While a thread or the server can run, one of them does.  Nobody has to come,
\* to go or to press a key.
FairSpec == Spec /\ WF_vars(Runnable)
-----------------------------------------------------------------------------
(***************************************************************************)
(* The values of the variables.  About both threads pushing into a buffer  *)
(* with room for Capacity records.                                         *)
(***************************************************************************)
TypeOK ==
    /\ main \in [Clients -> MainPCs]
    /\ request \in [Clients -> Requests \cup {Nothing}]
    /\ worker \in [Clients -> WorkerPCs]
    /\ record \in [Clients -> Records \cup {Nothing}]
    /\ files \in [Clients -> Nat]
    /\ answer \in [Clients -> Answers \cup {Nothing}]
    /\ \A c \in Clients : buffer[c] \in Seq(Records) /\ Len(buffer[c]) <= Capacity
    /\ others \in [Clients -> [Peer -> Nat]]
    /\ lost \in [Clients -> BOOLEAN]
    /\ leaked \in [Clients -> BOOLEAN]
    /\ \A c \in Clients : inbox[c] \in Seq(Requests) /\ Len(inbox[c]) <= Backlog
    /\ interrupted \in [Clients -> MainPCs \cup {Nothing}]
    /\ quiet \in [Clients -> BOOLEAN]
    /\ touched \in [Clients -> BOOLEAN]
    /\ server \in [up : BOOLEAN, notice : Notices \cup {Nothing}, to : SUBSET Clients,
                   with : Clients \cup {Nothing}]
    /\ log_offs \subseteq Clients
    /\ online \subseteq Peer
    /\ events \in [notices : Nat, log_outs : Nat]

(***************************************************************************)
(* What a thread waits for: another one, or itself when only it could end  *)
(* the wait or nobody can.                                                 *)
(***************************************************************************)
Threads == Clients \X {"main", "worker"}

WaitsFor(c, thread) ==
    CASE thread = "worker" /\ worker[c] = "read" /\ answer[c] = Nothing
              /\ record[c].client \in Clients /\ Runs(record[c].client)
                                              -> {<<record[c].client, "main">>}
      [] thread = "worker" /\ worker[c] = "push" /\ Full(c) /\ ~Cancelled(c)
                                              -> {<<c, "worker">>}
      [] thread = "worker" /\ worker[c] = "mutex"           -> {<<c, "worker">>}
      [] thread = "main" /\ main[c] = "push" /\ Full(c)     -> {<<c, "worker">>}
      [] thread = "main" /\ main[c] \in {"mutex", "asleep"} -> {<<c, "main">>}
      [] thread = "main" /\ main[c] = "serve" /\ request[c].kind = "SILENT"
              /\ Runs(request[c].from)                      -> {<<request[c].from, "main">>}
      [] OTHER -> {}

Waits(c, thread) == WaitsFor(c, thread) # {}

\* Threads that wait for one another in a circle, or for such a circle.
Doomed(c, thread) ==
    /\ Waits(c, thread)
    /\ \E S \in SUBSET Threads :
          /\ <<c, thread>> \in S
          /\ \A t \in S : Waits(t[1], t[2]) /\ WaitsFor(t[1], t[2]) \subseteq S

(***************************************************************************)
(* Once nobody comes or goes any more, every worker is back at the buffer, *)
(* every main thread at its select and every log_out at its end, except    *)
(* threads that wait for one another in a circle: workers whose peers'     *)
(* main threads push into full buffers, a mutex nobody gives back, a       *)
(* log_out that waits for itself.  So every request gets its answer or its *)
(* end, whoever logs out or dies before it is served, and log_out ends     *)
(* whatever the worker does and whichever mutex is leaked, unless it       *)
(* interrupted main in a push or while it served a request.                *)
(***************************************************************************)
ThreadsComeBack ==
    <>[](\A c \in Clients :
            /\ worker[c] \in {"pop", "gone"} \/ Doomed(c, "worker")
            /\ main[c] \in {"select", "exit"} \/ Doomed(c, "main"))

(***************************************************************************)
(* log_out frees the list and the buffer without joining the worker.  When *)
(* the worker was waiting for a record, it does not use them again.        *)
(***************************************************************************)
IdleLogOutIsClean == \A c \in Clients : quiet[c] => ~touched[c]
=============================================================================
