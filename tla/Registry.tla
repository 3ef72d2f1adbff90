------------------------------ MODULE Registry ------------------------------
(***************************************************************************)
(* Who knows whom: the server's list of connected clients, and the list    *)
(* each client keeps of the others.  A client connects to the server,      *)
(* sends LOG_ON and GET_CLIENTS on that connection and waits for           *)
(* CLIENT_LIST; later, on new connections, it gets USER_ON and USER_OFF    *)
(* from the server and sends LOG_OFF when it is interrupted.               *)
(*                                                                         *)
(* The server is one thread: select, then the new connection, then the     *)
(* listed connections.  Each connect and each send of its notification     *)
(* loops is a step.  A client is its main thread, its workers (as far as   *)
(* they touch the buffer and the list) and its signal handler.  A record   *)
(* in a buffer is the tuple it is about: whether it asks for the list of   *)
(* files or for one file is not told apart here, nor what the answer is.   *)
(***************************************************************************)
EXTENDS Naturals, Sequences, FiniteSets, ListOps

CONSTANTS
    Clients,        \* clients, and their (ip, port) tuples
    Capacity,       \* records a client's buffer holds: option -b, less one
    WorkerThreads,  \* option -w
    FreedNext,      \* outcomes of reading a freed list node, see ListOps
    DoubleSignals,  \* is a second signal sent while log_out runs?
    MaxStarts,      \* bound: how many client processes are started
    MaxCrashes,     \* bound: how many client processes are killed
    Junk,           \* a tuple read from bytes nobody wrote
    NoSocket,       \* socket_fd = -1
    Dead,           \* a socket of a notice, that stays open when connect or send fails
    Listening,      \* the server's own socket
    Nobody          \* no tuple

Tuples   == Clients \cup {Junk}
Sockets  == Clients \X (1 .. MaxStarts)     \* the connection of a session

ASSUME RegistryAssumption ==
    /\ Capacity \in Nat /\ WorkerThreads \in Nat
    /\ MaxStarts \in Nat \ {0} /\ MaxCrashes \in Nat
    /\ FreedNext \subseteq {"old", "null", "wild"}
    /\ DoubleSignals \in BOOLEAN
    /\ Junk \notin Clients /\ Nobody \notin Tuples
    /\ {NoSocket, Dead, Listening} \cap Sockets = {}

VARIABLES
    \* The server.
    connected_clients,  \* its list, of entries [tuple, socket]
    absent,             \* history: a LOG_OFF came from a client that is not listed
    set,                \* what select reported readable
    server,             \* where the server is
    backlog,            \* connections not accepted yet, with their request
    \* The clients.
    pc,                 \* where the main thread is
    session,            \* how often the client was started
    clients,            \* its list of tuples
    leaked,             \* list_find_element kept the list's mutex
    received,           \* entries of CLIENT_LIST that are still to be added
    pushing,            \* the record main waits to push, or Nobody
    buffer,             \* the records in the shared buffer
    blocked,            \* how many workers wait for the leaked mutex
    asking,             \* the clients that workers are asking for files
    inbox,              \* connections to the client, with their request
    starts, crashes     \* how many client processes were started and killed

serverVars == <<connected_clients, absent, set, server, backlog>>
clientVars == <<pc, session, clients, leaked, received, pushing, buffer, blocked,
                asking, inbox, starts, crashes>>
vars       == <<serverVars, clientVars>>

Entries == [tuple : Clients, socket : Sockets \cup {NoSocket, Dead}]
Notices == [kind : {"USER_ON", "USER_OFF"}, tuple : Clients]

\* The server is in select; in the loop that sends `notice' to the entries from
\* `next' on, for a LOG_ON with the connection `socket'; there, connected with
\* process `to'; in the loop over the entries from `next' on; or dead.
ServerStates ==
    [at : {"select", "accept", "down"}]
        \cup [at : {"notify"}, next : Nat, notice : Notices, socket : Sockets \cup {NoSocket}]
        \cup [at : {"send"}, next : Nat, notice : Notices, socket : Sockets \cup {NoSocket},
              to : Clients \X (0 .. MaxStarts)]
        \cup [at : {"serve"}, next : Nat]

Down == [at |-> "down"]
Serve(i) == [at |-> "serve", next |-> i]
Notify(kind, c, socket) ==
    [at |-> "notify", next |-> 1, notice |-> [kind |-> kind, tuple |-> c], socket |-> socket]

Notifying == server.at \in {"notify", "send"}

ring == connected_clients.ring

\* The loop is connected with the process of c that runs now, or goes on.
Sending(c) ==
    [at |-> "send", next |-> server.next, notice |-> server.notice,
     socket |-> server.socket, to |-> <<c, session[c]>>]
GoOn ==
    [at |-> "notify", next |-> server.next + 1, notice |-> server.notice,
     socket |-> server.socket]

\* The list when the entry the loop is at has this socket.
WithSocket(socket) == [connected_clients EXCEPT !.ring[server.next].socket = socket]

\* Processes that exist and accept connections.
Alive(c)   == pc[c] \in {"wait", "load", "run", "stuck"}
\* create_threads and register_handlers have been called.
Started(c) == pc[c] \in {"run", "stuck"}

Init ==
    /\ connected_clients = list_create
    /\ absent = FALSE
    /\ set = {}
    /\ server = [at |-> "select"]
    /\ backlog = <<>>
    /\ pc = [c \in Clients |-> "off"]
    /\ session = [c \in Clients |-> 0]
    /\ clients = [c \in Clients |-> list_create]
    /\ leaked = [c \in Clients |-> FALSE]
    /\ received = [c \in Clients |-> <<>>]
    /\ pushing = [c \in Clients |-> Nobody]
    /\ buffer = [c \in Clients |-> <<>>]
    /\ blocked = [c \in Clients |-> 0]
    /\ asking = [c \in Clients |-> <<>>]
    /\ inbox = [c \in Clients |-> <<>>]
    /\ starts = 0
    /\ crashes = 0
-----------------------------------------------------------------------------
(* The server: main, handle_incoming_requests and the handlers. *)

\* Mutant: only the server's own socket is in the set.
Select_listening ==
    /\ server.at = "select"
    /\ set' = IF backlog = <<>> THEN {} ELSE {Listening}
    /\ set' # {}
    /\ server' = [at |-> "accept"]
    /\ UNCHANGED <<connected_clients, absent, backlog, clientVars>>

\* A listed connection is readable at once: GET_CLIENTS has been sent on it.
\* A dead socket is readable too, and reading it yields nothing to handle.
Select ==
    /\ server.at = "select"
    /\ set' = ({ring[i].socket : i \in 1 .. Len(ring)} \ {NoSocket, Dead})
                 \cup (IF backlog = <<>> THEN {} ELSE {Listening})
    /\ set' # {}
    /\ server' = IF Listening \in set' THEN [at |-> "accept"] ELSE Serve(1)
    /\ UNCHANGED <<connected_clients, absent, backlog, clientVars>>

(***************************************************************************)
(* handle_log_on_request.  list_element_exists is given the address of a   *)
(* pointer, so it compares tuples with the bytes of a pointer and never    *)
(* finds the client: the request is not refused when it is listed already. *)
(***************************************************************************)
AcceptLogOn ==
    /\ server.at = "accept"
    /\ backlog[1].kind = "LOG_ON"
    /\ server' = Notify("USER_ON", backlog[1].tuple, backlog[1].socket)
    /\ backlog' = Tail(backlog)
    /\ UNCHANGED <<connected_clients, absent, set, clientVars>>

\* handle_log_off_request removes one entry of the client, whatever its socket.
EntryTuples == [ring |-> [i \in 1 .. Len(ring) |-> ring[i].tuple],
                size |-> connected_clients.size]

\* Mutant: connected_client_equals compares the IPs alone.
EntryToRemove_by_ip(c) == IF ring # <<>> THEN ring[1] ELSE Nobody

EntryToRemove(c) == IF Present(EntryTuples.ring, c)
                    THEN ring[FirstIndex(EntryTuples.ring, c)] ELSE Nobody

AcceptLogOff ==
    /\ server.at = "accept"
    /\ backlog[1].kind = "LOG_OFF"
    /\ LET c == backlog[1].tuple
           entry == EntryToRemove(c)
       IN  \/ /\ \/ RemoveCrashes(connected_clients)
                 \/ RemoveGoesWild(connected_clients, entry, FreedNext)
              /\ server' = Down
              /\ UNCHANGED connected_clients
           \/ /\ ~RemoveCrashes(connected_clients)
              /\ connected_clients' \in list_remove(connected_clients, entry, FreedNext)
              /\ server' = Notify("USER_OFF", c, NoSocket)
    /\ absent' = (absent \/ (~Lost(connected_clients)
                                /\ ~Present(EntryTuples.ring, backlog[1].tuple)))
    /\ backlog' = Tail(backlog)
    /\ UNCHANGED <<set, clientVars>>

\* Mutant: the loop ends at the first client that cannot be reached.
NotifyNext_gives_up ==
    /\ server.at = "notify"
    /\ server.next <= Len(ring)
    /\ LET c == ring[server.next].tuple IN
       server' = IF Alive(c) THEN Sending(c) ELSE [server EXCEPT !.next = Len(ring) + 1]
    /\ connected_clients' = WithSocket(Dead)
    /\ UNCHANGED <<absent, set, backlog, clientVars>>

\* One round of a notification loop: connect to the entry's tuple.  The new
\* socket takes the place of the one the entry had.
NotifyNext ==
    /\ server.at = "notify"
    /\ server.next <= Len(ring)
    /\ LET c == ring[server.next].tuple IN
       server' = IF Alive(c) THEN Sending(c) ELSE GoOn
    /\ connected_clients' = WithSocket(Dead)
    /\ UNCHANGED <<absent, set, backlog, clientVars>>

(***************************************************************************)
(* The send, after which the socket is closed.  When the process has ended *)
(* since the connect, both writes may go unnoticed, one of them may fail,  *)
(* which leaves the socket, or the second one raises SIGPIPE.              *)
(***************************************************************************)
NotifySend ==
    /\ server.at = "send"
    /\ LET c == ring[server.next].tuple IN
       IF Alive(c) /\ server.to = <<c, session[c]>>
       THEN /\ inbox' = [inbox EXCEPT ![c] = Append(@, server.notice)]
            /\ connected_clients' = WithSocket(NoSocket)
            /\ server' = GoOn
       ELSE /\ connected_clients' \in {WithSocket(NoSocket), WithSocket(Dead)}
            /\ server' \in {GoOn, Down}
            /\ UNCHANGED inbox
    /\ UNCHANGED <<absent, set, backlog, pc, session, clients, leaked, received, pushing,
                   buffer, blocked, asking, starts, crashes>>

NotifyDone ==
    /\ server.at = "notify"
    /\ server.next > Len(ring)
    /\ IF server.notice.kind = "USER_OFF"
       THEN server' = Serve(1) /\ UNCHANGED connected_clients
       ELSE IF RpushCrashes(connected_clients)
       THEN server' = Down /\ UNCHANGED connected_clients
       ELSE /\ connected_clients' = list_rpush(connected_clients,
                   [tuple |-> server.notice.tuple, socket |-> server.socket])
            /\ server' = Serve(1)
    /\ UNCHANGED <<absent, set, backlog, clientVars>>

\* The entries the loop over the list still has to serve.
ToServe == {i \in server.next .. Len(ring) : ring[i].socket \in set}

\* The tuples of all entries but the receiver's, in their order.
TuplesBut(receiver) ==
    LET others[i \in 0 .. Len(ring)] ==
            IF i = 0 THEN <<>>
            ELSE IF ring[i].tuple = receiver THEN others[i - 1]
            ELSE Append(others[i - 1], ring[i].tuple)
    IN  others[Len(ring)]

(***************************************************************************)
(* create_client_list_request: the size field says how many tuples the     *)
(* answer has; the tuples are those of all entries but the receiver's.     *)
(* When there are fewer, the rest is what malloc returned.                 *)
(***************************************************************************)
ClientList(receiver) ==
    LET others == TuplesBut(receiver)
    IN  [i \in 1 .. connected_clients.size - 1 |->
            IF i <= Len(others) THEN others[i] ELSE Junk]

(***************************************************************************)
(* handle_get_clients_request, up to the client that reads the answer.  A  *)
(* client that was killed does not: writing the body to it may raise       *)
(* SIGPIPE, which nobody handles.                                          *)
(***************************************************************************)
ServeGetClients ==
    /\ server.at = "serve"
    /\ ToServe # {}
    /\ LET i == Min(ToServe)
           c == ring[i].tuple
           reads == pc[c] = "wait" /\ ring[i].socket = <<c, session[c]>>
       IN  /\ connected_clients' = [connected_clients EXCEPT !.ring[i].socket = NoSocket]
           /\ IF reads
              THEN /\ pc' = [pc EXCEPT ![c] = "load"]
                   /\ received' = [received EXCEPT ![c] = ClientList(c)]
              ELSE UNCHANGED <<pc, received>>
           /\ server' \in {Serve(i + 1)} \cup IF reads THEN {} ELSE {Down}
    /\ UNCHANGED <<absent, set, backlog, session, clients, leaked, pushing, buffer, blocked,
                   asking, inbox, starts, crashes>>

ServeDone ==
    /\ server.at = "serve"
    /\ ToServe = {}
    /\ server' = [at |-> "select"]
    /\ set' = {}
    /\ UNCHANGED <<connected_clients, absent, backlog, clientVars>>

Server == \/ Select \/ AcceptLogOn \/ AcceptLogOff \/ NotifyNext \/ NotifySend
          \/ NotifyDone \/ ServeGetClients \/ ServeDone
-----------------------------------------------------------------------------
(* A client. *)

\* main up to the read in get_other_clients_from_server.  The server may be
\* down, or the requests lie in its socket until it accepts and reads them.
Start(c) ==
    /\ pc[c] \in {"off", "segv"}
    /\ starts < MaxStarts
    /\ server # Down
    /\ starts' = starts + 1
    /\ session' = [session EXCEPT ![c] = @ + 1]
    /\ pc' = [pc EXCEPT ![c] = "wait"]
    /\ backlog' = Append(backlog, [kind |-> "LOG_ON", tuple |-> c,
                                   socket |-> <<c, session'[c]>>])
    /\ UNCHANGED <<connected_clients, absent, set, server, clients, leaked, received,
                   pushing, buffer, blocked, asking, inbox, crashes>>

\* The connection to a dead server reads as an empty CLIENT_LIST.
ServerGone(c) ==
    /\ server = Down
    /\ pc[c] = "wait"
    /\ pc' = [pc EXCEPT ![c] = "load"]
    /\ UNCHANGED <<serverVars, session, clients, leaked, received, pushing, buffer,
                   blocked, asking, inbox, starts, crashes>>

\* Mutant: main does not wait for room.
Push_without_waiting(c, tuple) ==
    /\ buffer' = [buffer EXCEPT ![c] = Append(@, tuple)]
    /\ pushing' = [pushing EXCEPT ![c] = Nobody]

\* shared_buffer_push by the main thread, which waits when there is no room.
Push(c, tuple) ==
    IF Len(buffer[c]) < Capacity
    THEN /\ buffer' = [buffer EXCEPT ![c] = Append(@, tuple)]
         /\ pushing' = [pushing EXCEPT ![c] = Nobody]
    ELSE /\ pushing' = [pushing EXCEPT ![c] = tuple]
         /\ UNCHANGED buffer

PushOn(c) ==
    /\ Alive(c)
    /\ pushing[c] # Nobody
    /\ Len(buffer[c]) < Capacity
    /\ Push(c, pushing[c])
    /\ UNCHANGED <<serverVars, pc, session, clients, leaked, received, blocked,
                   asking, inbox, starts, crashes>>

\* A round of the loop of add_clients_to_list_and_buffer.  No worker runs yet.
AddClient(c) ==
    /\ pc[c] = "load"
    /\ pushing[c] = Nobody
    /\ received[c] # <<>>
    /\ clients' = [clients EXCEPT ![c] = list_rpush(@, Head(received[c]))]
    /\ Push(c, Head(received[c]))
    /\ received' = [received EXCEPT ![c] = Tail(@)]
    /\ UNCHANGED <<serverVars, pc, session, leaked, blocked, asking, inbox, starts,
                   crashes>>

\* create_threads and register_handlers.
StartThreads(c) ==
    /\ pc[c] = "load"
    /\ pushing[c] = Nobody
    /\ received[c] = <<>>
    /\ pc' = [pc EXCEPT ![c] = "run"]
    /\ UNCHANGED <<serverVars, session, clients, leaked, received, pushing, buffer,
                   blocked, asking, inbox, starts, crashes>>

\* The main loop accepts a connection and reads its request.
Reads(c, kind) ==
    /\ pc[c] = "run"
    /\ pushing[c] = Nobody
    /\ inbox[c] # <<>>
    /\ Head(inbox[c]).kind = kind
    /\ inbox' = [inbox EXCEPT ![c] = Tail(@)]
    /\ UNCHANGED <<serverVars, session, received, blocked, asking, starts, crashes>>

\* A list operation of the main thread while the mutex is leaked.
MainBlocks(c) ==
    /\ pc' = [pc EXCEPT ![c] = "stuck"]
    /\ UNCHANGED <<clients, pushing, buffer>>

\* Mutant: list_rpush does not take the mutex.
UserOn_unlocked(c) ==
    /\ Reads(c, "USER_ON")
    /\ ~RpushCrashes(clients[c])
    /\ LET tuple == Head(inbox[c]).tuple IN
       /\ clients' = [clients EXCEPT ![c] = list_rpush(@, tuple)]
       /\ Push(c, tuple)
    /\ UNCHANGED <<pc, leaked>>

\* handle_user_on_request: its check for a client it knows misses, see AcceptLogOn.
UserOn(c) ==
    /\ Reads(c, "USER_ON")
    /\ LET tuple == Head(inbox[c]).tuple IN
       IF leaked[c]
       THEN MainBlocks(c)
       ELSE /\ ~RpushCrashes(clients[c])
            /\ clients' = [clients EXCEPT ![c] = list_rpush(@, tuple)]
            /\ Push(c, tuple)
            /\ UNCHANGED pc
    /\ UNCHANGED leaked

(***************************************************************************)
(* handle_user_off_request: list_find_element, then list_remove of what it *)
(* returned.  On an empty list the first keeps the mutex the second wants; *)
(* for an unknown client the second gets a null pointer, see Segfault.     *)
(***************************************************************************)
UserOff(c) ==
    /\ Reads(c, "USER_OFF")
    /\ LET tuple == Head(inbox[c]).tuple IN
       IF leaked[c] \/ clients[c].ring = <<>>
       THEN /\ MainBlocks(c)
            /\ leaked' = [leaked EXCEPT ![c] = TRUE]
       ELSE /\ Present(clients[c].ring, tuple)
            /\ \E l \in list_remove(clients[c], tuple, FreedNext) :
                  clients' = [clients EXCEPT ![c] = l]
            /\ UNCHANGED <<pc, leaked, pushing, buffer>>

\* Mutant: list_find_element keeps the mutex whenever it finds nothing.
Work_leaks_more(c) ==
    /\ Started(c)
    /\ buffer[c] # <<>>
    /\ blocked[c] + Len(asking[c]) < WorkerThreads
    /\ buffer' = [buffer EXCEPT ![c] = Tail(@)]
    /\ blocked' = [blocked EXCEPT ![c] = IF leaked[c] THEN @ + 1 ELSE @]
    /\ asking' = [asking EXCEPT ![c] =
          IF ~leaked[c] /\ Present(clients[c].ring, Head(buffer[c]))
          THEN Append(@, Head(buffer[c])) ELSE @]
    /\ leaked' = [leaked EXCEPT ![c] = @ \/ ~Present(clients[c].ring, Head(buffer[c]))]
    /\ UNCHANGED <<serverVars, pc, session, clients, received, pushing, inbox, starts, crashes>>

\* A worker pops a record and looks its client up: it hangs on the mutex, drops
\* the record, or asks the client.
Work(c) ==
    /\ Started(c)
    /\ buffer[c] # <<>>
    /\ blocked[c] + Len(asking[c]) < WorkerThreads
    /\ buffer' = [buffer EXCEPT ![c] = Tail(@)]
    /\ blocked' = [blocked EXCEPT ![c] = IF leaked[c] THEN @ + 1 ELSE @]
    /\ asking' = [asking EXCEPT ![c] =
          IF ~leaked[c] /\ Present(clients[c].ring, Head(buffer[c]))
          THEN Append(@, Head(buffer[c])) ELSE @]
    /\ leaked' = [leaked EXCEPT ![c] = @ \/ clients[c].ring = <<>>]
    /\ UNCHANGED <<serverVars, pc, session, clients, received, pushing, inbox, starts, crashes>>

(***************************************************************************)
(* The worker that asks client asking[c][i] reads without a timeout, and   *)
(* pushes the files of a FILE_LIST, as many as there are, waiting for room *)
(* like main.  It comes back when the answer is handled, if it ever is.    *)
(***************************************************************************)
PushFiles(c) ==
    /\ Started(c)
    /\ Len(buffer[c]) < Capacity
    /\ \E i \in 1 .. Len(asking[c]) :
          buffer' = [buffer EXCEPT ![c] = Append(@, asking[c][i])]
    /\ UNCHANGED <<serverVars, pc, session, clients, leaked, received, pushing, blocked,
                   asking, inbox, starts, crashes>>

ComeBack(c) ==
    /\ Started(c)
    /\ \E i \in 1 .. Len(asking[c]) :
          asking' = [asking EXCEPT ![c] = Without(@, i)]
    /\ UNCHANGED <<serverVars, pc, session, clients, leaked, received, pushing, buffer,
                   blocked, inbox, starts, crashes>>

Worker(c) == Work(c) \/ PushFiles(c) \/ ComeBack(c)

\* The process ends: connections to it are refused or reset.
Exit(c, how) ==
    /\ pc' = [pc EXCEPT ![c] = how]
    /\ clients' = [clients EXCEPT ![c] = list_create]
    /\ leaked' = [leaked EXCEPT ![c] = FALSE]
    /\ received' = [received EXCEPT ![c] = <<>>]
    /\ pushing' = [pushing EXCEPT ![c] = Nobody]
    /\ buffer' = [buffer EXCEPT ![c] = <<>>]
    /\ blocked' = [blocked EXCEPT ![c] = 0]
    /\ asking' = [asking EXCEPT ![c] = <<>>]
    /\ inbox' = [inbox EXCEPT ![c] = <<>>]
    /\ UNCHANGED <<connected_clients, absent, set, server, session>>

\* The main thread is about to call list_remove with a null pointer.
RemovesNull(c) ==
    /\ pc[c] = "run" /\ pushing[c] = Nobody /\ ~leaked[c]
    /\ inbox[c] # <<>>
    /\ Head(inbox[c]).kind = "USER_OFF"
    /\ clients[c].ring # <<>>
    /\ ~Present(clients[c].ring, Head(inbox[c]).tuple)

\* The main thread follows a null or wild pointer in one of the two handlers.
Segfault(c) ==
    /\ pc[c] = "run" /\ pushing[c] = Nobody /\ ~leaked[c]
    /\ inbox[c] # <<>>
    /\ LET notice == Head(inbox[c]) IN
       \/ notice.kind = "USER_ON" /\ RpushCrashes(clients[c])
       \/ notice.kind = "USER_OFF" /\ RemoveGoesWild(clients[c], notice.tuple, FreedNext)
       \/ RemovesNull(c)
    /\ Exit(c, "segv")
    /\ UNCHANGED <<backlog, starts, crashes>>

(***************************************************************************)
(* log_out, the handler of SIGINT and SIGQUIT, interrupts the main thread  *)
(* wherever it is.  Each of the two signals can interrupt the other's run. *)
(***************************************************************************)
LogOut(c) ==
    LET log_off == [kind |-> "LOG_OFF", tuple |-> c, socket |-> NoSocket] IN
    /\ Started(c)
    /\ backlog' \in IF server = Down THEN {backlog}
                    ELSE {Append(backlog, log_off)}
                         \cup IF DoubleSignals THEN {backlog \o <<log_off, log_off>>} ELSE {}
    /\ Exit(c, "off")
    /\ UNCHANGED <<starts, crashes>>

\* Killed: by another signal, or by SIGINT before register_handlers.
Crash(c) ==
    /\ Alive(c)
    /\ crashes < MaxCrashes
    /\ crashes' = crashes + 1
    /\ Exit(c, "off")
    /\ UNCHANGED <<backlog, starts>>

Main(c) == \/ ServerGone(c) \/ AddClient(c) \/ StartThreads(c) \/ PushOn(c)
           \/ UserOn(c) \/ UserOff(c) \/ Segfault(c)

Next ==
    \/ Server
    \/ \E c \in Clients : Start(c) \/ Main(c) \/ Worker(c) \/ LogOut(c) \/ Crash(c)

Spec == Init /\ [][Next]_vars

(***************************************************************************)
(* The server and the clients' main threads are scheduled.  Nobody has to  *)
(* start or stop a client, and a worker may wait for ever: for a peer's    *)
(* answer, or for room for its files.                                      *)
(***************************************************************************)
FairSpec ==
    /\ Spec
    /\ WF_vars(Server)
    /\ \A c \in Clients : WF_vars(Main(c))
-----------------------------------------------------------------------------
Bounded(s, S) == \A i \in 1 .. Len(s) : s[i] \in S

TypeOK ==
    /\ Bounded(ring, Entries) /\ connected_clients.size \in Nat
    /\ set \subseteq Sockets \cup {Listening}
    /\ server \in ServerStates /\ absent \in BOOLEAN
    /\ Bounded(backlog, [kind : {"LOG_ON", "LOG_OFF"}, tuple : Clients,
                         socket : Sockets \cup {NoSocket}])
    /\ pc \in [Clients -> {"off", "wait", "load", "run", "stuck", "segv"}]
    /\ session \in [Clients -> 0 .. MaxStarts]
    /\ leaked \in [Clients -> BOOLEAN]
    /\ pushing \in [Clients -> Tuples \cup {Nobody}]
    /\ blocked \in [Clients -> 0 .. WorkerThreads]
    /\ starts \in 0 .. MaxStarts /\ crashes \in 0 .. MaxCrashes
    /\ \A c \in Clients :
          /\ Bounded(clients[c].ring, Tuples) /\ clients[c].size \in Nat
          /\ Bounded(received[c], Tuples)
          /\ Bounded(buffer[c], Tuples) /\ Len(buffer[c]) <= Capacity
          /\ Bounded(asking[c], Tuples) /\ blocked[c] + Len(asking[c]) <= WorkerThreads
          /\ Bounded(inbox[c], Notices)

(***************************************************************************)
(* Every LOG_OFF that reaches a list with a head finds an entry of its     *)
(* client to remove, so that the size, which sizes CLIENT_LIST, is counted *)
(* down for an entry that goes: also after clients were killed, listed     *)
(* twice and started again, and whatever the freed head gave.  It holds    *)
(* when log_out is not interrupted by the second signal, which sends a     *)
(* second LOG_OFF.                                                         *)
(***************************************************************************)
LogOffFindsEntry == ~absent

\* How often a tuple occurs.
Times(s, t) == Cardinality({i \in 1 .. Len(s) : s[i] = t})

\* The clients that client c will know of when it has handled what it was sent.
Replay(c, t) ==
    LET notices(kind) == Times(inbox[c], [kind |-> kind, tuple |-> t])
    IN  Times(clients[c].ring, t) + Times(received[c], t)
            + notices("USER_ON") - notices("USER_OFF")

\* Those the server has told it of: the loop may not have come to c yet.
Told(c, t) ==
    LET told == \E i \in 1 .. server.next - 1 : ring[i].tuple = c
    IN  Times(EntryTuples.ring, t)
          + (IF Notifying /\ server.notice.tuple = t
             THEN CASE server.notice.kind = "USER_ON" /\ told -> 1
                    [] server.notice.kind = "USER_OFF" /\ ~told -> 1
                    [] OTHER -> 0
             ELSE 0)

(***************************************************************************)
(* A client that got its CLIENT_LIST knows of the others exactly what the  *)
(* server does, once the notices under way to it are counted: no client    *)
(* that logs on or off falls between the answer and the first notice, and  *)
(* none is lost to a client that dies.  Three things are excepted.  A list *)
(* whose head was lost when its first entry was freed holds nothing any    *)
(* more.  A second LOG_OFF of a client, when both signals come, is         *)
(* announced again.  And a second process on a port can get the notices    *)
(* meant for the first, and, when the first was killed and is still        *)
(* listed, every notice twice.                                             *)
(***************************************************************************)
ViewsAgree ==
    server # Down /\ ~Lost(connected_clients) /\ ~absent =>
        \A c \in Clients :
            (pc[c] \in {"load", "run"} /\ session[c] = 1 /\ ~Lost(clients[c])) =>
                \A t \in Tuples \ {c} : Replay(c, t) = Told(c, t)

\* The server holds the connection c waits on, or finds it in its backlog.
Held(c) ==
    LET connection == <<c, session[c]>> IN
    \/ \E i \in 1 .. Len(backlog) : backlog[i].socket = connection
    \/ Notifying /\ server.socket = connection
    \/ \E i \in 1 .. Len(ring) : ring[i].socket = connection

\* The server has put another socket in the place of the connection c waits on.
Overtaken(c) ==
    /\ pc[c] = "wait" /\ server # Down /\ ~Held(c)
    /\ Present(EntryTuples.ring, c)

\* main waits for room in the buffer before there is a worker to make any.
HangsAtStart(c) == pc[c] = "load" /\ pushing[c] # Nobody

(***************************************************************************)
(* A client that logs on comes to serve others, or is overtaken: the       *)
(* connect of a notice to it replaced its connection before GET_CLIENTS    *)
(* was read.  Or the server lost its list on a freed head, with the        *)
(* connection, or the buffer is too small for the clients it was sent.     *)
(***************************************************************************)
LogOnCompletes ==
    \A c \in Clients :
        pc[c] = "wait" ~> \/ pc[c] \notin {"wait", "load"}
                         \/ Overtaken(c) \/ Lost(connected_clients) \/ HangsAtStart(c)

(***************************************************************************)
(* While the main thread of a running client waits for room in the buffer, *)
(* no worker is lost to the mutex that list_find_element keeps: its list   *)
(* is not empty, so that none of them leaks it, and if main hangs there,   *)
(* it is because every worker waits for a peer or for room.                *)
(***************************************************************************)
PushersHaveWorkers ==
    \A c \in Clients :
        pc[c] = "run" /\ pushing[c] # Nobody => ~leaked[c] /\ blocked[c] = 0

(***************************************************************************)
(* A main thread or a worker waits for the leaked mutex only in a client   *)
(* whose list is empty, and which therefore asks nobody for files again.   *)
(***************************************************************************)
HungKnowsNobody ==
    \A c \in Clients :
        pc[c] = "stuck" \/ blocked[c] > 0 => leaked[c] /\ clients[c].ring = <<>>

(***************************************************************************)
(* `__NON_NULL__(1, 2) void list_remove(list *list, void *data);'          *)
(* (generic_multithreaded_list.h): handle_user_off_request passes on what  *)
(* list_find_element returned, so it has to find the client.               *)
(***************************************************************************)
RemoveGetsData == \A c \in Clients : ~RemovesNull(c)
=============================================================================
