# A specification of dropbox_server and dropbox_client

The program is a small peer-to-peer file sharing system in C. One server keeps
the list of clients that are logged on. Each client copies the files of all the
others. This directory holds TLA+ modules that model it, TLC configurations
that check them, and proofs that TLAPS checks. Paths below are relative to
`src/`.

## 1. The system

| Part | State | Operations | Source |
|---|---|---|---|
| Shared buffer | ring `info_table`, `left`, `right`, mutex, two condition variables | `shared_buffer_push`, `shared_buffer_pop` | `shared_client_buffer.c` |
| List | ring of nodes, `head`, `size`, mutex | `list_rpush`, `list_remove`, `list_element_exists`, `list_find_element`, `list_destroy` | `generic_multithreaded_list.c` |
| Server | list of `connected_client` (tuple and socket), `fd_set` | LOG_ON, GET_CLIENTS, LOG_OFF in a `select` loop | `server/server.c`, `common/common_utils.c` |
| Client, main thread | the list of the others, the buffer | start-up (LOG_ON, GET_CLIENTS, CLIENT_LIST), USER_ON, USER_OFF, GET_FILE_LIST, GET_FILE in the same `select` loop | `client/client.c`, `common/common_utils.c` |
| Client, workers | the record they popped | ask a client for its file list, or for one file | `client/client.c` 96-234 |
| Client, signal handler | - | `log_out`: LOG_OFF, cancel the workers, destroy list and buffer | `client/client.c` 34-57 |
| Requests and sockets | - | build, send and read messages | `requests.c`, `socket/ipv4_socket.c` |
| Files | the local copies | hash, directory walk, `create_directory` | `common/file_utils.c` |
| Options | - | parse numbers, narrow them to 16 bits | `*/..._utils.c`, `common/string_utils.c` |

How they interact:

- A client connects to the server and sends LOG_ON and then GET_CLIENTS on that
  connection. The server tells every listed client (USER_ON, one new connection
  each), lists the newcomer with its connection, and answers GET_CLIENTS in a
  later part of its loop. LOG_OFF and USER_OFF work alike.
- The main thread of a client pushes a record (a client, no file) for each client
  it learns of. A worker pops it, looks the client up in the list, fetches its
  file list and pushes a record for each file; a worker that pops such a record
  fetches the file. So the workers are consumers and producers of one buffer.
- The list is shared: main changes it, workers search it.

What is hard here:

- threads: condition variables with one signal per operation, a pointer that is
  used after the slot it points to was released, a mutex kept on an error path,
  producers that are the only consumers;
- ordering: CLIENT_LIST against the notices of those who come and go meanwhile,
  on different connections;
- waiting: a main thread that waits for room in its buffer serves nobody, and
  the workers of its peers wait for it;
- failure: killed clients, a second process on the port of the first, dead
  sockets, two signals, messages that arrive in pieces, accept queues that fill;
- memory: a freed node that is read again; a list and a buffer that `log_out`
  frees under threads it cancels and does not join.

`PROJECT.json` lists each of these at its line under `hazards`.

What makes each part correct:

- *buffer*: it is a bounded FIFO queue; a popped record does not change; no
  thread sleeps beside work it could do;
- *list*: it is a sequence; its links and size fit; a call returns;
- *server and clients*: each client knows who is logged on; a client that logs
  on is served; threads do not hang; list calls get what they are declared to get;
- *file transfer*: what a client stores is what the peer had; an idle client has
  copied everything; a worker survives its peer; "up to date" means it;
- *threads of the clients*: each comes back to where it takes its next work;
  `log_out` ends, and what it frees is not used again;
- *messages*: what is received is what was sent, or a part that is not mistaken
  for something else; who is announced can be reached.

## 2. The modules

| Module | What it is |
|---|---|
| `BoundedQueue` | abstract: a FIFO queue that hands records out by value |
| `SharedBuffer` | the buffer, its threads and critical sections |
| `SharedBufferProofs` | theorems about it |
| `SequenceList` | abstract: a sequence with atomic operations |
| `ListOps` | pure operators: what list calls do to (elements, size) |
| `MultithreadedList` | the list with nodes, links, mutex and freed memory |
| `MultithreadedListProofs` | theorems about its types, mutex and links; that it implements `ListOps` and `SequenceList` |
| `Registry` | server and clients: who knows whom. Uses `ListOps` for every list |
| `RegistryProofs` | theorems about its types and about threads that hang |
| `RegistryViews` | theorems about LOG_OFFs that find their entry and about what server and clients know of each other |
| `MirroredFiles` | abstract: copies that only ever get what was read of their own files |
| `FileTransfer` | one client copies the files of one owner; its queue is `BoundedQueue`'s, for one worker |
| `FileTransferProofs` | theorems about its types, the copies, and what a quiet client has; that it implements `MirroredFiles` |
| `Peers` | the threads of clients that ask one another, and `log_out` around them; its buffers are `BoundedQueue`'s |
| `PeersProofs` | theorems about its types and about `log_out` |
| `Framing` | one connection, on which messages are written and read in pieces |
| `FramingProofs` | theorems about what is read |
| `DataLemmas` | lemmas the proofs share: least numbers and induction, remainders, sequences, counting |
| `MCSharedBuffer`, `MCMultithreadedList`, `MCRegistry`, `MCFileTransfer`, `MCPeers`, `MCFraming` | symmetry sets and constants for TLC |

How they fit together: `SharedBuffer` is shown to be a `BoundedQueue` for one
worker, and to lose no wakeup; so `FileTransfer` and `Peers`, with one worker,
use a queue whose pushes and pops are atomic. `MultithreadedList` is shown to do
what `ListOps` says, so `Registry` uses `ListOps`; `FileTransfer` is shown to be a
`MirroredFiles`. `Registry` looks at all
clients and the server, at the grain of one message; `FileTransfer` at one
worker and one owner, with contents; `Peers` at main threads and workers that
wait for one another, without contents; `Framing` at the digits of one message.

A definition whose comment starts with `Mutant:` is a plausible bug. It is used
by no specification: each property is checked to fail when the definition of
the code is replaced by its mutant (`mutants` in `PROJECT.json`).

### SharedBuffer

`info_table`, `left`, `right` are the code's fields; `mutex` is the holder.
`pc[t]` says where thread `t` is: `push_lock` (waiting for the mutex, first or
again after a wait), `push_test` (the `while` condition), `push_finish` (between
the store and the unlock), `push_wait` (asleep on `condition_full`), and the
same for pop. Signals wake one sleeper or none; sleepers may also wake up
spuriously. `element[w]` is the *index* of the slot whose address pop returned,
because that is all the worker has: what it reads is what the slot holds when it
looks. `ResetVersion` is the write through that pointer
(`client/client.c` 147). Threads outside this file are at `run`, and may come
back whenever they like.

### MultithreadedList

Nodes are addresses; `next`, `previous` and `data` are functions on them. A body
runs inside the mutex, so it is one step. `list_find_element_empty` is the
early return that keeps the mutex. `multithreaded` is the argument of
`list_create`: a list without it has no mutex to take, is the server's, and is
asked to remove what it does not hold. `list_remove` reads `list->head->next` after
`free`: the result is one of `FreedNext` - `"old"` (the allocator left the node
alone), `"null"`, or `"wild"` (glibc writes the link of its free list there).
`Segv` is the death of the process.

`ListOps` says the same without pointers, as (ring, size), also for lists that
lost count or their head; `BodiesAreListOps` compares it with the pointer
version, so `Registry` can use it.

Only one thread, main, changes the list (`ListAssumption`); the others search it.
That is what the program does, in the server and in the clients.

### Registry

The server: `Select`, then `AcceptLogOn` or `AcceptLogOff` for the new
connection, then one `NotifyNext` per connect of the loop and one `NotifySend`
per send (the process it is connected with may have ended in between), `NotifyDone`,
and `ServeGetClients` for each listed connection that `select` reported - also
when it was replaced in between. `server` is the program counter, `set` the
`fd_set`, `backlog` the accept queue. `absent` is history: a LOG_OFF came from a
client that is not listed.

A client: `pc` is `off`, `wait` (reading CLIENT_LIST), `load` (adding its
entries; no workers yet), `run`, `stuck` (main waits for the leaked list mutex)
or `segv`. `pushing` is a record main waits to push. `Work` is a worker's pop and
lookup; when it finds its client it is among those that are `asking`. There it may push
records, as far as there is room (`PushFiles`), and may be done (`ComeBack`), or
wait for ever, as there is no timeout. `inbox` holds the connections of the server. `LogOut` and `Crash` end a
process in any state in which the code can be interrupted; `Start` may then
start another on the same port; `starts` and `crashes` count against the bounds
`MaxStarts` and `MaxCrashes`.

Faithful details that matter:

- the duplicate check of `handle_log_on_request` and `handle_user_on_request`
  never matches (it is given `&new_client`, a pointer to a pointer), so there is
  no guard;
- the notification loop overwrites `connected_client->socket` of every entry;
- `CLIENT_LIST` has `size - 1` entries, `Junk` when there are fewer others;
- LOG_OFF removes the first entry with that tuple;
- writing to a client that has ended may raise SIGPIPE, which ends the server: the
  CLIENT_LIST, or a notice whose connection was accepted before;
- `list_remove` reads the freed head of the server's list, too: a LOG_OFF of the client
  that was listed first, with others behind it, may cost the server its list or its life.

What it abstracts: a client's connect and its requests are one step (the kernel accepts
on the server's behalf), reading an answer is one step with sending it,
a record is the client it is about, whether or not it names a file, a worker's
pop and lookup are one step, and a
tuple converts to bytes and back unchanged (`Framing` says when it does). Accept
queues are unbounded; the code's hold about 5 connections (`Peers` has them). The
server is not restarted.

### FileTransfer

The owner: its directory `files` (which `Edit` changes at any moment), and its
main thread. It accepts GET_FILE_LIST and goes through its directory, with two
steps for each file, one up to the `stat` that gives the length (`Walk`), one from the
`open` on (`ListEntry`); or it accepts GET_FILE, finds that the file exists and gets
its length (`AcceptGetFile`), and reads it in a later step (`AnswerGetFile`). `read`'s
count is ignored, so what it reads is `Readings`: as many words as the file had,
those of the file as it is now, and behind its end memory that nobody wrote. Or it is
busy with something else, perhaps for ever (`OwnerIsBusy`, `OwnerIsBack`).
The client: `pc` says where its one worker is - `pop`, `ask` (a record popped),
`wait` (for the answer), `push` (a record for each entry of FILE_LIST), `write`
(between open and write), or `off`, when there is no process. `UserOn`,
`MainPush` and `UserOff` are its main thread. `connection` holds the request,
then the answer; `Null` is what reading a connection yields whose other end died.
A file is a sequence of 64-bit words and `compute_file_hash` their sum; TLC runs
with words of two bits, so that versions collide and wrap around to 0.

`OwnerStops` and `ClientStops` are kills, log-outs and SIGPIPE alike. Copies
survive them, everything else in the client does not. `had`, `since`, `torn` and
`count` are history: what a file has held, what has changed since the last list
request, which files were edited between the stat and the read of an answer, and how
much of each bound is spent.

`MirroredFiles` sees `had` and `local` only. Its steps are one more version of an
original, an empty copy where there was none, and what was read of the original put
over the beginning of a copy that is there: as many words as one version has, the words
of one version, and any words behind them if that one is shorter. Requests, records, processes and stops are
stuttering. So opening changes nothing that is there, and writing is one
step (the program writes a file with one `write`).

What it abstracts: the client's list contains some third client, so that it is
never empty (`Registry` has the other case); a notice that the owner left may
come at any time; opening files and making directories succeeds, unless the file is
gone; an edit puts all of the new content in place at once, and none falls between the
`open` and the `read`: if it did, and replaced the file, the old one would be read, as
if the edit came later, and if it changed the file in place, as if it came earlier;
a body is received
whole (`Framing` reads it in pieces); what the owner's main thread is busy with is left
open (in `Peers` it is modelled). Requests of a client that stopped are forgotten: serving
them changes nothing.

### Peers

The clients of `Order` have logged on one after the other. `main[c]` and
`worker[c]` are program counters: main is in `select`, in `serve` (a connection
accepted and read), in `push` or at the list's `mutex`, and in `log_out` it is
at the function it calls next; the worker is at `pop`, `lookup`, `connect`,
`read` or `push`. `inbox` is the accept queue: `connect` succeeds as long as
there is room in it, whether or not main accepts. A message is `answer`ed when
main gets to it; when the process of the other end ends first, the worker reads
a null request (`Receive` with `Reset`, `ReceiveNull`).

`Interrupt` is the signal. The handler runs in the main thread, on top of what
main was doing (`interrupted`): it can end a wait for room, but when main held a
lock of the C library - while it served a request - the handler may wait for that
lock, and when main was waiting on `condition_full`, `pthread_cond_destroy` waits
for main (`CondDestroy`). `LogOff` sends LOG_OFF and cancels the worker;
`ListDestroy` and `BufferDestroy` free what the worker may be using; a cancelled
worker goes on until it gets to a call where threads end (`IsCancelled`), and
`Touches` says when its next step uses freed memory. What follows that is open
(`TouchFreed`): the thread ends, or the process does. A worker that is cancelled
between `connect` and `write` leaves a connection on which nothing comes:
`SILENT`, on which the other client's main thread waits until that process ends.

The server goes through its loop with one `NotifyNext` per connect and one `NotifySend`
per send. Notices are dropped when an accept queue is full or nobody listens, as
`ipv4_socket_create_and_connect` fails then. The server may die (`Down`): of SIGPIPE, when
a client ends between the connect and the second write, and of the freed head, when a
LOG_OFF removes the first of several entries (`Leaves`). A client's list is what
is in it (`others`), without its order, so any client but the only one may be its
head: its USER_OFF may then end the process or cost it the list (`lost`), and the next
USER_ON ends it. `Outsiders` are clients whose threads are
not modelled: they come, go, refuse and answer at once.

What it abstracts: one worker; one signal in a client, which the main thread
handles (as Linux prefers; `Registry` has two signals); opening a socket
succeeds; LOG_OFF gets into the server's queue or is lost; a message is
written and read whole; how many files a list names is `FileLists`, their names
and contents are left out.

### Framing

A connection carries `conversation`: one message, or LOG_ON with GET_CLIENTS
behind it on the same connection, as in `client/client.c`. The sender does two
writes for each message (`Writes`: header, body); a read of n returns whatever
number of digits up to n has arrived (`Received`), and 0 when the sender closed.
Bytes are digits below `Radix` and numbers in headers have two of them, which
keeps the code's conversions (`htonl`, `htons`, `inet_addr`) as they are and the
instance small. `str_n_equals` is `strncmp` with the code's third argument,
`command_length`, on a buffer of which only a part was received: what lies behind
that part is memory that nobody wrote, so `str_n_may_equal` lets it be anything.
`Names` and `Other` are the two chains of comparisons, in `handle_request` and in
`request_file_from_client`, and what each does with a command it does not find.

A port is checked as a number of 64 bits and kept in 16 (`Accepted`,
`port_number`); `inet_ntop` gets 15 bytes (`MAX_IPV4_LENGTH`), one less than the
longest addresses need, and leaves such an address empty, which `inet_addr`
turns into 255.255.255.255.

What it abstracts: a name is two or three digits that keep which names are
prefixes of which (GET_FILE of GET_FILE_LIST); a payload is a tuple or a few digits.

## 3. The runs

All runs end without an error, except `registry_null`, `transfer_up_to_date` and
`transfer_null`.

| Run | Question | Bounds |
|---|---|---|
| `buffer_single` | Is popping by pointer popping by value, with one worker? | 2 threads, both push; ring of 3; 2 files, 2 versions |
| `buffer_wakeups` | Can a wakeup be lost? For what do all threads sleep? Do pushes and pops go on? | 3 threads, all push; ring of 3 |
| `list` | Is a list a sequence? Do the links survive wrong removals, is `ListOps` right? What does the kept mutex do? | 2 threads (the server's list: 1), 3 nodes, 2 keys, all of `FreedNext` |
| `registry_views` | Do clients know what the server knows? | 3 clients, 5 starts, 1 kill, 2 signals, all of `FreedNext`; buffer for 1 record |
| `registry_log_on` | Does each LOG_OFF find its entry? Is a client that logs on served? | 3 clients, 3 starts, 1 kill, 1 signal, all of `FreedNext`; buffer for 1 record |
| `registry_chaos` | Who can hang, whatever happens? | 3 clients, 4 starts, 2 kills, 2 signals, all of `FreedNext` |
| `registry_null` | Does `list_remove` get what it is declared to get? | 2 clients, 3 starts, 1 kill; a freed head never reads as what it was |
| `transfer_copies` | What do copies hold, which steps change them, is everything copied, when does the worker come back? | 2 files, 3 contents, 2 records; 2 notices, 1 edit, 1 stop |
| `transfer_up_to_date` | Is a file that is reported up to date so? | as `transfer_copies`, no stops, no version 0 |
| `transfer_null` | Does `str_n_equals` get what it is declared to get? | 1 notice, no edits, 1 stop |
| `peers` | Does every thread come back? Does `log_out` end? Does an idle worker leave alone what it frees? | 2 clients, 1 outsider; buffers for 1 record, accept queues for 2, lists of 0 or 1 files; 2 notices or 1 log-out |
| `framing` | Is what is received what was sent? What is a cut message taken for? | messages of every kind; 2 addresses, 5 ports, digits of 3 bits |

Why the bounds are enough: a ring of 3 holds 2 records, so it wraps around, is
full, is empty and is neither; three threads are more than it holds, so that two
may sleep on a condition variable while signals come. Three nodes are a head, a
tail and a node with two neighbours. Three clients are one that comes, one that is
being served and one that goes. Five starts put a second process on two of the
three ports, or a third on one; four and two kills list two clients twice. Two clients with a buffer for one record are the
smallest circle: each main thread waits for its own worker and each worker for
the other's main thread; two notices from an outsider - it goes and comes back,
while the other client's is in the queue - fill buffer and queue, and a log-out
needs none. In `framing` every read may be cut at every digit; 64 is the first
port that does not fit, 117 one whose low bits are below the limit. Two notices
of `transfer_copies` list the owner's files twice, with copies
from the first time; one edit between the list and the request replaces a copy, and
one between stat and read tears one; one
stop leaves a copy that was opened and not written. Runs over `Registry` allow the system to stop
(`CHECK_DEADLOCK FALSE`): nobody has to log on, threads do hang, and servers die.
So do those over `FileTransfer`, where the bounds run out and the worker may
wait for itself or for its owner, the run over the list, whose mutex leaks, the one over `Peers`, where
events run out and circles form, and the one over `Framing`, when the message is read.

What the runs show that is worth knowing:

- `PopByPointerIsPopByValue` holds for one worker and fails for two: the slot
  that a full ring leaves free protects the last pop only. `-w 2` and more
  reads overwritten records.
- The pushers and poppers of a buffer go on unless all workers push into a full
  ring (`PushesGoOn`, `RecordsAreTaken`). That is no promise to each pusher: the
  others may overtake it for ever, as signals favour nobody.
- A notice whose connect comes before GET_CLIENTS is read takes the connection away and
  leaves a starting client waiting for ever (`Overtaken` in `LogOnCompletes`); so does
  a server that loses its list, with the connection, on a freed head; and a buffer
  smaller than the number of clients hangs it (`HangsAtStart`). With a server
  and main threads that are scheduled there is no other way: a server that dies closes
  the connection, which reads as an empty CLIENT_LIST.
- No worker is lost to the list's mutex while main waits for room: its list
  is not empty then (`PushersHaveWorkers`). That main gets room is not
  promised: the workers may all wait for peers or for room themselves (`peers` says in
  which circles).
- Each LOG_OFF finds an entry to remove (`LogOffFindsEntry`), also when clients are
  killed and listed twice - as long as `log_out` is not interrupted by the second
  signal. Then the server gets two, and counts one client too many off its size.
- Views agree in a client's first session (`ViewsAgree`), until the server or the client
  loses its list on a freed head, or a LOG_OFF came for nothing. In a later session
  a process can get the notices meant for its predecessor.
- `registry_null` is a disagreement with `generic_multithreaded_list.h` 37-38,
  where `list_remove` is declared `__NON_NULL__(1, 2)`. A client is killed, and its
  entry stays; another logs on and off; while the server handles that LOG_OFF, the first
  is started again and gets the USER_OFF through the old entry, about a client it never
  knew. It is listed twice itself, so that its CLIENT_LIST has one tuple, which is
  memory nobody wrote, and its list is not empty when it looks for the other: it finds
  nobody and passes a null pointer. The history needs no freed head.
- A copy of a file that is edited while the owner reads it may be torn: the owner sends
  as many bytes as `stat` said, whatever `read` delivered, so a shorter new version is
  followed by memory of the owner's process (`Readings`). `CopiesAreMadeOfVersions` is
  about files that were not edited then, `CopiesAreMirrored` about all.
- `transfer_up_to_date`: the version sent for an existing copy is the owner's, not
  the copy's (`client/client.c` 155). So a copy is replaced only when the owner's
  file changes between the list and the request, and "File is up to date"
  (line 184) is reported of outdated copies.
- `transfer_null`: an owner that stops in the middle makes the client pass null to
  `str_n_equals`, declared `__NON_NULL__(1, 2)` in `common/string_utils.h` 18-19.
- `QuietMeansCopied` holds with exactly two exceptions: files that had a copy
  (perhaps an empty one, left by a process that stopped), and files of hash 0.
- A single worker hangs when a list has more entries than the buffer has room
  (`WaitsForItself` in `WorkerComesBack`), or when it waits for an owner whose main
  thread is busy for ever (`WaitsForTheOwner`), and in no other way. In what
  main threads are kept for ever is the question of `peers`.
- With two clients there are circles (`Doomed` in `ThreadsComeBack`): main of each
  waits for room in a full buffer that only its worker empties, and each worker
  waits for an answer of the other's main. Threads hang in such circles, behind
  them, at a leaked mutex, behind a silent requester that hangs, or in a `log_out`
  that waits for itself - and nowhere else. In particular a `log_out` that found
  main in `select` ends whatever the worker does, and a requester that goes away
  holds nobody up.
- `log_out` may fall asleep for good in two ways: when the signal interrupts main
  in `shared_buffer_push` (`pthread_cond_destroy` on the variable that its own thread
  waits on) and when it interrupts main inside a handler (`malloc`, `printf`). While
  it sleeps the kernel goes on accepting connections nobody reads.
- A worker may use the list or the buffer after `log_out` freed them; not if it
  was waiting for a record when the signal came (`IdleLogOutIsClean`).
- The notices of clients with full queues are lost. A client that lost the
  USER_ON of another dies of its USER_OFF (`UserOff`, last case).
- As long as no read is short, messages arrive as they were sent
  (`WholeReadsAreExact`, `MessagesArrive`), although the boundary between LOG_ON and
  GET_CLIENTS is kept by lengths alone. If a payload is short it is handled as if
  it were whole; a cut FILE_NOT_FOUND can be taken for a file. A request is not
  taken for another one unless its very name is cut (`FirstCommandIsTheOneSent`).
- A client with a port of 65536 or more, or behind an address that takes 15
  characters, is announced where it is not (`AnnouncedIsReachable`).

### Fairness

`buffer_wakeups`: strong fairness of taking the mutex (other threads take it in
between, and it is free again and again) and weak fairness inside the critical
section and of the workers' loop. Nobody has to push, nothing has to wake up
spuriously. `list`: the same for the list's mutex and bodies.
`registry_log_on`: weak fairness of the server and of each main thread; nobody has to
start, log out or be killed, and the workers may stay where they are.
`transfer_copies`: weak fairness of what the owner's main thread does for the client,
the worker, and main's push; nobody has to edit, start or stop, and an owner that
is busy need not come back. `peers`: weak fairness of all
threads, handlers and the server taken together (`Runnable`) - the weakest
assumption there is: as long as somebody can run, somebody does - while nobody has to
come, to go or to press a key. It is enough because all of their loops end.
`framing`: weak fairness of the receiver; the sender may stop anywhere.
All of this is what a preemptive scheduler and blocking calls that return give; pthread mutexes do
not promise strong fairness, but starvation for ever needs a scheduler that never
runs a ready thread at the right moment.

## 4. The proofs

For all values of the constants that satisfy the named assumptions:

- `TypeCorrect`, from `BufferAssumption`. The inductive invariant `Inductive`
  adds `Locking` (only the holder of the mutex is between lock and unlock; a
  pusher that has stored still has room; the slot a popper chose is still
  `left`) and `Written` (queued, stored and popped slots hold records). Without
  `Written` the write through a worker's pointer could not be typed.
- `SingleWorkerRefinement`, for at most one worker: the ring implements
  `BoundedQueue`. `Pointers` is the reason: the worker's pointer is the slot just
  before `left`, which a full ring keeps free. The queue is the records from
  `left` on (`Count`, `Slot`); `PushCount` and `PopCount` say what the index
  arithmetic does to them, `RefinementStep` maps each step.
- `NoLostWakeupAlways`, for any number of workers: when somebody sleeps on a
  condition variable, at least as many threads are on their way to the queue as
  there are records (places). A signal moves one sleeper to those on their way,
  which pays for the record just pushed.
- `SameReasonToSleepAlways` follows: when all sleep nobody is on the way, so
  there is no record, or no room.
- `LeakedMeansEmptyAlways`, from `ListAssumption`: `Discipline` (whoever is in a
  body holds the mutex) makes the empty list permanent once the mutex is leaked.
- `TypeCorrect` and `RingCorrect` of the list, from `ListAssumption`: `Links` says that
  the links of the node `list->head` points to are a ring in both directions, and
  that those of a free node lead to itself; together with `Discipline` it is inductive
  (`ListInv`). `RingOK` alone is not, since it does not say that the loop from the head
  comes back to it. `PushedNode`, `FirstNode`, `RemovedNode` and `RotatedRing` say what
  the code's assignments to `next`, `previous` and `head` do to a ring of any length.
- `BodiesImplementListOps` and `ListImplementsSequence`: each body, as a step of the
  ring's elements, is what `ListOps` says, and a step of `SequenceList` or a stutter.
  Everything `Registry` says of lists rests on the first.
- `TypeCorrect` of `Registry`, from `RegistryAssumption`. `Types` adds to the types
  that a list with elements has a size other than 0 (or `list_remove` could count
  below it), that the loops start at the first entry, that only what is in the
  backlog is accepted, and that no session has a number beyond the starts.
- `LogOffsFindEntries`, if nobody gets a second signal in `log_out`, for every outcome of the
  freed head. A LOG_OFF has to find its client not now, but when the server gets to it.
  `LogOffsFind` says it of each place in the backlog: the last request of that client
  before that place is a LOG_ON, or there is none and the client is listed now. A client
  that is alive is one that could append a LOG_OFF, so it says the same of the backlog's
  end. It holds while the server runs and has its list (`Serving`), and there the size is
  exact, which is what keeps `list_remove` from taking a list with others in it for one
  that gets empty (`Answered`). A list that is lost stays so: the next LOG_ON or LOG_OFF
  is the end of the server (`ServingWas`).
- `ViewsAlwaysAgree`, for all values of the constants. `ViewsAgree` speaks of clients that have
  their answer; what makes it inductive is what holds before (`Views`), while the server
  has its list and no LOG_OFF came for nothing (`Live`). A client nobody started
  is unheard of (`Unheard`). One that was started once is in one place: in one
  request of the backlog, or in the LOG_ON the server handles, or in one entry
  (`OnePlace`) - so a notice is sent to it once, and the answer names all the others and
  has no junk at its end (`AnswerIsOthers`). While it waits, it has been told nothing as long
  as its entry has the connection it waits on (`KnowsNothing`), which is why a notice
  that overtakes the answer costs it the answer, and not a client. From then on each step moves a
  client between the four counts of `Replay` and `Told` (list, answer, notices, entries),
  as long as the client's own list was not lost; until then its size is exact
  (`ClientExact`).

  That the server is `Live` is needed: after a second LOG_OFF, or when the freed head
  reads as null, its list lacks clients that are there.
- `HungKnowsNobodyAlways`: whatever freed memory reads as, whoever is killed,
  threads that hang on a client's list mutex hang in a client that knows nobody.
  `HungKnowsNobody` is not inductive, as it says nothing of who is about to hang.
  `OnMutex` does: who hangs, hangs on a leaked mutex; a leaked mutex means an
  empty list in a process that has got to its main loop, from where a list grows
  only under the mutex.
- `PushersAlwaysHaveWorkers` follows from that, the types and `Waiting`: main waits for room
  only after it has put somebody on its list, and until it goes on nobody else takes
  anybody off. So nobody can leak the mutex, and nobody hangs on it.
- `IdleLogOutIsCleanAlways`: `StaysIdle` says that a worker that was waiting for a
  record when `log_out` began still is, or is gone, with an empty buffer; and
  that main does not come back from `log_out`, so nothing can be pushed. Without the
  second half a step of main would break the first.
- `TypeCorrect` of `Peers`, from `PeersAssumption`: `Types` adds what each thread has in
  hand (`Holds`): main serves a request and pushes for a notice, a worker that is
  on its way has a record, and one that pushes has something left to push. At the
  start the buffers have room because nobody was there before himself, and a notice
  finds room in the accept queue because its connection is counted (`Accepts`).
- `CopiesAreMadeOfVersionsAlways`, from `TransferAssumption`: `Asked` ties what travels
  on the connection to the record the worker keeps and to what was read of that file
  (`WasRead`: a version, if the file was not edited between stat and read; `Measured` says
  it of what stat gave), `Remembered` says that `had` remembers all it holds, `OpenedFirst` that a copy is
  there before it is written. `OverwriteWords` and `OverwriteMadeOf` are the
  lemmas about writing over a file that is not truncated.
- `CopiesAlwaysMirrored`: `FileTransfer` implements `MirroredFiles`. `StepMirrored` maps
  each step: `Edit` to `Edit` (or to nothing, when a file is deleted), opening
  to `Create` (or to nothing, when there is a copy), writing to `Store` (or to
  nothing, when the file was gone and no words came: `OverwriteNothing`).
  It needs `OpenedFirst`, so that there is a copy to write over, and `Asked`, so that
  what is written was read of the same file; `OverwriteIsOverlay` says that what `write`
  leaves of two sequences is the overlay of two functions. `TransferAssumption` says for
  this that no file reads as `NoFile`.
- `TypeCorrect` of `FileTransfer`: `Typed` is what `Shape` leaves out. `HashIsVersion` says
  that a version is a number of 64 bits; it needs `SumOf`, that `FoldSeq` adds up the
  words of any file to a number, in whatever order `CHOOSE` takes them.
- `QuietMeansCopiedAlways`, by induction on what the worker still has to do for each file
  that is due (`Pursued`). The file is on its way (`OnTheWay`): its copy is
  there, or the owner lists it or has listed it (`Coming`), or the worker has its record and
  asks for it or stores it (`Fetched`) - or the record was dropped, because the
  owner was not in the list when it was popped, and then the client does not get
  quiet before it has asked for the list again (`ListAgain`). `AskedFor` and `CopyIs` are why
  nothing gets lost on the way: of a file without a copy the worker sends
  version 0, so no FILE_UP_TO_DATE can answer it; what travels is what the file
  holds now; and what is written over is an empty file, or the same words.
- `TypeCorrect`, `WholeReadsAlwaysExact`, `FirstCommandAlwaysTheOneSent` and
  `AnnouncedAlwaysReachable` of `Framing`, from `FramingAssumption`: for digits of any width,
  any addresses and ports. `StreamOK` says that the stream is digit for digit what the
  first `writes` writes made; `InStep`, that as long as no read was short the receiver
  is between two reads where the sender was between two writes, with the exact
  header; `Fresh`, what may be so of the first message when a read was short: a
  command_length of 0, or the exact one and the position behind the header. So the
  argument has two halves: what was written comes back (`DigitsAre`, `NameRead`,
  `BodyRead`, `WriteAt`), and what was cut is taken for nothing else. The second is about
  names: `EqualsNoOther` says that `strncmp` with the length that was announced finds no
  other name, whatever memory lies behind what was received, although GET_FILE is the
  first part of GET_FILE_LIST; `TakenIsFirst` says it of the chain of comparisons.

`RegistryProofs`, `PeersProofs` and `FileTransferProofs` have a `Shape` each: as much
of the type invariant as the steps need.

Induction over data is done with sets: `NatInduct` (a set that has 0 and the successors of
its members has all numbers) and `LeastNat` are first-order, and so is `Iterated`, which
gives the values of a recursive function one by one. `TuplesBut`, the loop of
`create_client_list_request`, is a recursive function for that reason.

Only model-checked: all liveness (`PushesGoOn`, `RecordsAreTaken`, `CallsReturn`,
`LogOnCompletes`, `WorkerComesBack`, `ThreadsComeBack`,
`MessagesArrive`): temporal proofs under fairness are not attempted. Every invariant
and every refinement that a passing run checks is a theorem as well.

## 5. Not modelled

- Several workers of one client beside other clients. `SharedBuffer` has several
  workers, with the pointers that go wrong; `Registry` has several lookups; a circle of
  workers of several clients would need both at once, and is out of reach of the
  bounds.
- Descriptors: the connections that `request_file_from_client` leaves open
  (`client/client.c` 181) and the close of a descriptor nobody wrote (134).
- `create_directory` and its failures, full disks, nested directories, pathnames longer than
  their buffers, and the last bytes of a file whose size is no multiple of 8 in
  `compute_file_hash`.
- A server that is restarted (the program has no way to log on again), `bind` and
  `listen` that fail at the start, a `write` that is cut short.
- Both signals at once inside the teardown of `Peers` (`Registry` has two `log_out`
  calls, without threads).
- Messages on the terminal, `getopt`, and `list_lpush`, `list_first_entry`,
  `list_last_entry`, `list_element_exists_custom`, `str_count_occurrences` and
  `read_line_from_stdin`, which nothing calls; `-b 0`, with which the first call
  divides by zero.

Worth doing next: the safety half of the liveness properties as theorems - that
the states `Doomed` of `Peers` and `WaitsForItself` of `FileTransfer` describe are
left by nothing but the end of a process.
