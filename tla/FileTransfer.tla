---------------------------- MODULE FileTransfer ----------------------------
(***************************************************************************)
(* How a client copies the files of another one.  The OWNER shares a       *)
(* directory, which its user edits; its main thread answers GET_FILE_LIST  *)
(* and GET_FILE, or is busy with something else.  The CLIENT has one       *)
(* worker (-w 1) that asks and stores, and a main thread that pushes a     *)
(* record whenever it hears of the owner.  With one worker, popping is     *)
(* popping by value: see SharedBuffer.                                     *)
(*                                                                         *)
(* A file is a sequence of 64-bit words.  Its version is their sum.  An    *)
(* edit replaces all of a file at once, between two system calls of the    *)
(* owner's main thread.                                                    *)
(*                                                                         *)
(* Processes stop at any time: they are killed, log out, or die of SIGPIPE *)
(* because the other end did.  The client knows some third client as well, *)
(* so that its list is never empty.                                        *)
(***************************************************************************)
EXTENDS Naturals, Sequences, SequencesExt

CONSTANTS
    Files,          \* pathnames in the owner's directory
    Contents,       \* what a file can hold
    u64_values,     \* 2^64
    Capacity,       \* records the client's buffer holds: option -b, less one
    NoFile,         \* the empty pathname, and the absence of a file
    MaxNotices,     \* bound: how often the client hears that the owner is on
    MaxEdits,       \* bound: how often the owner's user changes a file
    MaxStops        \* bound: how often a process stops

ASSUME TransferAssumption ==
    /\ u64_values \in Nat \ {0}
    /\ Contents \subseteq Seq(0 .. u64_values - 1)
    /\ Capacity \in Nat
    /\ NoFile \notin Files \cup Seq(0 .. u64_values - 1)
    /\ MaxNotices \in Nat /\ MaxEdits \in Nat /\ MaxStops \in Nat

VARIABLES
    \* The owner.
    files,      \* its directory
    up,         \* does its process run?
    serving,    \* what its main thread is doing
    \* The connection of the client's worker to it: the request or the answer.
    connection,
    \* The client.
    pc,         \* where the worker is; "off" when no process runs
    info,       \* the record the worker popped
    received,   \* entries of FILE_LIST that it still has to push
    buffer,     \* the records in the shared buffer
    entries,    \* how often the owner is in the client's list
    pushing,    \* main waits to push a record for the owner
    local,      \* the copies in directory <ip>_<port>
    \* What happened so far.
    had,        \* had[f]: everything the owner's file f has held
    since,      \* since the client's last list request was accepted
    torn,       \* files edited between the stat and the read of an answer
    count       \* how much of each bound is used up

ownerVars  == <<files, up, serving>>
workerVars == <<pc, info, received>>
mainVars   == <<entries, pushing>>
history    == <<had, since, torn>>
vars       == <<ownerVars, connection, workerVars, buffer, mainVars, local, history, count>>

Versions  == 0 .. u64_values - 1
Records   == [file : Files \cup {NoFile}, version : Versions]
NoRequest == [kind |-> "none"]
Null      == [kind |-> "null"]  \* the connection ended: ipv4_socket_get_request returns {0}

\* What goes over a connection.  (A file is sent with its version, which the
\* client does not look at.)
create_get_file_list_request         == [kind |-> "GET_FILE_LIST"]
create_get_file_request(file, version) == [kind |-> "GET_FILE", file |-> file, version |-> version]
create_file_not_found_request        == [kind |-> "FILE_NOT_FOUND"]
create_file_up_to_date_request       == [kind |-> "FILE_UP_TO_DATE"]
create_file_request(content)         == [kind |-> "FILE", content |-> content]

Requests == [kind : {"GET_FILE_LIST"}] \cup [kind : {"GET_FILE"}, file : Files, version : Versions]
Answers  == [kind : {"FILE_LIST"}, list : Seq(Records)]
                \cup [kind : {"FILE_NOT_FOUND", "FILE_UP_TO_DATE"}]
                \cup [kind : {"FILE"}, content : Seq(Versions)]

\* A client_file_info whose pathname is empty asks for the list.
ListRecord == [file |-> NoFile, version |-> 0]

\* The owner's main thread is in select or busy, walks its directory, or has
\* measured a file that it is going to read: for the list or for an answer.
Serving == [at : {"select", "busy"}]
               \cup [at : {"walk"}, left : SUBSET Files, list : Seq(Records)]
               \cup [at : {"entry"}, left : SUBSET Files, list : Seq(Records),
                      file : Files, length : Nat]
               \cup [at : {"read"}, file : Files, length : Nat]
Select == [at |-> "select"]

compute_file_hash(content) == FoldSeq(+, 0, content) % u64_values

\* The rest of read_entire_file_into_memory, once stat has said `length': open
\* and read.  Whatever the file has become by then, `length' words of memory are
\* taken for it; those that read does not fill were never written.  (The open is
\* part of the step of the read: from one to the other the file keeps its words,
\* if they are changed in place, or the descriptor keeps the old file.)
Readings(f, length) ==
    {r \in [1 .. length -> Versions] :
        \A i \in 1 .. length : i <= Len(files[f]) => r[i] = files[f][i]}

\* Mutant: the file is opened with O_APPEND.
Overwrite_appends(new, old) == old \o new

\* write() at offset 0 of a file that was not truncated.
Overwrite(new, old) == new \o SubSeq(old, Len(new) + 1, Len(old))

Init ==
    /\ files \in [Files -> Contents \cup {NoFile}]
    /\ up = FALSE
    /\ serving = Select
    /\ connection = NoRequest
    /\ pc = "off"
    /\ info = ListRecord
    /\ received = <<>>
    /\ buffer = <<>>
    /\ entries = 0
    /\ pushing = FALSE
    /\ local = [f \in Files |-> NoFile]
    /\ had = [f \in Files |-> {files[f]} \ {NoFile}]
    /\ since = [unchanged |-> {}, copied |-> {}]
    /\ torn = {}
    /\ count = [notices |-> 0, edits |-> 0, stops |-> 0]
-----------------------------------------------------------------------------
(* The owner: handle_get_file_list_request and handle_get_file_request. *)

AcceptGetFileList ==
    /\ up /\ serving = Select
    /\ connection.kind = "GET_FILE_LIST"
    /\ serving' = [at |-> "walk", left |-> Files, list |-> <<>>]
    /\ since' = [unchanged |-> Files, copied |-> {f \in Files : local[f] # NoFile}]
    /\ UNCHANGED <<files, up, connection, workerVars, buffer, mainVars, local, had, torn, count>>

\* get_all_pathnames_and_versions: one file, in the order readdir likes, and the
\* stat of read_entire_file_into_memory.  What is not there is not listed.
Walk ==
    /\ serving.at = "walk"
    /\ \E f \in serving.left :
          serving' = IF files[f] = NoFile
                     THEN [serving EXCEPT !.left = @ \ {f}]
                     ELSE [at |-> "entry", left |-> serving.left \ {f}, list |-> serving.list,
                           file |-> f, length |-> Len(files[f])]
    /\ UNCHANGED <<files, up, connection, workerVars, buffer, mainVars, local, history, count>>

\* __add_pathname_and_version_to_list, from the open on.
ListEntry ==
    /\ serving.at = "entry"
    /\ \E list \in IF files[serving.file] = NoFile
                   THEN {serving.list}
                   ELSE {Append(serving.list,
                                [file |-> serving.file, version |-> compute_file_hash(r)]) :
                             r \in Readings(serving.file, serving.length)} :
          serving' = [at |-> "walk", left |-> serving.left, list |-> list]
    /\ UNCHANGED <<files, up, connection, workerVars, buffer, mainVars, local, history, count>>

\* create_file_list_request; with nothing to list it dereferences a null head.
AnswerFileList ==
    /\ serving.at = "walk" /\ serving.left = {}
    /\ serving' = Select
    /\ IF serving.list = <<>>
       THEN connection' = Null /\ up' = FALSE
       ELSE connection' = [kind |-> "FILE_LIST", list |-> serving.list] /\ UNCHANGED up
    /\ UNCHANGED <<files, workerVars, buffer, mainVars, local, history, count>>

\* Mutant: a file that does not exist is not answered, the connection stays open.
AcceptGetFile_silent ==
    /\ up /\ serving = Select
    /\ connection.kind = "GET_FILE"
    /\ files[connection.file] # NoFile
    /\ serving' = [at |-> "read", file |-> connection.file,
                   length |-> Len(files[connection.file])]
    /\ UNCHANGED <<files, up, connection, workerVars, buffer, mainVars, local, history, count>>

\* handle_get_file_request: file_exists, and the stat of
\* read_entire_file_into_memory.  (A file that goes in between is one that goes
\* before the open, and one that changes in between is one that changed before.)
AcceptGetFile ==
    /\ up /\ serving = Select
    /\ connection.kind = "GET_FILE"
    /\ IF files[connection.file] = NoFile
       THEN connection' = create_file_not_found_request /\ UNCHANGED serving
       ELSE /\ serving' = [at |-> "read", file |-> connection.file,
                           length |-> Len(files[connection.file])]
            /\ UNCHANGED connection
    /\ UNCHANGED <<files, up, workerVars, buffer, mainVars, local, history, count>>

\* A file that has gone since is sent as one without words.
AnswerGetFile ==
    /\ serving.at = "read"
    /\ serving' = Select
    /\ \E content \in IF files[serving.file] = NoFile
                      THEN {<<>>} ELSE Readings(serving.file, serving.length) :
          connection' = IF compute_file_hash(content) = connection.version
                        THEN create_file_up_to_date_request
                        ELSE create_file_request(content)
    /\ UNCHANGED <<files, up, workerVars, buffer, mainVars, local, history, count>>

\* The owner's main thread does something else: it serves others, waits for one
\* that says nothing, for room in its own buffer or for a leaked mutex (Peers).
OwnerIsBusy ==
    /\ up /\ serving = Select
    /\ serving' = [at |-> "busy"]
    /\ UNCHANGED <<files, up, connection, workerVars, buffer, mainVars, local, history, count>>

\* It need not ever be done with that.
OwnerIsBack ==
    /\ serving.at = "busy"
    /\ serving' = Select
    /\ UNCHANGED <<files, up, connection, workerVars, buffer, mainVars, local, history, count>>

\* The owner's user changes, creates or deletes a file.
Edit(f) ==
    /\ count.edits < MaxEdits
    /\ \E c \in (Contents \cup {NoFile}) \ {files[f]} :
          /\ files' = [files EXCEPT ![f] = c]
          /\ had' = [had EXCEPT ![f] = @ \cup ({c} \ {NoFile})]
    /\ since' = [since EXCEPT !.unchanged = @ \ {f}]
    /\ torn' = IF serving.at = "read" /\ serving.file = f THEN torn \cup {f} ELSE torn
    /\ count' = [count EXCEPT !.edits = @ + 1]
    /\ UNCHANGED <<up, serving, connection, workerVars, buffer, mainVars, local>>

OwnerStarts ==
    /\ ~up
    /\ up' = TRUE
    /\ UNCHANGED <<files, serving, connection, workerVars, buffer, mainVars, local, history, count>>

\* Whatever it has not answered, it never will.
OwnerStops ==
    /\ up
    /\ count.stops < MaxStops
    /\ up' = FALSE
    /\ serving' = Select
    /\ connection' = IF connection \in Requests THEN Null ELSE connection
    /\ since' = [since EXCEPT !.unchanged = {}]
    /\ count' = [count EXCEPT !.stops = @ + 1]
    /\ UNCHANGED <<files, workerVars, buffer, mainVars, local, had, torn>>
-----------------------------------------------------------------------------
(* The client's main thread. *)

\* CLIENT_LIST or USER_ON names the owner: list_rpush, then a push that waits.
UserOn ==
    /\ pc # "off" /\ ~pushing
    /\ count.notices < MaxNotices
    /\ entries' = entries + 1
    /\ pushing' = TRUE
    /\ count' = [count EXCEPT !.notices = @ + 1]
    /\ UNCHANGED <<ownerVars, connection, workerVars, buffer, local, history>>

\* Mutant: a full buffer does not stop a push.
MainPush_without_waiting ==
    /\ pushing
    /\ buffer' = Append(buffer, ListRecord)
    /\ pushing' = FALSE
    /\ UNCHANGED <<ownerVars, connection, workerVars, entries, local, history, count>>

MainPush ==
    /\ pushing
    /\ Len(buffer) < Capacity
    /\ buffer' = Append(buffer, ListRecord)
    /\ pushing' = FALSE
    /\ UNCHANGED <<ownerVars, connection, workerVars, entries, local, history, count>>

UserOff ==
    /\ pc # "off" /\ ~pushing
    /\ entries > 0
    /\ entries' = entries - 1
    /\ UNCHANGED <<ownerVars, connection, workerVars, buffer, pushing, local, history, count>>
-----------------------------------------------------------------------------
(* The client's worker: worker_function. *)

\* shared_buffer_pop and list_find_element.
Pop ==
    /\ pc = "pop"
    /\ buffer # <<>>
    /\ info' = Head(buffer)
    /\ buffer' = Tail(buffer)
    /\ pc' = IF entries = 0 THEN "pop" ELSE "ask"
    /\ UNCHANGED <<ownerVars, connection, received, mainVars, local, history, count>>

\* request_files_from_client, up to the answer.
AskFileList ==
    /\ pc = "ask" /\ info.file = NoFile
    /\ IF up
       THEN connection' = create_get_file_list_request /\ pc' = "wait"
       ELSE pc' = "pop" /\ UNCHANGED connection
    /\ UNCHANGED <<ownerVars, info, received, buffer, mainVars, local, history, count>>

\* Mutant: the version is sent as it was listed although there is no copy.
AskFile_as_listed ==
    /\ pc = "ask" /\ info.file # NoFile
    /\ IF up
       THEN /\ connection' = create_get_file_request(info.file, info.version)
            /\ pc' = "wait"
       ELSE pc' = "pop" /\ UNCHANGED connection
    /\ UNCHANGED <<ownerVars, info, received, buffer, mainVars, local, history, count>>

\* request_file_from_client, up to the answer: the version of a copy is not
\* computed, the owner gets its own one back.
AskFile ==
    /\ pc = "ask" /\ info.file # NoFile
    /\ info' = IF local[info.file] = NoFile THEN [info EXCEPT !.version = 0] ELSE info
    /\ IF up
       THEN /\ connection' = create_get_file_request(info.file, info'.version)
            /\ pc' = "wait"
       ELSE pc' = "pop" /\ UNCHANGED connection
    /\ UNCHANGED <<ownerVars, received, buffer, mainVars, local, history, count>>

\* A null request has no entries.
ReceiveFileList ==
    /\ pc = "wait" /\ info.file = NoFile
    /\ connection.kind \in {"FILE_LIST", "null"}
    /\ received' = IF connection = Null THEN <<>> ELSE connection.list
    /\ pc' = IF received' = <<>> THEN "pop" ELSE "push"
    /\ connection' = NoRequest
    /\ UNCHANGED <<ownerVars, info, buffer, mainVars, local, history, count>>

\* The worker pushes into the buffer that only it empties.
PushEntry ==
    /\ pc = "push"
    /\ Len(buffer) < Capacity
    /\ buffer' = Append(buffer, Head(received))
    /\ received' = Tail(received)
    /\ pc' = IF received' = <<>> THEN "pop" ELSE "push"
    /\ UNCHANGED <<ownerVars, connection, info, mainVars, local, history, count>>

\* FILE_NOT_FOUND or FILE_UP_TO_DATE: nothing is stored.
ReceiveVerdict ==
    /\ pc = "wait"
    /\ connection.kind \in {"FILE_NOT_FOUND", "FILE_UP_TO_DATE"}
    /\ connection' = NoRequest
    /\ pc' = "pop"
    /\ UNCHANGED <<ownerVars, info, received, buffer, mainVars, local, history, count>>

\* Mutant: open with O_TRUNC.
Opened_truncated == [local EXCEPT ![info.file] = <<>>]

\* open with O_CREAT and without O_TRUNC.
Opened == [local EXCEPT ![info.file] = IF @ = NoFile THEN <<>> ELSE @]

OpenCopy ==
    /\ pc = "wait"
    /\ connection.kind = "FILE"
    /\ local' = Opened
    /\ pc' = "write"
    /\ UNCHANGED <<ownerVars, connection, info, received, buffer, mainVars, history, count>>

WriteCopy ==
    /\ pc = "write"
    /\ local' = [local EXCEPT ![info.file] = Overwrite(connection.content, @)]
    /\ connection' = NoRequest
    /\ pc' = "pop"
    /\ UNCHANGED <<ownerVars, info, received, buffer, mainVars, history, count>>

\* The process is gone, and with it everything but the copies.
Exit ==
    /\ pc' = "off"
    /\ info' = ListRecord
    /\ received' = <<>>
    /\ buffer' = <<>>
    /\ entries' = 0
    /\ pushing' = FALSE
    /\ connection' = NoRequest
    /\ since' = [since EXCEPT !.unchanged = {}]

\* A null request is no verdict (its command_length is 0), so the copy is
\* opened and the file size is read from address 8.
ReceiveNull ==
    /\ pc = "wait" /\ info.file # NoFile
    /\ connection = Null
    /\ local' = Opened
    /\ Exit
    /\ UNCHANGED <<ownerVars, had, torn, count>>

ClientStarts ==
    /\ pc = "off"
    /\ pc' = "pop"
    /\ UNCHANGED <<ownerVars, connection, info, received, buffer, mainVars, local, history, count>>

\* What the owner does for a client that is gone changes nothing.
ClientStops ==
    /\ pc # "off"
    /\ count.stops < MaxStops
    /\ Exit
    /\ serving' = IF serving.at = "busy" THEN serving ELSE Select
    /\ count' = [count EXCEPT !.stops = @ + 1]
    /\ UNCHANGED <<files, up, local, had, torn>>
-----------------------------------------------------------------------------
Owner ==
    \/ AcceptGetFileList \/ Walk \/ ListEntry \/ AnswerFileList
    \/ AcceptGetFile \/ AnswerGetFile

Worker ==
    \/ Pop \/ AskFileList \/ AskFile
    \/ ReceiveFileList \/ PushEntry
    \/ ReceiveVerdict \/ OpenCopy \/ WriteCopy \/ ReceiveNull

Next ==
    \/ Owner \/ OwnerIsBusy \/ OwnerIsBack \/ OwnerStarts \/ OwnerStops
    \/ \E f \in Files : Edit(f)
    \/ UserOn \/ MainPush \/ UserOff
    \/ Worker \/ ClientStarts \/ ClientStops

Spec == Init /\ [][Next]_vars

\* The three threads run.  Nobody has to edit, start, stop or come and go, and
\* the owner's main thread need not come back from what it is busy with.
FairSpec == Spec /\ WF_vars(Owner) /\ WF_vars(Worker) /\ WF_vars(MainPush)
-----------------------------------------------------------------------------
TypeOK ==
    /\ files \in [Files -> Contents \cup {NoFile}]
    /\ up \in BOOLEAN
    /\ serving \in Serving
    /\ connection \in Requests \cup Answers \cup {NoRequest, Null}
    /\ pc \in {"off", "pop", "ask", "wait", "push", "write"}
    /\ info \in Records
    /\ received \in Seq(Records)
    /\ buffer \in Seq(Records) /\ Len(buffer) <= Capacity
    /\ entries \in Nat
    /\ pushing \in BOOLEAN
    /\ local \in [Files -> Seq(Versions) \cup {NoFile}]
    /\ had \in [Files -> SUBSET Contents]
    /\ since \in [unchanged : SUBSET Files, copied : SUBSET Files]
    /\ torn \subseteq Files
    /\ count \in [notices : 0 .. MaxNotices, edits : 0 .. MaxEdits, stops : 0 .. MaxStops]

(***************************************************************************)
(* A copy of a file that nobody edited between the stat and the read of an *)
(* answer never holds words of another file, nor a torn version: it is     *)
(* empty or starts with all of something the owner's file once held, and   *)
(* every word after that was at its place in some version.  (An edit at    *)
(* any other time is allowed, of other files at all times.)  About open    *)
(* without O_TRUNC, write at offset 0 and processes that stop in between.  *)
(***************************************************************************)
StartsWithAVersion(f) ==
    \E c \in had[f] : c # <<>> /\ IsPrefix(c, local[f])

WordOfAVersion(f, i) ==
    \E c \in had[f] : i <= Len(c) /\ c[i] = local[f][i]

CopiesAreMadeOfVersions ==
    \A f \in Files \ torn : local[f] \notin {NoFile, <<>>} =>
        /\ StartsWithAVersion(f)
        /\ \A i \in 1 .. Len(local[f]) : WordOfAVersion(f, i)

(***************************************************************************)
(* Step by step, and of every file: a copy comes to be empty, and nothing  *)
(* changes it but the one step that writes over its beginning.  That step  *)
(* writes as many words as one version of the same file has, the words of  *)
(* one version - a later one, if the file was edited between the stat and  *)
(* the read, and then any words after its end.  So a client that stops     *)
(* between open and write has lost no word of what it had.  About the      *)
(* owner's three system calls on the file, the worker's open and write,    *)
(* which use the record that they asked for, and all other steps, which    *)
(* leave the copies alone.                                                 *)
(***************************************************************************)
MF == INSTANCE MirroredFiles WITH versions <- had, copy <- local, Words <- Versions

CopiesAreMirrored == MF!Spec

(***************************************************************************)
(* When the client has nothing left to do, every file that nobody changed  *)
(* since it asked for the list is copied word for word - unless there was  *)
(* a copy before, which is not looked at, or the version of the file is 0, *)
(* which is taken for `no copy'.  About the record that main pushes, those *)
(* that the worker pushes and the three answers to GET_FILE.               *)
(***************************************************************************)
Quiet == pc = "pop" /\ buffer = <<>> /\ ~pushing /\ entries > 0

QuietMeansCopied ==
    Quiet => \A f \in since.unchanged \ since.copied :
        \/ files[f] \in {NoFile, local[f]}
        \/ compute_file_hash(files[f]) = 0

(***************************************************************************)
(* The worker comes back for the next record - also when the owner stops,  *)
(* when its files vanish and when it has none - unless it waits for room   *)
(* in a buffer that nobody else empties, or for an owner whose main thread *)
(* is busy: there is no timeout, so should that be for ever, it waits for  *)
(* ever.  That a main thread can be kept for ever is what Peers shows.     *)
(***************************************************************************)
WaitsForItself == pc = "push" /\ Len(buffer) = Capacity

WaitsForTheOwner == pc = "wait" /\ connection \in Requests /\ serving.at = "busy"

WorkerComesBack ==
    pc \in {"ask", "wait", "push", "write"}
        ~> pc \in {"pop", "off"} \/ WaitsForItself \/ WaitsForTheOwner

(***************************************************************************)
(* string_utils.h:18-19 declares both strings of str_n_equals non-null.    *)
(* request_file_from_client passes it what ipv4_socket_get_request gave.   *)
(***************************************************************************)
StrNEqualsGetsStrings == ~(pc = "wait" /\ info.file # NoFile /\ connection = Null)

(***************************************************************************)
(* client.c:184 reports `File is up to date': of a file that nobody        *)
(* changed since it was listed, the client has what the owner has.         *)
(***************************************************************************)
UpToDateMeansSame ==
    pc = "wait" /\ connection.kind = "FILE_UP_TO_DATE" /\ info.file \in since.unchanged
        => local[info.file] = files[info.file]
=============================================================================
