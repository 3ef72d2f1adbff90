------------------------- MODULE FileTransferProofs -------------------------
(***************************************************************************)
(* What TLAPS proves of FileTransfer, for any files and contents, any      *)
(* buffer, and any number of edits, stops and notices.                     *)
(***************************************************************************)
EXTENDS FileTransfer, DataLemmas

\* A version is 0 or what some content hashes to.
Content == Seq(Versions)
Hashes  == {0} \cup {compute_file_hash(c) : c \in Content}
Listed  == [file : Files \cup {NoFile}, version : Hashes]

Shape ==
    /\ files \in [Files -> Contents \cup {NoFile}]
    /\ serving \in [at : {"select", "busy"}]
                     \cup [at : {"walk"}, left : SUBSET Files, list : Seq(Listed)]
                     \cup [at : {"entry"}, left : SUBSET Files, list : Seq(Listed),
                            file : Files, length : Nat]
                     \cup [at : {"read"}, file : Files, length : Nat]
    /\ connection \in [kind : {"none", "null", "GET_FILE_LIST", "FILE_NOT_FOUND", "FILE_UP_TO_DATE"}]
                        \cup [kind : {"GET_FILE"}, file : Files, version : Hashes]
                        \cup [kind : {"FILE_LIST"}, list : Seq(Listed)]
                        \cup [kind : {"FILE"}, content : Content]
    /\ info \in Listed
    /\ received \in Seq(Listed)
    /\ buffer \in Seq(Listed)
    /\ local \in [Files -> Content \cup {NoFile}]
    /\ had \in [Files -> SUBSET Contents]

\* Everything that a file holds, it has held.
Remembered == \A f \in Files : files[f] \in had[f] \cup {NoFile}

\* What is sent for a file with these versions: nothing, or as many words as one
\* of them has, the words of one of them and then any.  It is whole if nobody
\* edited the file between the stat and the read.
WasRead(content, versions, whole) ==
    \/ content = <<>>
    \/ /\ \E c, d \in versions : content \in MF!Readings(c, d)
       /\ whole => content \in versions

\* What stat said is the length of a version; of the one that is still there,
\* unless the file was edited meanwhile.
Measured ==
    serving.at = "read" =>
        /\ \E c \in had[serving.file] : serving.length = Len(c)
        /\ serving.file \notin torn =>
              files[serving.file] # NoFile /\ serving.length = Len(files[serving.file])

(***************************************************************************)
(* The request is for the file of the record, which the worker keeps until *)
(* the answer is stored; what is answered was read of that file.  (And the *)
(* worker pushes no entry of an empty list.)                               *)
(***************************************************************************)
Asked ==
    /\ serving.at = "read" => connection.kind = "GET_FILE" /\ serving.file = connection.file
    /\ serving.at \in {"walk", "entry"} => connection.kind = "GET_FILE_LIST"
    /\ pc = "push" => received # <<>>
    /\ connection.kind \in {"GET_FILE", "GET_FILE_LIST"} => pc = "wait"
    /\ connection.kind = "GET_FILE" => connection.file = info.file
    /\ connection.kind = "FILE" =>
          /\ pc \in {"wait", "write"}
          /\ info.file \in Files
          /\ WasRead(connection.content, had[info.file], info.file \notin torn)

\* A copy is opened, and there, before it is written.
OpenedFirst == pc = "write" => connection.kind = "FILE" /\ local[info.file] \in Content

Copied ==
    Shape /\ Remembered /\ Measured /\ Asked /\ OpenedFirst /\ CopiesAreMadeOfVersions
-----------------------------------------------------------------------------
(* Overwriting a file that is not truncated. *)

LEMMA OverwriteWords ==
    ASSUME NEW new \in Content, NEW old \in Content
    PROVE  /\ Overwrite(new, old) \in Content
           /\ Len(Overwrite(new, old)) = IF Len(new) >= Len(old) THEN Len(new) ELSE Len(old)
           /\ \A i \in 1 .. Len(Overwrite(new, old)) :
                 Overwrite(new, old)[i] = IF i <= Len(new) THEN new[i] ELSE old[i]
<1>. DEFINE rest == SubSeq(old, Len(new) + 1, Len(old))
<1>1. /\ rest \in Content
      /\ Len(rest) = IF Len(new) >= Len(old) THEN 0 ELSE Len(old) - Len(new)
      /\ \A i \in 1 .. Len(rest) : rest[i] = old[Len(new) + i]
  BY DEF Content
<1>2. Overwrite(new, old) = new \o rest
  BY DEF Overwrite
<1>. HIDE DEF rest
<1>3. /\ new \o rest \in Content
      /\ Len(new \o rest) = Len(new) + Len(rest)
      /\ \A i \in 1 .. Len(new) + Len(rest) :
            (new \o rest)[i] = IF i <= Len(new) THEN new[i] ELSE rest[i - Len(new)]
  BY <1>1 DEF Content
<1>4. Len(new) \in Nat /\ Len(old) \in Nat
  BY DEF Content
<1>5. ASSUME NEW i \in 1 .. Len(new \o rest), i > Len(new)
      PROVE  rest[i - Len(new)] = old[i]
  <2>1. i - Len(new) \in 1 .. Len(rest)
    BY <1>1, <1>3, <1>4, <1>5
  <2>. QED BY <1>1, <1>4, <1>5, <2>1
<1>. QED BY <1>1, <1>2, <1>3, <1>4, <1>5

\* What a copy is to be made of: StartsWithAVersion and WordOfAVersion.
MadeOf(copy, versions) ==
    /\ \E c \in versions : c # <<>> /\ IsPrefix(c, copy)
    /\ \A i \in 1 .. Len(copy) : \E c \in versions : i <= Len(c) /\ c[i] = copy[i]

LEMMA OverwriteMadeOf ==
    ASSUME NEW versions \in SUBSET Content, NEW new \in versions \cup {<<>>}, NEW old \in Content,
           old = <<>> \/ MadeOf(old, versions), Overwrite(new, old) # <<>>
    PROVE  MadeOf(Overwrite(new, old), versions)
<1>. DEFINE copy == Overwrite(new, old)
<1>1. new \in Content
  <2>1. <<>> \in Content
    BY EmptySeq DEF Content
  <2>. QED BY <2>1
<1>2. /\ copy \in Content
      /\ Len(copy) = IF Len(new) >= Len(old) THEN Len(new) ELSE Len(old)
      /\ \A i \in 1 .. Len(copy) : copy[i] = IF i <= Len(new) THEN new[i] ELSE old[i]
  BY <1>1, OverwriteWords
<1>. HIDE DEF copy
<1>3. CASE new = <<>>
  <2>1. Len(copy) = Len(old) /\ \A i \in 1 .. Len(old) : copy[i] = old[i]
    BY <1>2, <1>3 DEF Content
  <2>2. copy = old
    BY <1>2, <2>1 DEF Content
  <2>. QED BY <2>2 DEF copy
<1>4. CASE new # <<>>
  <2>1. new \in versions
    BY <1>4
  <2>2. Len(new) \in Nat /\ Len(old) \in Nat /\ Len(new) <= Len(copy)
    BY <1>1, <1>2 DEF Content
  <2>3. SubSeq(new, 1, Len(new)) = SubSeq(copy, 1, Len(new))
    BY <1>1, <1>2, <2>2 DEF Content
  <2>4. IsPrefix(new, copy)
    BY <2>2, <2>3 DEF IsPrefix
  <2>5. ASSUME NEW i \in 1 .. Len(copy)
        PROVE  \E c \in versions : i <= Len(c) /\ c[i] = copy[i]
    <3>1. CASE i <= Len(new)
      BY <1>2, <2>1, <3>1
    <3>2. CASE i > Len(new)
      <4>1. i \in 1 .. Len(old) /\ copy[i] = old[i]
        BY <1>2, <2>2, <3>2
      <4>2. MadeOf(old, versions)
        BY <4>1
      <4>. QED BY <4>1, <4>2 DEF MadeOf
    <3>. QED BY <2>2, <3>1, <3>2
  <2>. QED BY <1>4, <2>1, <2>4, <2>5 DEF MadeOf, copy
<1>. QED BY <1>3, <1>4
\* Reading a file gives words, and those of the file if its length is right.
LEMMA ReadingsAre ==
    ASSUME NEW f, NEW n \in Nat, NEW r \in Readings(f, n), files[f] \in Content
    PROVE  r \in Content /\ (n = Len(files[f]) => r = files[f])
<1>1. r \in [1 .. n -> Versions] /\ \A i \in 1 .. n : i <= Len(files[f]) => r[i] = files[f][i]
  BY DEF Readings
<1>2. r \in Content /\ Len(r) = n
  BY <1>1 DEF Content
<1>3. CASE n = Len(files[f])
  <2>1. \A i \in 1 .. Len(r) : r[i] = files[f][i]
    BY <1>1, <1>2, <1>3
  <2>. QED BY <1>2, <1>3, <2>1, SeqEqual DEF Content
<1>. QED BY <1>2, <1>3
-----------------------------------------------------------------------------
LEMMA InitCopied == Init => Copied
<1> SUFFICES ASSUME Init PROVE Copied
  OBVIOUS
<1>1. ListRecord \in Listed /\ <<>> \in Seq(Listed)
  BY EmptySeq DEF ListRecord, Listed, Hashes
<1>2. Shape
  BY <1>1 DEF Init, Shape, Select, NoRequest, ListRecord
<1>3. Remembered /\ Measured /\ Asked /\ OpenedFirst /\ CopiesAreMadeOfVersions
  BY DEF Init, Remembered, Measured, Asked, OpenedFirst, CopiesAreMadeOfVersions, Select, NoRequest
<1>. QED BY <1>2, <1>3 DEF Copied

\* Steps that leave the copies and what the files have held alone.
LEMMA KeepsCopies ==
    ASSUME Copied, UNCHANGED <<local, had, torn>>
    PROVE  CopiesAreMadeOfVersions'
BY DEF Copied, CopiesAreMadeOfVersions, StartsWithAVersion, WordOfAVersion

\* What Exit leaves behind.
LEMMA ExitShape ==
    ASSUME Copied, Exit, UNCHANGED had, UNCHANGED files,
           serving' \in {serving, Select}, serving'.at \notin {"read", "walk", "entry"},
           local' \in [Files -> Content \cup {NoFile}]
    PROVE  Shape' /\ Remembered' /\ Measured' /\ Asked' /\ OpenedFirst'
<1>1. ListRecord \in Listed /\ <<>> \in Seq(Listed)
  BY EmptySeq DEF ListRecord, Listed, Hashes
<1>2. Shape'
  BY <1>1 DEF Copied, Shape, Exit, NoRequest, Select
<1>. QED BY <1>2 DEF Copied, Remembered, Measured, Asked, OpenedFirst, Exit, NoRequest
-----------------------------------------------------------------------------
LEMMA OwnerPreserves ==
    ASSUME Copied, Owner \/ OwnerIsBusy \/ OwnerIsBack
    PROVE  Copied'
<1>. USE DEF workerVars, mainVars, history
<1>1. UNCHANGED <<files, local, had, torn, pc, info, received, buffer>>
  BY DEF Owner, AcceptGetFileList, Walk, ListEntry, AnswerFileList, AcceptGetFile, AnswerGetFile,
         OwnerIsBusy, OwnerIsBack
<1>2. ASSUME Shape', Measured', Asked', pc = "write" => UNCHANGED connection
      PROVE  Copied'
  BY <1>1, <1>2, KeepsCopies DEF Copied, Remembered, OpenedFirst
<1>3. CASE AcceptGetFileList
  <2>1. serving' = [at |-> "walk", left |-> Files, list |-> <<>>]
        /\ connection' = connection /\ connection.kind = "GET_FILE_LIST"
    BY <1>3 DEF AcceptGetFileList
  <2>2. Shape'
    BY <1>1, <2>1, EmptySeq DEF Copied, Shape
  <2>3. Measured' /\ Asked'
    BY <1>1, <2>1 DEF Copied, Measured, Asked
  <2>. QED BY <1>2, <2>1, <2>2, <2>3
<1>4. CASE Walk
  <2>1. serving \in [at : {"walk"}, left : SUBSET Files, list : Seq(Listed)]
    BY <1>4 DEF Walk, Copied, Shape
  <2>2. PICK f \in serving.left :
            serving' = IF files[f] = NoFile
                       THEN [serving EXCEPT !.left = @ \ {f}]
                       ELSE [at |-> "entry", left |-> serving.left \ {f}, list |-> serving.list,
                             file |-> f, length |-> Len(files[f])]
    BY <1>4 DEF Walk
  <2>3. f \in Files /\ (files[f] # NoFile => Len(files[f]) \in Nat)
    BY <2>1, <2>2, TransferAssumption DEF Copied, Shape
  <2>4. serving' \in [at : {"walk"}, left : SUBSET Files, list : Seq(Listed)]
                       \cup [at : {"entry"}, left : SUBSET Files, list : Seq(Listed),
                              file : Files, length : Nat]
    BY <2>1, <2>2, <2>3
  <2>5. connection' = connection /\ serving.at = "walk"
    BY <1>4 DEF Walk
  <2>6. Shape'
    BY <1>1, <2>4, <2>5 DEF Copied, Shape
  <2>7. Measured' /\ Asked'
    BY <1>1, <2>4, <2>5 DEF Copied, Measured, Asked
  <2>. QED BY <1>2, <2>5, <2>6, <2>7
<1>5. CASE ListEntry
  <2>1. /\ serving.at = "entry"
        /\ serving \in [at : {"entry"}, left : SUBSET Files, list : Seq(Listed),
                         file : Files, length : Nat]
    BY <1>5 DEF ListEntry, Copied, Shape
  <2>2. PICK list : /\ serving' = [at |-> "walk", left |-> serving.left, list |-> list]
                    /\ \/ list = serving.list
                       \/ /\ files[serving.file] # NoFile
                          /\ \E r \in Readings(serving.file, serving.length) :
                                list = Append(serving.list, [file |-> serving.file,
                                                             version |-> compute_file_hash(r)])
    BY <1>5 DEF ListEntry
  <2>3. list \in Seq(Listed)
    <3>1. CASE list = serving.list
      BY <2>1, <3>1
    <3>2. CASE list # serving.list
      <4>1. PICK r \in Readings(serving.file, serving.length) :
                list = Append(serving.list, [file |-> serving.file,
                                             version |-> compute_file_hash(r)])
        BY <2>2, <3>2
      <4>2. files[serving.file] \in Content
        BY <2>1, <2>2, <3>2, TransferAssumption DEF Copied, Shape, Content, Versions
      <4>3. r \in Content
        BY <2>1, <4>2, ReadingsAre
      <4>4. [file |-> serving.file, version |-> compute_file_hash(r)] \in Listed
        BY <2>1, <4>3 DEF Listed, Hashes
      <4>. QED BY <2>1, <4>1, <4>4
    <3>. QED BY <3>1, <3>2
  <2>4. serving' \in [at : {"walk"}, left : SUBSET Files, list : Seq(Listed)]
    BY <2>1, <2>2, <2>3
  <2>5. connection' = connection
    BY <1>5 DEF ListEntry
  <2>6. Shape'
    BY <1>1, <2>4, <2>5 DEF Copied, Shape
  <2>7. Measured' /\ Asked'
    BY <1>1, <2>1, <2>4, <2>5 DEF Copied, Measured, Asked
  <2>. QED BY <1>2, <2>5, <2>6, <2>7
<1>6. CASE AnswerFileList
  <2>1. /\ serving.at = "walk" /\ serving' = Select
        /\ connection' \in {Null, [kind |-> "FILE_LIST", list |-> serving.list]}
    BY <1>6 DEF AnswerFileList
  <2>2. serving.list \in Seq(Listed)
    BY <2>1 DEF Copied, Shape
  <2>3. Shape'
    BY <1>1, <2>1, <2>2 DEF Copied, Shape, Select, Null
  <2>4. Measured' /\ Asked'
    BY <1>1, <2>1 DEF Copied, Measured, Asked, Select, Null
  <2>5. pc # "write"
    BY <2>1 DEF Copied, Asked, OpenedFirst
  <2>. QED BY <1>2, <2>3, <2>4, <2>5
<1>7. CASE AcceptGetFile
  <2>1. /\ connection.kind = "GET_FILE" /\ connection.file \in Files /\ serving = Select
    BY <1>7 DEF AcceptGetFile, Copied, Shape
  <2>2. CASE files[connection.file] = NoFile
    <3>1. connection' = [kind |-> "FILE_NOT_FOUND"] /\ serving' = serving
      BY <1>7, <2>2 DEF AcceptGetFile, create_file_not_found_request
    <3>2. Shape' /\ Measured'
      BY <1>1, <2>1, <3>1 DEF Copied, Shape, Measured, Select
    <3>3. Asked'
      BY <1>1, <2>1, <3>1 DEF Copied, Asked, Select
    <3>4. pc # "write"
      BY <2>1 DEF Copied, Asked
    <3>. QED BY <1>2, <3>2, <3>3, <3>4
  <2>3. CASE files[connection.file] # NoFile
    <3>1. /\ connection' = connection
          /\ serving' = [at |-> "read", file |-> connection.file,
                         length |-> Len(files[connection.file])]
      BY <1>7, <2>3 DEF AcceptGetFile
    <3>2. /\ files[connection.file] \in had[connection.file]
          /\ Len(files[connection.file]) \in Nat
      BY <2>1, <2>3, TransferAssumption DEF Copied, Shape, Remembered
    <3>3. Shape'
      BY <1>1, <2>1, <3>1, <3>2 DEF Copied, Shape
    <3>4. Measured'
      BY <1>1, <2>3, <3>1, <3>2 DEF Measured
    <3>5. Asked'
      BY <1>1, <2>1, <3>1 DEF Copied, Asked
    <3>. QED BY <1>2, <3>1, <3>3, <3>4, <3>5
  <2>. QED BY <2>2, <2>3
<1>8. CASE AnswerGetFile
  <2>1. serving.at = "read" /\ serving.file \in Files /\ serving.length \in Nat
    BY <1>8 DEF AnswerGetFile, Copied, Shape
  <2>2. PICK content \in IF files[serving.file] = NoFile
                         THEN {<<>>} ELSE Readings(serving.file, serving.length) :
            /\ serving' = Select
            /\ connection' \in {[kind |-> "FILE_UP_TO_DATE"],
                                [kind |-> "FILE", content |-> content]}
    BY <1>8 DEF AnswerGetFile, create_file_up_to_date_request, create_file_request
  <2>3. /\ connection.kind = "GET_FILE" /\ pc = "wait"
        /\ serving.file = info.file /\ info.file \in Files
    BY <2>1 DEF Copied, Asked
  <2>4. content \in Content /\ WasRead(content, had[info.file], info.file \notin torn)
    <3>1. CASE files[serving.file] = NoFile
      BY <2>2, <3>1, EmptySeq DEF WasRead, Content
    <3>2. CASE files[serving.file] # NoFile
      <4>1. content \in Readings(serving.file, serving.length)
        BY <2>2, <3>2
      <4>2. files[serving.file] \in had[info.file] /\ files[serving.file] \in Content
        BY <2>1, <2>3, <3>2, TransferAssumption DEF Copied, Shape, Remembered, Content, Versions
      <4>3. content \in Content /\ (serving.length = Len(files[serving.file])
                                        => content = files[serving.file])
        BY <2>1, <4>1, <4>2, ReadingsAre
      <4>4. PICK c \in had[info.file] : serving.length = Len(c)
        BY <2>1, <2>3 DEF Copied, Measured
      <4>5. content \in MF!Readings(c, files[serving.file])
        BY <4>1, <4>4 DEF Readings, MF!Readings
      <4>6. info.file \notin torn => content \in had[info.file]
        BY <2>1, <2>3, <4>2, <4>3 DEF Copied, Measured
      <4>. QED BY <4>2, <4>3, <4>5, <4>6 DEF WasRead
    <3>. QED BY <3>1, <3>2
  <2>5. Shape'
    BY <1>1, <2>2, <2>4 DEF Copied, Shape, Select
  <2>6. Measured' /\ Asked'
    BY <1>1, <2>2, <2>3, <2>4 DEF Measured, Asked, Select
  <2>. QED BY <1>2, <2>3, <2>5, <2>6
<1>9. CASE OwnerIsBusy \/ OwnerIsBack
  <2>1. /\ connection' = connection /\ serving' \in [at : {"select", "busy"}]
        /\ serving.at \in {"select", "busy"}
    BY <1>9 DEF OwnerIsBusy, OwnerIsBack, Select
  <2>2. Shape'
    BY <1>1, <2>1 DEF Copied, Shape
  <2>3. Measured' /\ Asked'
    BY <1>1, <2>1 DEF Copied, Measured, Asked
  <2>. QED BY <1>2, <2>1, <2>2, <2>3
<1>. QED BY <1>3, <1>4, <1>5, <1>6, <1>7, <1>8, <1>9 DEF Owner

LEMMA EditPreserves ==
    ASSUME Copied, NEW f \in Files, Edit(f)
    PROVE  Copied'
<1>. USE DEF workerVars, mainVars
<1>1. PICK c \in Contents \cup {NoFile} :
          /\ files' = [files EXCEPT ![f] = c]
          /\ had' = [had EXCEPT ![f] = @ \cup ({c} \ {NoFile})]
  BY DEF Edit
<1>2. UNCHANGED <<serving, connection, pc, info, received, buffer, local>>
  BY DEF Edit
<1>3. torn \subseteq torn' /\ (serving.at = "read" /\ serving.file = f => f \in torn')
  BY DEF Edit
<1>4. Shape'
  BY <1>1, <1>2 DEF Copied, Shape
<1>5. \A g \in Files : had[g] \subseteq had'[g]
  BY <1>1 DEF Copied, Shape
<1>6. Remembered'
  BY <1>1 DEF Copied, Shape, Remembered
<1>7. Measured'
  <2>. SUFFICES ASSUME serving.at = "read" PROVE Measured'
    BY <1>2 DEF Measured
  <2>1. serving.file \in Files
    BY DEF Copied, Shape
  <2>2. serving.file # f => files'[serving.file] = files[serving.file]
    BY <1>1, <2>1 DEF Copied, Shape
  <2>. QED BY <1>2, <1>3, <1>5, <2>1, <2>2 DEF Copied, Measured
<1>8. Asked'
  <2>1. ASSUME connection.kind = "FILE"
        PROVE  WasRead(connection.content, had'[info.file], info.file \notin torn')
    <3>1. had[info.file] \subseteq had'[info.file]
          /\ WasRead(connection.content, had[info.file], info.file \notin torn)
      BY <1>5, <2>1 DEF Copied, Asked
    <3>. QED BY <1>3, <3>1 DEF WasRead
  <2>. QED BY <1>2, <2>1 DEF Copied, Asked
<1>9. OpenedFirst'
  BY <1>2 DEF Copied, OpenedFirst
<1>10. CopiesAreMadeOfVersions'
  BY <1>2, <1>3, <1>5 DEF Copied, CopiesAreMadeOfVersions, StartsWithAVersion, WordOfAVersion
<1>. QED BY <1>4, <1>6, <1>7, <1>8, <1>9, <1>10 DEF Copied

LEMMA OwnerStopsPreserves ==
    ASSUME Copied, OwnerStops
    PROVE  Copied'
<1>. USE DEF workerVars, mainVars
<1>1. /\ serving' = Select /\ connection' \in {Null, connection}
      /\ connection \in Requests \/ connection' = connection
      /\ UNCHANGED <<files, local, had, torn, pc, info, received, buffer>>
  BY DEF OwnerStops
<1>2. Shape'
  BY <1>1 DEF Copied, Shape, Select, Null
<1>3. Measured' /\ Asked'
  BY <1>1 DEF Copied, Measured, Asked, Select, Null
<1>4. OpenedFirst'
  BY <1>1 DEF Copied, OpenedFirst, Requests
<1>. QED BY <1>1, <1>2, <1>3, <1>4, KeepsCopies DEF Copied, Remembered
-----------------------------------------------------------------------------
(* The client. *)

\* Its main thread, and its start, touch nothing of this but the buffer and pc.
LEMMA MainPreserves ==
    ASSUME Copied, UserOn \/ MainPush \/ UserOff \/ ClientStarts
    PROVE  Copied'
<1>. USE DEF ownerVars, workerVars, mainVars, history
<1>1. /\ UNCHANGED <<files, serving, connection, info, received, local, had, torn>>
      /\ (pc' = pc) \/ (pc = "off" /\ pc' = "pop")
      /\ buffer' \in {buffer, Append(buffer, ListRecord)}
  BY SMT DEF UserOn, MainPush, UserOff, ClientStarts
<1>2. ListRecord \in Listed
  BY DEF ListRecord, Listed, Hashes
<1>3. Shape'
  <2>1. buffer \in Seq(Listed)
    BY DEF Copied, Shape
  <2>2. Append(buffer, ListRecord) \in Seq(Listed)
    BY <1>2, <2>1, AppendProperties
  <2>3. buffer' \in Seq(Listed)
    BY <1>1, <2>1, <2>2
  <2>. QED BY <1>1, <2>3 DEF Copied, Shape
<1>4. Measured' /\ Asked' /\ OpenedFirst'
  BY <1>1 DEF Copied, Measured, Asked, OpenedFirst
<1>. QED BY <1>1, <1>3, <1>4, KeepsCopies DEF Copied, Remembered

\* open, without truncation.
LEMMA OpenedKeeps ==
    ASSUME Copied, info.file \in Files, local' = Opened, UNCHANGED <<had, torn>>
    PROVE  /\ local' \in [Files -> Content \cup {NoFile}]
           /\ local'[info.file] \in Content
           /\ CopiesAreMadeOfVersions'
<1>1. <<>> \in Content
  BY EmptySeq DEF Content
<1>2. /\ local \in [Files -> Content \cup {NoFile}]
      /\ local'[info.file] = IF local[info.file] = NoFile THEN <<>> ELSE local[info.file]
      /\ \A f \in Files \ {info.file} : local'[f] = local[f]
  BY DEF Opened, Copied, Shape
<1>3. local' \in [Files -> Content \cup {NoFile}]
  BY <1>1 DEF Opened, Copied, Shape
<1>4. ASSUME NEW f \in Files, local'[f] \notin {NoFile, <<>>} PROVE local'[f] = local[f]
  BY <1>2, <1>4
<1>5. CopiesAreMadeOfVersions'
  BY <1>4 DEF Copied, CopiesAreMadeOfVersions, StartsWithAVersion, WordOfAVersion
<1>. QED BY <1>1, <1>2, <1>3, <1>5

LEMMA WorkerPreserves ==
    ASSUME Copied, Worker
    PROVE  Copied'
<1>. USE DEF ownerVars, mainVars, history
<1>1. ASSUME UNCHANGED <<files, serving, local, had, torn>>, Shape', Asked', pc' # "write"
      PROVE  Copied'
  BY <1>1, KeepsCopies DEF Copied, Remembered, Measured, OpenedFirst
<1>2. CASE Pop
  <2>1. /\ info' = Head(buffer) /\ buffer' = Tail(buffer) /\ buffer # <<>>
        /\ pc = "pop" /\ pc' \in {"pop", "ask"}
        /\ UNCHANGED <<files, serving, connection, received, local, had, torn>>
    BY <1>2 DEF Pop
  <2>2. Shape'
    BY <2>1 DEF Copied, Shape
  <2>3. Asked'
    BY <2>1 DEF Copied, Asked
  <2>. QED BY <1>1, <2>1, <2>2, <2>3
<1>3. CASE AskFileList
  <2>1. /\ connection' \in {[kind |-> "GET_FILE_LIST"], connection}
        /\ connection' = connection \/ pc' = "wait"
        /\ pc = "ask" /\ pc' \in {"wait", "pop"}
        /\ UNCHANGED <<files, serving, info, received, buffer, local, had, torn>>
    BY <1>3 DEF AskFileList, create_get_file_list_request
  <2>2. Shape'
    BY <2>1 DEF Copied, Shape
  <2>3. Asked'
    BY <2>1 DEF Copied, Asked
  <2>. QED BY <1>1, <2>1, <2>2, <2>3
<1>4. CASE AskFile
  <2>1. /\ info.file # NoFile
        /\ info' \in {info, [info EXCEPT !.version = 0]}
        /\ connection' \in {[kind |-> "GET_FILE", file |-> info.file, version |-> info'.version],
                            connection}
        /\ connection' = connection \/ pc' = "wait"
        /\ pc = "ask" /\ pc' \in {"wait", "pop"}
        /\ UNCHANGED <<files, serving, received, buffer, local, had, torn>>
    BY <1>4 DEF AskFile, create_get_file_request
  <2>2. info' \in Listed /\ info'.file = info.file /\ info.file \in Files
    BY <2>1 DEF Copied, Shape, Listed, Hashes
  <2>3. info'.version \in Hashes
    BY <2>2 DEF Listed
  <2>4. Shape'
    BY <2>1, <2>2, <2>3 DEF Copied, Shape
  <2>5. Asked'
    BY <2>1, <2>2 DEF Copied, Asked
  <2>. QED BY <1>1, <2>1, <2>4, <2>5
<1>5. CASE ReceiveFileList
  <2>1. /\ pc = "wait" /\ connection' = NoRequest
        /\ pc' = IF received' = <<>> THEN "pop" ELSE "push"
        /\ connection.kind \in {"FILE_LIST", "null"}
        /\ received' = IF connection = Null THEN <<>> ELSE connection.list
        /\ UNCHANGED <<files, serving, info, buffer, local, had, torn>>
    BY <1>5 DEF ReceiveFileList
  <2>2. received' \in Seq(Listed)
    BY <2>1, EmptySeq DEF Copied, Shape, Null
  <2>3. Shape'
    BY <2>1, <2>2 DEF Copied, Shape, NoRequest
  <2>4. Asked'
    BY <2>1 DEF Copied, Asked, NoRequest
  <2>. QED BY <1>1, <2>1, <2>3, <2>4
<1>6. CASE PushEntry
  <2>1. /\ pc = "push" /\ pc' = IF received' = <<>> THEN "pop" ELSE "push"
        /\ buffer' = Append(buffer, Head(received)) /\ received' = Tail(received)
        /\ UNCHANGED <<files, serving, connection, info, local, had, torn>>
    BY <1>6 DEF PushEntry
  <2>2. received # <<>> /\ received \in Seq(Listed) /\ buffer \in Seq(Listed)
    BY <2>1 DEF Copied, Shape, Asked
  <2>3. buffer' \in Seq(Listed) /\ received' \in Seq(Listed)
    BY <2>1, <2>2
  <2>4. Shape'
    BY <2>1, <2>3 DEF Copied, Shape
  <2>5. Asked'
    BY <2>1 DEF Copied, Asked
  <2>. QED BY <1>1, <2>1, <2>4, <2>5
<1>7. CASE ReceiveVerdict
  <2>1. /\ pc = "wait" /\ pc' = "pop" /\ connection' = NoRequest
        /\ connection.kind \in {"FILE_NOT_FOUND", "FILE_UP_TO_DATE"}
        /\ UNCHANGED <<files, serving, info, received, buffer, local, had, torn>>
    BY <1>7 DEF ReceiveVerdict
  <2>2. Shape'
    BY <2>1 DEF Copied, Shape, NoRequest
  <2>3. Asked'
    BY <2>1 DEF Copied, Asked, NoRequest
  <2>. QED BY <1>1, <2>1, <2>2, <2>3
<1>8. CASE OpenCopy
  <2>1. /\ pc = "wait" /\ connection.kind = "FILE" /\ local' = Opened /\ pc' = "write"
        /\ UNCHANGED <<files, serving, connection, info, received, buffer, had, torn>>
    BY <1>8 DEF OpenCopy
  <2>2. info.file \in Files
    BY <2>1 DEF Copied, Asked
  <2>3. /\ local' \in [Files -> Content \cup {NoFile}]
        /\ local'[info.file] \in Content
        /\ CopiesAreMadeOfVersions'
    BY <2>1, <2>2, OpenedKeeps
  <2>4. Shape'
    BY <2>1, <2>3 DEF Copied, Shape
  <2>5. Remembered' /\ Measured' /\ Asked' /\ OpenedFirst'
    BY <2>1, <2>3 DEF Copied, Remembered, Measured, Asked, OpenedFirst
  <2>. QED BY <2>3, <2>4, <2>5 DEF Copied
<1>9. CASE WriteCopy
  <2>. DEFINE old  == local[info.file]
              copy == Overwrite(connection.content, old)
  <2>1. /\ pc = "write" /\ pc' = "pop" /\ connection' = NoRequest
        /\ local' = [local EXCEPT ![info.file] = copy]
        /\ UNCHANGED <<files, serving, info, received, buffer, had, torn>>
    BY <1>9 DEF WriteCopy
  <2>2. /\ connection.kind = "FILE" /\ info.file \in Files
        /\ WasRead(connection.content, had[info.file], info.file \notin torn)
        /\ old \in Content /\ old # NoFile
    BY <2>1, TransferAssumption DEF Copied, Asked, OpenedFirst, Content, Versions
  <2>3. connection.content \in Content
    BY <2>2 DEF Copied, Shape
  <2>4. had[info.file] \in SUBSET Content
    BY <2>2, TransferAssumption DEF Copied, Shape, Content, Versions
  <2>5. info.file \notin torn => old = <<>> \/ MadeOf(old, had[info.file])
    BY <2>2 DEF Copied, CopiesAreMadeOfVersions, StartsWithAVersion, WordOfAVersion, MadeOf
  <2>. HIDE DEF old
  <2>6. copy \in Content
    BY <2>2, <2>3, OverwriteWords
  <2>7. ASSUME info.file \notin torn, copy # <<>> PROVE MadeOf(copy, had[info.file])
    <3>1. connection.content \in had[info.file] \cup {<<>>}
      BY <2>2, <2>7 DEF WasRead
    <3>2. old = <<>> \/ MadeOf(old, had[info.file])
      BY <2>5, <2>7
    <3>. QED BY <2>2, <2>4, <2>7, <3>1, <3>2, OverwriteMadeOf
  <2>. HIDE DEF copy
  <2>8. Shape'
    BY <2>1, <2>6 DEF Copied, Shape, NoRequest
  <2>9. Measured' /\ Asked'
    BY <2>1 DEF Copied, Measured, Asked, NoRequest
  <2>10. ASSUME NEW f \in Files \ torn, local'[f] \notin {NoFile, <<>>}
         PROVE  MadeOf(local'[f], had'[f])
    <3>1. CASE f = info.file
      <4>1. local'[f] = copy
        BY <2>1, <2>2, <3>1 DEF Copied, Shape
      <4>. QED BY <2>1, <2>7, <2>10, <3>1, <4>1
    <3>2. CASE f # info.file
      <4>1. local'[f] = local[f]
        BY <2>1, <3>2 DEF Copied, Shape
      <4>. QED BY <2>1, <2>10, <4>1
               DEF Copied, CopiesAreMadeOfVersions, StartsWithAVersion, WordOfAVersion, MadeOf
    <3>. QED BY <3>1, <3>2
  <2>11. CopiesAreMadeOfVersions'
    BY <2>1, <2>10 DEF CopiesAreMadeOfVersions, StartsWithAVersion, WordOfAVersion, MadeOf
  <2>. QED BY <2>1, <2>8, <2>9, <2>11 DEF Copied, Remembered, OpenedFirst
<1>10. CASE ReceiveNull
  <2>1. /\ info.file # NoFile /\ connection = Null /\ local' = Opened /\ Exit
        /\ UNCHANGED <<files, serving, had, torn>>
    BY <1>10 DEF ReceiveNull
  <2>2. info.file \in Files
    BY <2>1 DEF Copied, Shape, Listed
  <2>3. serving'.at \notin {"read", "walk", "entry"}
    BY <2>1 DEF Copied, Asked, Null
  <2>4. local' \in [Files -> Content \cup {NoFile}] /\ CopiesAreMadeOfVersions'
    BY <2>1, <2>2, OpenedKeeps
  <2>5. Shape' /\ Remembered' /\ Measured' /\ Asked' /\ OpenedFirst'
    BY <2>1, <2>3, <2>4, ExitShape
  <2>. QED BY <2>4, <2>5 DEF Copied
<1>. QED
  BY <1>2, <1>3, <1>4, <1>5, <1>6, <1>7, <1>8, <1>9, <1>10 DEF Worker

LEMMA ClientStopsPreserves ==
    ASSUME Copied, ClientStops
    PROVE  Copied'
<1>1. /\ Exit /\ serving' = (IF serving.at = "busy" THEN serving ELSE Select)
      /\ UNCHANGED <<files, local, had, torn>>
  BY DEF ClientStops
<1>2. serving'.at \notin {"read", "walk", "entry"} /\ local' \in [Files -> Content \cup {NoFile}]
  BY <1>1 DEF Select, Copied, Shape
<1>3. Shape' /\ Remembered' /\ Measured' /\ Asked' /\ OpenedFirst'
  BY <1>1, <1>2, ExitShape
<1>. QED BY <1>1, <1>3, KeepsCopies DEF Copied
-----------------------------------------------------------------------------
LEMMA NextPreserves == Copied /\ [Next]_vars => Copied'
<1> SUFFICES ASSUME Copied, [Next]_vars PROVE Copied'
  OBVIOUS
<1>1. CASE OwnerStarts \/ UNCHANGED vars
  <2>1. UNCHANGED <<files, serving, connection, pc, info, received, buffer, local, had, torn>>
    BY <1>1 DEF OwnerStarts, vars, ownerVars, workerVars, mainVars, history
  <2>2. Shape' /\ Remembered' /\ Measured' /\ Asked' /\ OpenedFirst'
    BY <2>1 DEF Copied, Shape, Remembered, Measured, Asked, OpenedFirst
  <2>. QED BY <2>1, <2>2, KeepsCopies DEF Copied
<1>. QED BY <1>1, OwnerPreserves, EditPreserves, OwnerStopsPreserves, MainPreserves,
             WorkerPreserves, ClientStopsPreserves DEF Next

(***************************************************************************)
(* CopiesAreMadeOfVersions: a copy of a file that nobody edited between    *)
(* the stat and the read of an answer is empty, or starts with a whole     *)
(* version of its file and goes on with words that were at their places in *)
(* versions - whatever else is edited or deleted meanwhile, whoever stops  *)
(* between open and write.                                                 *)
(***************************************************************************)
THEOREM CopiesAreMadeOfVersionsAlways == Spec => []CopiesAreMadeOfVersions
<1>1. Copied => CopiesAreMadeOfVersions
  BY DEF Copied
<1>. QED BY InitCopied, NextPreserves, <1>1, PTL DEF Spec
-----------------------------------------------------------------------------
(* FileTransfer implements MirroredFiles. *)

\* What write does to a file is what MirroredFiles promises.
LEMMA OverwriteIsOverlay ==
    ASSUME NEW new \in Content, NEW old \in Content
    PROVE  Overwrite(new, old) = MF!Overlay(new, old)
<1>. DEFINE whole == Overwrite(new, old)
<1>1. /\ whole \in Content
      /\ Len(whole) = IF Len(new) >= Len(old) THEN Len(new) ELSE Len(old)
      /\ \A i \in 1 .. Len(whole) : whole[i] = IF i <= Len(new) THEN new[i] ELSE old[i]
  BY OverwriteWords
<1>. HIDE DEF whole
<1>2. /\ DOMAIN new = 1 .. Len(new) /\ Len(new) \in Nat
      /\ DOMAIN old = 1 .. Len(old) /\ Len(old) \in Nat
      /\ whole = [i \in 1 .. Len(whole) |-> whole[i]]
  BY <1>1 DEF Content
<1>3. 1 .. Len(whole) = DOMAIN new \cup DOMAIN old
  BY <1>1, <1>2
<1>4. ASSUME NEW i \in 1 .. Len(whole)
      PROVE  whole[i] = IF i \in DOMAIN new THEN new[i] ELSE old[i]
  BY <1>1, <1>2
<1>5. MF!Overlay(new, old) = [i \in 1 .. Len(whole) |-> IF i \in DOMAIN new THEN new[i] ELSE old[i]]
  BY <1>3 DEF MF!Overlay
<1>. QED BY <1>2, <1>4, <1>5 DEF whole

\* Writing nothing.
LEMMA OverwriteNothing ==
    ASSUME NEW old \in Content
    PROVE  Overwrite(<<>>, old) = old
<1>1. <<>> \in Content /\ Len(<<>>) = 0
  BY EmptySeq DEF Content
<1>2. /\ Overwrite(<<>>, old) \in Content /\ Len(Overwrite(<<>>, old)) = Len(old)
      /\ \A i \in 1 .. Len(old) : Overwrite(<<>>, old)[i] = old[i]
  <2>1. Len(old) \in Nat
    BY DEF Content
  <2>. QED BY <1>1, <2>1, OverwriteWords
<1>. QED BY <1>2 DEF Content

LEMMA InitMirrored == Init => MF!Init
<1> SUFFICES ASSUME Init PROVE MF!Init
  OBVIOUS
<1>1. had = [f \in Files |-> {files[f]} \ {NoFile}] /\ files \in [Files -> Contents \cup {NoFile}]
  BY DEF Init
<1>2. ASSUME NEW f \in Files PROVE had[f] \in {{}} \cup {{c} : c \in Contents}
  <2>1. CASE files[f] = NoFile
    BY <1>1, <2>1
  <2>2. CASE files[f] # NoFile
    <3>1. had[f] = {files[f]} /\ files[f] \in Contents
      BY <1>1, <2>2
    <3>. QED BY <3>1
  <2>. QED BY <2>1, <2>2
<1>. QED BY <1>1, <1>2 DEF Init, MF!Init

\* open, whether or not there is a copy.
LEMMA OpenedMirrored ==
    ASSUME Copied, info.file \in Files, local' = Opened, UNCHANGED had
    PROVE  MF!Next \/ UNCHANGED <<had, local>>
<1>1. local \in [Files -> Content \cup {NoFile}]
  BY DEF Copied, Shape
<1>2. CASE local[info.file] = NoFile
  <2>1. local' = [local EXCEPT ![info.file] = <<>>]
    BY <1>1, <1>2 DEF Opened
  <2>. QED BY <1>2, <2>1 DEF MF!Next, MF!Create
<1>3. CASE local[info.file] # NoFile
  BY <1>1, <1>3 DEF Opened
<1>. QED BY <1>2, <1>3

LEMMA WriteMirrored ==
    ASSUME Copied, WriteCopy
    PROVE  MF!Next \/ UNCHANGED <<had, local>>
<1>. DEFINE f == info.file
<1>1. /\ pc = "write"
      /\ local' = [local EXCEPT ![f] = Overwrite(connection.content, local[f])]
      /\ UNCHANGED had
  BY DEF WriteCopy, history
<1>2. /\ f \in Files /\ WasRead(connection.content, had[f], f \notin torn)
      /\ local[f] \in Content /\ local[f] # NoFile /\ connection.content \in Content
      /\ local \in [Files -> Content \cup {NoFile}]
  BY <1>1, TransferAssumption DEF Copied, Shape, Asked, OpenedFirst, Content, Versions
<1>. HIDE DEF f
<1>3. CASE connection.content = <<>>
  <2>1. Overwrite(connection.content, local[f]) = local[f]
    BY <1>2, <1>3, OverwriteNothing
  <2>. QED BY <1>1, <1>2, <2>1
<1>4. CASE connection.content # <<>>
  <2>1. \E c, d \in had[f] : connection.content \in MF!Readings(c, d)
    BY <1>2, <1>4 DEF WasRead
  <2>2. Overwrite(connection.content, local[f]) = MF!Overlay(connection.content, local[f])
    BY <1>2, OverwriteIsOverlay
  <2>3. MF!Store(f)
    BY <1>1, <1>2, <2>1, <2>2 DEF MF!Store
  <2>. QED BY <1>2, <2>3 DEF MF!Next
<1>. QED BY <1>3, <1>4

\* Every step is one of MirroredFiles, or changes nothing that it sees.
LEMMA StepMirrored ==
    ASSUME Copied, [Next]_vars
    PROVE  MF!Next \/ UNCHANGED <<had, local>>
<1>. USE DEF ownerVars, workerVars, mainVars, history
<1>1. CASE \E f \in Files : Edit(f)
  <2>1. PICK f \in Files : Edit(f)
    BY <1>1
  <2>2. PICK c \in Contents \cup {NoFile} : had' = [had EXCEPT ![f] = @ \cup ({c} \ {NoFile})]
    BY <2>1 DEF Edit
  <2>3. UNCHANGED local /\ had \in [Files -> SUBSET Contents]
    BY <2>1 DEF Edit, Copied, Shape
  <2>4. CASE c = NoFile
    BY <2>2, <2>3, <2>4
  <2>5. CASE c # NoFile
    <3>1. c \in Contents /\ had' = [had EXCEPT ![f] = @ \cup {c}]
      BY <2>2, <2>5
    <3>. QED BY <2>3, <3>1 DEF MF!Next, MF!Edit
  <2>. QED BY <2>4, <2>5
<1>2. CASE OpenCopy
  <2>1. info.file \in Files /\ local' = Opened /\ UNCHANGED had
    BY <1>2 DEF OpenCopy, Copied, Asked
  <2>. QED BY <2>1, OpenedMirrored
<1>3. CASE ReceiveNull
  <2>1. info.file \in Files /\ local' = Opened /\ UNCHANGED had
    BY <1>3 DEF ReceiveNull, Copied, Shape, Listed
  <2>. QED BY <2>1, OpenedMirrored
<1>4. CASE WriteCopy
  BY <1>4, WriteMirrored
<1>5. CASE Owner \/ OwnerIsBusy \/ OwnerIsBack \/ OwnerStarts \/ OwnerStops \/ UNCHANGED vars
  BY <1>5 DEF Owner, AcceptGetFileList, Walk, ListEntry, AnswerFileList, AcceptGetFile,
              AnswerGetFile, OwnerIsBusy, OwnerIsBack, OwnerStarts, OwnerStops, vars
<1>6. CASE UserOn \/ MainPush \/ UserOff \/ ClientStarts \/ ClientStops
  BY <1>6 DEF UserOn, MainPush, UserOff, ClientStarts, ClientStops
<1>7. CASE Pop \/ AskFileList \/ AskFile \/ ReceiveFileList \/ PushEntry \/ ReceiveVerdict
  BY <1>7 DEF Pop, AskFileList, AskFile, ReceiveFileList, PushEntry, ReceiveVerdict
<1>. QED BY <1>1, <1>2, <1>3, <1>4, <1>5, <1>6, <1>7 DEF Next, Worker

(***************************************************************************)
(* FileTransfer implements MirroredFiles: whoever stops and whatever is    *)
(* edited or deleted, also between the system calls that read a file, a    *)
(* step creates an empty copy, puts what was read of its own file over the *)
(* beginning of a copy, or leaves the copies alone.                        *)
(***************************************************************************)
THEOREM CopiesAlwaysMirrored == Spec => CopiesAreMirrored
<1>1. Copied /\ [Next]_vars => [MF!Next]_(MF!vars)
  BY StepMirrored DEF MF!vars
<1>. QED BY InitCopied, NextPreserves, InitMirrored, <1>1, PTL DEF Spec, CopiesAreMirrored, MF!Spec
-----------------------------------------------------------------------------
(* The sum of a sequence, as FoldSeq takes it: element by element, in an   *)
(* order that CHOOSE knows.                                                *)

Some(s) == CHOOSE x \in s : TRUE

\* sum[s] is the sum of c over s, if it is over the sets with one place less.
SumStep(sum, c, s) == IF s = {} THEN 0 ELSE c[Some(s)] + sum[s \ {Some(s)}]

LEMMA OneLess ==
    ASSUME NEW s, IsFiniteSet(s), s # {}
    PROVE  /\ Some(s) \in s /\ s \ {Some(s)} \in SUBSET s
           /\ IsFiniteSet(s \ {Some(s)})
           /\ \A n \in Nat : Cardinality(s) = n + 1 => Cardinality(s \ {Some(s)}) = n
<1>1. Some(s) \in s
  BY DEF Some
<1>2. IsFiniteSet(s \ {Some(s)}) /\ Cardinality(s \ {Some(s)}) = Cardinality(s) - 1
  BY <1>1, FS_RemoveElement
<1>3. Cardinality(s) \in Nat
  BY FS_CardinalityType
<1>. QED BY <1>1, <1>2, <1>3

\* There is a function that sums up,
LEMMA SumsExist ==
    ASSUME NEW c \in Seq(Nat)
    PROVE  \E sum : sum = [s \in SUBSET DOMAIN c |-> SumStep(sum, c, s)]
<1>. DEFINE D == DOMAIN c
            Up(n, sum) == \A s \in SUBSET D : Cardinality(s) <= n => sum[s] = SumStep(sum, c, s)
            T == {n \in Nat : \E sum \in [SUBSET D -> Nat] : Up(n, sum)}
<1>1. /\ IsFiniteSet(D) /\ Cardinality(D) \in Nat
      /\ \A x \in D : c[x] \in Nat
      /\ \A s \in SUBSET D : IsFiniteSet(s) /\ Cardinality(s) \in Nat
                               /\ Cardinality(s) <= Cardinality(D)
  <2>1. D = 1 .. Len(c) /\ Len(c) \in Nat /\ \A x \in 1 .. Len(c) : c[x] \in Nat
    BY LenProperties
  <2>2. 1 \in Int /\ Len(c) \in Int
    BY <2>1
  <2>3. IsFiniteSet(1 .. Len(c))
    BY <2>2, FS_Interval
  <2>. QED BY <2>1, <2>3, FS_Subset, FS_CardinalityType
<1>. HIDE DEF D
<1>2. \A s \in SUBSET D : Cardinality(s) = 0 <=> s = {}
  BY <1>1, FS_EmptySet
<1>3. ASSUME NEW sum \in [SUBSET D -> Nat]
      PROVE  [s \in SUBSET D |-> SumStep(sum, c, s)] \in [SUBSET D -> Nat]
  <2>1. ASSUME NEW s \in SUBSET D PROVE SumStep(sum, c, s) \in Nat
    <3>1. CASE s = {}
      BY <3>1 DEF SumStep
    <3>2. CASE s # {}
      <4>1. Some(s) \in D /\ s \ {Some(s)} \in SUBSET D
        BY <1>1, <3>2, OneLess
      <4>2. c[Some(s)] \in Nat /\ sum[s \ {Some(s)}] \in Nat
        BY <1>1, <4>1
      <4>. QED BY <3>2, <4>2 DEF SumStep
    <3>. QED BY <3>1, <3>2
  <2>. QED BY <2>1
<1>4. 0 \in T
  <2>. DEFINE sum == [s \in SUBSET D |-> 0]
  <2>1. sum \in [SUBSET D -> Nat]
    OBVIOUS
  <2>2. Up(0, sum)
    BY <1>1, <1>2 DEF SumStep
  <2>. QED BY <2>1, <2>2
<1>5. ASSUME NEW n \in Nat, n \in T PROVE n + 1 \in T
  <2>1. PICK sum \in [SUBSET D -> Nat] : Up(n, sum)
    BY <1>5
  <2>. DEFINE more == [s \in SUBSET D |-> SumStep(sum, c, s)]
  <2>2. more \in [SUBSET D -> Nat] /\ \A s \in SUBSET D : more[s] = SumStep(sum, c, s)
    BY <1>3
  <2>3. \A s \in SUBSET D : Cardinality(s) <= n => more[s] = sum[s]
    BY <2>1, <2>2
  <2>. HIDE DEF more
  <2>4. ASSUME NEW s \in SUBSET D, Cardinality(s) <= n + 1 PROVE more[s] = SumStep(more, c, s)
    <3>1. CASE s = {}
      BY <2>2, <3>1 DEF SumStep
    <3>2. CASE s # {}
      <4>1. PICK k \in Nat : Cardinality(s) = k + 1 /\ k <= n
        <5>1. Cardinality(s) \in Nat /\ Cardinality(s) # 0
          BY <1>1, <1>2, <3>2
        <5>2. Cardinality(s) - 1 \in Nat
          BY <5>1
        <5>. QED BY <2>4, <5>1, <5>2
      <4>2. s \ {Some(s)} \in SUBSET D /\ Cardinality(s \ {Some(s)}) = k
        BY <1>1, <3>2, <4>1, OneLess
      <4>3. more[s \ {Some(s)}] = sum[s \ {Some(s)}]
        BY <2>3, <4>1, <4>2
      <4>. QED BY <2>2, <3>2, <4>3 DEF SumStep
    <3>. QED BY <3>1, <3>2
  <2>5. n + 1 \in Nat /\ Up(n + 1, more)
    BY <2>4
  <2>. QED BY <2>2, <2>5
<1>6. Cardinality(D) \in T
  <2>. HIDE DEF T
  <2>1. Nat \subseteq T
    BY <1>4, <1>5, NatInduct, Zenon
  <2>. QED BY <1>1, <2>1
<1>7. PICK sum \in [SUBSET D -> Nat] : Up(Cardinality(D), sum)
  BY <1>6
<1>8. sum = [s \in SUBSET D |-> SumStep(sum, c, s)]
  BY <1>1, <1>7
<1>. QED BY <1>8 DEF D

\* and what it sums up is a number; of nothing, 0.
LEMMA SumOf ==
    ASSUME NEW c \in Seq(Nat)
    PROVE  FoldSeq(+, 0, c) \in Nat /\ (c = <<>> => FoldSeq(+, 0, c) = 0)
<1>. DEFINE D == DOMAIN c
            iter == CHOOSE f : f = [s \in SUBSET D |-> SumStep(f, c, s)]
<1>1. iter = [s \in SUBSET D |-> SumStep(iter, c, s)]
  BY SumsExist
<1>2. FoldSeq(+, 0, c) = iter[D]
  BY DEF FoldSeq, FoldFunction, FoldFunctionOnSet, MapThenFoldSet, SumStep, Some
<1>3. PICK sum : sum = [s \in SUBSET D |-> SumStep(sum, c, s)] /\ FoldSeq(+, 0, c) = sum[D]
  <2>. HIDE DEF iter
  <2>. QED BY <1>1, <1>2
<1>. DEFINE T == {n \in Nat : \A s \in SUBSET D : Cardinality(s) = n => sum[s] \in Nat}
<1>4. \A s \in SUBSET D : sum[s] = SumStep(sum, c, s)
  BY <1>3
<1>5. /\ IsFiniteSet(D) /\ Cardinality(D) \in Nat
      /\ \A x \in D : c[x] \in Nat
      /\ \A s \in SUBSET D : IsFiniteSet(s)
  <2>1. D = 1 .. Len(c) /\ Len(c) \in Nat /\ \A x \in 1 .. Len(c) : c[x] \in Nat
    BY LenProperties
  <2>2. 1 \in Int /\ Len(c) \in Int
    BY <2>1
  <2>3. IsFiniteSet(1 .. Len(c))
    BY <2>2, FS_Interval
  <2>. QED BY <2>1, <2>3, FS_Subset, FS_CardinalityType
<1>6. c = <<>> => D = {}
  OBVIOUS
<1>. HIDE DEF D
<1>7. 0 \in T
  <2>1. ASSUME NEW s \in SUBSET D, Cardinality(s) = 0 PROVE sum[s] \in Nat
    <3>1. s = {}
      BY <1>5, <2>1, FS_EmptySet
    <3>2. sum[s] = SumStep(sum, c, s)
      BY <1>4, Zenon
    <3>3. SumStep(sum, c, s) = 0
      BY <3>1 DEF SumStep
    <3>. QED BY <3>2, <3>3
  <2>. QED BY <2>1
<1>8. ASSUME NEW n \in Nat, n \in T PROVE n + 1 \in T
  <2>1. ASSUME NEW s \in SUBSET D, Cardinality(s) = n + 1 PROVE sum[s] \in Nat
    <3>1. s # {}
      <4>1. Cardinality({}) = 0 /\ n + 1 # 0
        BY FS_EmptySet
      <4>. QED BY <2>1, <4>1
    <3>2. Some(s) \in D /\ s \ {Some(s)} \in SUBSET D /\ Cardinality(s \ {Some(s)}) = n
      BY <1>5, <2>1, <3>1, OneLess
    <3>3. c[Some(s)] \in Nat /\ sum[s \ {Some(s)}] \in Nat
      BY <1>5, <1>8, <3>2
    <3>4. sum[s] = SumStep(sum, c, s)
      BY <1>4, Zenon
    <3>5. SumStep(sum, c, s) = c[Some(s)] + sum[s \ {Some(s)}]
      BY <3>1 DEF SumStep
    <3>. QED BY <3>3, <3>4, <3>5
  <2>2. n + 1 \in Nat
    OBVIOUS
  <2>. QED BY <2>1, <2>2
<1>9. sum[D] \in Nat
  <2>1. Nat \subseteq T
    <3>. HIDE DEF T
    <3>. QED BY <1>7, <1>8, NatInduct, Zenon
  <2>. QED BY <1>5, <2>1
<1>10. c = <<>> => sum[D] = 0
  BY <1>4, <1>6 DEF SumStep
<1>. QED BY <1>3, <1>9, <1>10
-----------------------------------------------------------------------------
(* The rest of the type invariant.                                         *)

Typed ==
    /\ up \in BOOLEAN
    /\ pc \in {"off", "pop", "ask", "wait", "push", "write"}
    /\ Len(buffer) <= Capacity
    /\ entries \in Nat
    /\ pushing \in BOOLEAN
    /\ since \in [unchanged : SUBSET Files, copied : SUBSET Files]
    /\ torn \subseteq Files
    /\ count \in [notices : 0 .. MaxNotices, edits : 0 .. MaxEdits, stops : 0 .. MaxStops]

\* A version is a number of 64 bits.
LEMMA HashIsVersion ==
    /\ \A c \in Content : compute_file_hash(c) \in Versions
    /\ compute_file_hash(<<>>) = 0
    /\ Hashes \subseteq Versions
<1>1. u64_values \in Nat \ {0} /\ Contents \subseteq Content
  BY TransferAssumption DEF Content, Versions
<1>2. \A n \in Nat : n % u64_values \in 0 .. u64_values - 1
  BY <1>1
<1>3. 0 % u64_values = 0 /\ 0 \in 0 .. u64_values - 1
  BY <1>1
<1>4. \A c \in Content : c \in Seq(Nat)
  BY <1>1 DEF Content, Versions
<1>5. \A c \in Content : FoldSeq(+, 0, c) \in Nat
  BY <1>4, SumOf
<1>6. FoldSeq(+, 0, <<>>) = 0
  <2>1. <<>> \in Seq(Nat)
    BY EmptySeq
  <2>. QED BY <2>1, SumOf
<1>7. \A c \in Content : compute_file_hash(c) \in Versions
  BY <1>2, <1>5 DEF compute_file_hash, Versions
<1>8. compute_file_hash(<<>>) = 0
  BY <1>3, <1>6 DEF compute_file_hash
<1>9. Hashes \subseteq Versions
  BY <1>1, <1>3, <1>7 DEF Hashes, Versions
<1>. QED BY <1>7, <1>8, <1>9

LEMMA InitTyped == Init => Typed
<1>. SUFFICES ASSUME Init PROVE Typed
  OBVIOUS
<1>1. Capacity \in Nat /\ MaxNotices \in Nat /\ MaxEdits \in Nat /\ MaxStops \in Nat
  BY TransferAssumption
<1>2. Len(<<>>) <= Capacity
  BY <1>1
<1>3. /\ up = FALSE /\ pc = "off" /\ buffer = <<>> /\ entries = 0 /\ pushing = FALSE
      /\ since = [unchanged |-> {}, copied |-> {}] /\ torn = {}
      /\ count = [notices |-> 0, edits |-> 0, stops |-> 0]
  BY DEF Init
<1>4. count \in [notices : 0 .. MaxNotices, edits : 0 .. MaxEdits, stops : 0 .. MaxStops]
  BY <1>1, <1>3
<1>5. since \in [unchanged : SUBSET Files, copied : SUBSET Files]
  BY <1>3
<1>. QED BY <1>2, <1>3, <1>4, <1>5 DEF Typed

LEMMA TypedPreserved ==
    ASSUME Copied, Typed, [Next]_vars
    PROVE  Typed'
<1>. USE TransferAssumption DEF workerVars, mainVars, history, ownerVars
<1>1. buffer \in Seq(Listed)
  BY DEF Copied, Shape
<1>2. CASE Owner
  <2>1. CASE AcceptGetFileList
    <3>1. since' \in [unchanged : SUBSET Files, copied : SUBSET Files]
      BY <2>1 DEF AcceptGetFileList
    <3>. QED BY <2>1, <3>1 DEF AcceptGetFileList, Typed
  <2>2. CASE Walk \/ ListEntry
    BY <2>2 DEF Walk, ListEntry, Typed
  <2>3. CASE AnswerFileList
    BY <2>3 DEF AnswerFileList, Typed
  <2>4. CASE AcceptGetFile \/ AnswerGetFile
    BY <2>4 DEF AcceptGetFile, AnswerGetFile, Typed
  <2>. QED BY <1>2, <2>1, <2>2, <2>3, <2>4 DEF Owner
<1>3. CASE OwnerStarts \/ OwnerIsBusy \/ OwnerIsBack
  BY <1>3 DEF OwnerStarts, OwnerIsBusy, OwnerIsBack, Typed
<1>4. CASE OwnerStops
  <2>1. since' \in [unchanged : SUBSET Files, copied : SUBSET Files]
    BY <1>4 DEF OwnerStops, Typed
  <2>2. count' \in [notices : 0 .. MaxNotices, edits : 0 .. MaxEdits, stops : 0 .. MaxStops]
    BY <1>4 DEF OwnerStops, Typed
  <2>. QED BY <1>4, <2>1, <2>2 DEF OwnerStops, Typed
<1>5. ASSUME NEW f \in Files, Edit(f) PROVE Typed'
  <2>1. since' \in [unchanged : SUBSET Files, copied : SUBSET Files]
    BY <1>5 DEF Edit, Typed
  <2>2. count' \in [notices : 0 .. MaxNotices, edits : 0 .. MaxEdits, stops : 0 .. MaxStops]
    <3>1. count' = [count EXCEPT !.edits = @ + 1] /\ count.edits < MaxEdits
      BY <1>5 DEF Edit
    <3>2. count \in [notices : 0 .. MaxNotices, edits : 0 .. MaxEdits, stops : 0 .. MaxStops]
      BY DEF Typed
    <3>. QED BY <3>1, <3>2
  <2>3. torn' \subseteq Files
    BY <1>5 DEF Edit, Typed
  <2>4. UNCHANGED <<up, pc, buffer, entries, pushing>>
    BY <1>5 DEF Edit
  <2>. QED BY <2>1, <2>2, <2>3, <2>4 DEF Typed
<1>6. CASE UserOn
  <2>1. count' \in [notices : 0 .. MaxNotices, edits : 0 .. MaxEdits, stops : 0 .. MaxStops]
    <3>1. count' = [count EXCEPT !.notices = @ + 1] /\ count.notices < MaxNotices
      BY <1>6 DEF UserOn
    <3>2. count \in [notices : 0 .. MaxNotices, edits : 0 .. MaxEdits, stops : 0 .. MaxStops]
      BY DEF Typed
    <3>. QED BY <3>1, <3>2
  <2>2. entries' \in Nat /\ pushing' = TRUE
    BY <1>6 DEF UserOn, Typed
  <2>3. UNCHANGED <<up, pc, buffer, since, torn>>
    BY <1>6 DEF UserOn
  <2>. QED BY <2>1, <2>2, <2>3 DEF Typed
<1>7. CASE MainPush
  <2>1. Len(Append(buffer, ListRecord)) = Len(buffer) + 1
    BY <1>1
  <2>2. Len(buffer) \in Nat
    BY <1>1
  <2>3. Len(buffer') <= Capacity
    BY <1>7, <2>1, <2>2 DEF MainPush
  <2>. QED BY <1>7, <2>3 DEF MainPush, Typed
<1>8. CASE UserOff
  BY <1>8 DEF UserOff, Typed
<1>9. CASE Pop
  <2>1. Len(buffer') <= Len(buffer) /\ Len(buffer) \in Nat /\ Len(buffer') \in Nat
    BY <1>1, <1>9 DEF Pop
  <2>2. Len(buffer') <= Capacity
    BY <2>1 DEF Typed
  <2>. QED BY <1>9, <2>2 DEF Pop, Typed
<1>10. CASE AskFileList \/ AskFile
  BY <1>10 DEF AskFileList, AskFile, Typed
<1>11. CASE ReceiveFileList \/ ReceiveVerdict \/ OpenCopy \/ WriteCopy
  BY <1>11 DEF ReceiveFileList, ReceiveVerdict, OpenCopy, WriteCopy, Typed
<1>12. CASE PushEntry
  <2>1. Len(Append(buffer, Head(received))) = Len(buffer) + 1
    BY <1>1
  <2>2. Len(buffer) \in Nat
    BY <1>1
  <2>3. Len(buffer') <= Capacity
    BY <1>12, <2>1, <2>2 DEF PushEntry
  <2>. QED BY <1>12, <2>3 DEF PushEntry, Typed
<1>13. CASE ReceiveNull \/ ClientStops
  <2>1. Exit /\ up' = up /\ torn' = torn /\ count' \in {count, [count EXCEPT !.stops = @ + 1]}
        /\ (count' = count \/ count.stops < MaxStops)
    BY <1>13 DEF ReceiveNull, ClientStops
  <2>2. since' \in [unchanged : SUBSET Files, copied : SUBSET Files]
    BY <2>1 DEF Exit, Typed
  <2>3. count' \in [notices : 0 .. MaxNotices, edits : 0 .. MaxEdits, stops : 0 .. MaxStops]
    BY <2>1 DEF Typed
  <2>4. Len(<<>>) <= Capacity
    OBVIOUS
  <2>. QED BY <2>1, <2>2, <2>3, <2>4 DEF Exit, Typed
<1>14. CASE ClientStarts
  BY <1>14 DEF ClientStarts, Typed
<1>15. CASE UNCHANGED vars
  BY <1>15 DEF vars, Typed
<1>. QED BY <1>2, <1>3, <1>4, <1>5, <1>6, <1>7, <1>8, <1>9, <1>10, <1>11, <1>12, <1>13, <1>14,
            <1>15 DEF Next, Worker

(***************************************************************************)
(* TypeOK: whatever is edited, stops or comes back, versions have 64 bits, *)
(* and main and worker never store more records than the buffer has room   *)
(* for.                                                                    *)
(***************************************************************************)
THEOREM TypeCorrect == Spec => []TypeOK
<1>1. ASSUME Copied, Typed PROVE TypeOK
  <2>1. Listed \subseteq Records /\ Contents \subseteq Content
    BY HashIsVersion, TransferAssumption DEF Listed, Records, Content, Versions
  <2>2. Seq(Listed) \subseteq Seq(Records)
    BY <2>1
  <2>3. serving \in Serving
    BY <1>1, <2>2 DEF Copied, Shape, Serving
  <2>4. connection \in Requests \cup Answers \cup {NoRequest, Null}
    BY <1>1, <2>2, HashIsVersion DEF Copied, Shape, Requests, Answers, NoRequest, Null, Content
  <2>. QED BY <1>1, <2>1, <2>2, <2>3, <2>4 DEF Copied, Shape, Typed, TypeOK, Content
<1>. QED BY InitCopied, NextPreserves, InitTyped, TypedPreserved, <1>1, PTL DEF Spec
-----------------------------------------------------------------------------
(* What the worker still has to do, and what it remembers of a file nobody *)
(* changed since it was listed.                                            *)

Named(records, f) == \E i \in 1 .. Len(records) : records[i].file = f

\* The files that QuietMeansCopied is about.
Due(f) ==
    /\ f \in since.unchanged \ since.copied
    /\ files[f] # NoFile /\ compute_file_hash(files[f]) # 0

\* The owner lists f, or has; the record is on its way to the worker,
Coming(f) ==
    \/ serving.at \in {"walk", "entry"}
    \/ pc = "wait" /\ connection.kind = "FILE_LIST" /\ Named(connection.list, f)
    \/ pc = "push" /\ Named(received, f)
    \/ Named(buffer, f)

\* or the worker has it, and asks for the file or stores it;
Fetched(f) ==
    /\ info.file = f
    /\ \/ pc = "ask"
       \/ pc = "wait" /\ connection.kind = "GET_FILE"
       \/ connection.kind = "FILE"

\* or the record was dropped because the owner was not in the list any more, and
\* the worker will ask for the list before it is quiet again.
ListAgain ==
    \/ entries = 0 \/ pushing
    \/ Named(buffer, NoFile)
    \/ info.file = NoFile /\ pc = "ask"
    \/ connection.kind = "GET_FILE_LIST" /\ serving.at \in {"select", "busy"}

\* The copy is missing, being written, or done.
CopyIs(f) ==
    \/ local[f] = files[f]
    \/ local[f] = NoFile
    \/ local[f] = <<>> /\ pc = "write" /\ info.file = f

\* What travels for it cannot be taken for something else.
AskedFor(f) ==
    /\ serving.at = "walk" => f \in serving.left \/ Named(serving.list, f)
    /\ serving.at = "entry" =>
          f \in serving.left \/ Named(serving.list, f) \/ serving.file = f
    /\ serving.at = "read" /\ serving.file = f => serving.length = Len(files[f])
    /\ connection.kind = "GET_FILE" /\ info.file = f /\ local[f] = NoFile => connection.version = 0
    /\ connection.kind = "FILE" /\ info.file = f => connection.content = files[f]
    /\ up /\ connection # Null

OnTheWay(f) == local[f] = files[f] \/ Coming(f) \/ Fetched(f) \/ ListAgain

Pursued ==
    \A f \in Files : Due(f) => OnTheWay(f) /\ CopyIs(f) /\ AskedFor(f)

\* What is due is there, and is no empty file.
LEMMA DueIs ==
    ASSUME Copied, NEW f \in Files, Due(f)
    PROVE  /\ files[f] # NoFile /\ files[f] \in Content
           /\ compute_file_hash(files[f]) # 0
           /\ f # NoFile
<1>1. files[f] \in Content
  BY TransferAssumption DEF Due, Copied, Shape, Content, Versions
<1>. QED BY <1>1, TransferAssumption DEF Due

LEMMA NamedIs ==
    /\ \A f : ~Named(<<>>, f)
    /\ \A s \in Seq(Listed), r \in Listed : \A f :
          Named(Append(s, r), f) <=> Named(s, f) \/ r.file = f
    /\ \A s \in Seq(Listed) : \A f :
          Named(s, f) => s # <<>> /\ (Head(s).file = f \/ Named(Tail(s), f))
<1>1. \A f : ~Named(<<>>, f)
  BY DEF Named
<1>2. ASSUME NEW s \in Seq(Listed), NEW r \in Listed, NEW f
      PROVE  Named(Append(s, r), f) <=> Named(s, f) \/ r.file = f
  <2>1. /\ Len(s) \in Nat /\ Len(Append(s, r)) = Len(s) + 1
        /\ Append(s, r)[Len(s) + 1] = r
        /\ \A i \in 1 .. Len(s) : Append(s, r)[i] = s[i]
    BY AppendProperties, LenProperties
  <2>2. ASSUME Named(s, f) PROVE Named(Append(s, r), f)
    <3>1. PICK i \in 1 .. Len(s) : s[i].file = f
      BY <2>2 DEF Named
    <3>2. i \in 1 .. Len(Append(s, r)) /\ Append(s, r)[i].file = f
      BY <2>1, <3>1
    <3>. QED BY <3>2 DEF Named
  <2>3. ASSUME r.file = f PROVE Named(Append(s, r), f)
    <3>1. Len(s) + 1 \in 1 .. Len(Append(s, r))
      BY <2>1
    <3>. QED BY <2>1, <2>3, <3>1 DEF Named
  <2>4. ASSUME Named(Append(s, r), f) PROVE Named(s, f) \/ r.file = f
    <3>1. PICK i \in 1 .. Len(Append(s, r)) : Append(s, r)[i].file = f
      BY <2>4 DEF Named
    <3>2. i \in 1 .. Len(s) \/ i = Len(s) + 1
      BY <2>1
    <3>. QED BY <2>1, <3>1, <3>2 DEF Named
  <2>. QED BY <2>2, <2>3, <2>4
<1>3. ASSUME NEW s \in Seq(Listed), NEW f, Named(s, f)
      PROVE  s # <<>> /\ (Head(s).file = f \/ Named(Tail(s), f))
  <2>1. PICK i \in 1 .. Len(s) : s[i].file = f
    BY <1>3 DEF Named
  <2>2. s # <<>>
    BY <2>1
  <2>3. /\ Head(s) = s[1] /\ Len(Tail(s)) = Len(s) - 1 /\ Len(s) \in Nat
        /\ \A j \in 1 .. Len(s) - 1 : Tail(s)[j] = s[j + 1]
    BY <2>2, HeadTailProperties, LenProperties
  <2>4. CASE i = 1
    BY <2>1, <2>2, <2>3, <2>4
  <2>5. CASE i # 1
    <3>1. i - 1 \in 1 .. Len(Tail(s)) /\ (i - 1) + 1 = i
      BY <2>3, <2>5
    <3>2. Tail(s)[i - 1] = s[i]
      BY <2>3, <3>1
    <3>. QED BY <2>1, <2>2, <3>1, <3>2 DEF Named
  <2>. QED BY <2>4, <2>5
<1>. QED BY <1>1, <1>2, <1>3

\* Overwriting what is not there, or with the same words.
LEMMA OverwriteSame ==
    ASSUME NEW new \in Content
    PROVE  Overwrite(new, <<>>) = new /\ Overwrite(new, new) = new
<1>1. <<>> \in Content /\ Len(<<>>) = 0 /\ Len(new) \in Nat
  BY EmptySeq, LenProperties DEF Content
<1>2. ASSUME NEW old \in {<<>>, new} PROVE Overwrite(new, old) = new
  <2>1. old \in Content /\ Len(new) >= Len(old)
    BY <1>1
  <2>2. /\ Overwrite(new, old) \in Content /\ Len(Overwrite(new, old)) = Len(new)
        /\ \A i \in 1 .. Len(new) : Overwrite(new, old)[i] = new[i]
    BY <1>1, <2>1, OverwriteWords
  <2>. QED BY <1>1, <2>2, SeqEqual DEF Content
<1>. QED BY <1>2

\* Nothing is due when nothing was left alone.
LEMMA NoneDue == ASSUME since'.unchanged = {} PROVE Pursued'
BY DEF Pursued, Due

\* Steps that neither accept a list request nor edit: what is due was due.
LEMMA StillDue ==
    ASSUME Copied, Pursued, UNCHANGED <<files, since>>,
           \A f \in Files : Due(f) /\ OnTheWay(f) /\ CopyIs(f) /\ AskedFor(f)
               => OnTheWay(f)' /\ CopyIs(f)' /\ AskedFor(f)'
    PROVE  Pursued'
<1>1. \A f \in Files : Due(f)' => Due(f)
  BY DEF Due
<1>. QED BY <1>1 DEF Pursued
-----------------------------------------------------------------------------
LEMMA OwnerPursues ==
    ASSUME Copied, Typed, Pursued, Owner
    PROVE  Pursued'
<1>. USE DEF workerVars, mainVars, history
<1>1. UNCHANGED <<files, local, pc, info, received, buffer, entries, pushing>>
  BY DEF Owner, AcceptGetFileList, Walk, ListEntry, AnswerFileList, AcceptGetFile, AnswerGetFile
<1>2. CASE AcceptGetFileList
  <2>1. /\ serving' = [at |-> "walk", left |-> Files, list |-> <<>>]
        /\ connection' = connection /\ connection.kind = "GET_FILE_LIST"
        /\ since' = [unchanged |-> Files, copied |-> {f \in Files : local[f] # NoFile}]
        /\ up /\ up' = up
    BY <1>2 DEF AcceptGetFileList
  <2>2. ASSUME NEW f \in Files, Due(f)' PROVE local[f] = NoFile
    BY <2>1, <2>2 DEF Due
  <2>3. ASSUME NEW f \in Files, Due(f)' PROVE OnTheWay(f)' /\ CopyIs(f)' /\ AskedFor(f)'
    BY <1>1, <2>1, <2>2, <2>3 DEF OnTheWay, Coming, CopyIs, AskedFor, Null
  <2>. QED BY <2>3 DEF Pursued
<1>3. CASE Walk
  <2>1. PICK g \in serving.left :
            serving' = IF files[g] = NoFile
                       THEN [serving EXCEPT !.left = @ \ {g}]
                       ELSE [at |-> "entry", left |-> serving.left \ {g}, list |-> serving.list,
                             file |-> g, length |-> Len(files[g])]
    BY <1>3 DEF Walk
  <2>2. /\ serving.at = "walk" /\ UNCHANGED <<since, connection, up>>
        /\ serving \in [at : {"walk"}, left : SUBSET Files, list : Seq(Listed)]
    BY <1>3 DEF Walk, Copied, Shape
  <2>3. connection.kind = "GET_FILE_LIST"
    BY <2>2 DEF Copied, Asked
  <2>4. /\ serving'.left = serving.left \ {g} /\ serving'.list = serving.list
        /\ \/ serving'.at = "walk" /\ files[g] = NoFile
           \/ serving'.at = "entry" /\ serving'.file = g
    BY <2>1, <2>2
  <2>5. ASSUME NEW f \in Files, Due(f), CopyIs(f), AskedFor(f)
        PROVE  OnTheWay(f)' /\ CopyIs(f)' /\ AskedFor(f)'
    <3>1. OnTheWay(f)'
      BY <2>4 DEF OnTheWay, Coming
    <3>2. CopyIs(f)'
      BY <1>1, <2>5 DEF CopyIs
    <3>3. files[f] # NoFile
      BY <2>5, DueIs
    <3>4. f \in serving.left \/ Named(serving.list, f)
      BY <2>2, <2>5 DEF AskedFor
    <3>5. AskedFor(f)'
      BY <1>1, <2>2, <2>3, <2>4, <2>5, <3>3, <3>4 DEF AskedFor, Named
    <3>. QED BY <3>1, <3>2, <3>5
  <2>. QED BY <1>1, <2>2, <2>5, StillDue
<1>4. CASE ListEntry
  <2>1. /\ serving.at = "entry" /\ UNCHANGED <<since, connection, up>>
        /\ serving \in [at : {"entry"}, left : SUBSET Files, list : Seq(Listed),
                         file : Files, length : Nat]
    BY <1>4 DEF ListEntry, Copied, Shape
  <2>2. connection.kind = "GET_FILE_LIST"
    BY <2>1 DEF Copied, Asked
  <2>3. /\ serving'.at = "walk" /\ serving'.left = serving.left
        /\ \/ files[serving.file] = NoFile /\ serving'.list = serving.list
           \/ /\ files[serving.file] # NoFile
              /\ \E r \in Readings(serving.file, serving.length) :
                    serving'.list = Append(serving.list, [file |-> serving.file,
                                                          version |-> compute_file_hash(r)])
    BY <1>4 DEF ListEntry
  <2>4. ASSUME NEW f \in Files, Due(f), AskedFor(f)
        PROVE  f \in serving'.left \/ Named(serving'.list, f)
    <3>1. CASE files[serving.file] = NoFile
      BY <2>1, <2>3, <2>4, <3>1, DueIs DEF AskedFor
    <3>2. CASE files[serving.file] # NoFile
      <4>1. PICK r \in Readings(serving.file, serving.length) :
                serving'.list = Append(serving.list, [file |-> serving.file,
                                                      version |-> compute_file_hash(r)])
        BY <2>3, <3>2
      <4>. DEFINE entry == [file |-> serving.file, version |-> compute_file_hash(r)]
      <4>2. files[serving.file] \in Content
        BY <2>1, <3>2, TransferAssumption DEF Copied, Shape, Content, Versions
      <4>3. r \in Content
        BY <2>1, <4>2, ReadingsAre
      <4>4. entry \in Listed /\ entry.file = serving.file /\ serving.list \in Seq(Listed)
        BY <2>1, <4>3 DEF Listed, Hashes
      <4>. HIDE DEF entry
      <4>5. Named(Append(serving.list, entry), f) <=> Named(serving.list, f) \/ serving.file = f
        BY <4>4, NamedIs
      <4>6. Named(serving'.list, f) <=> Named(serving.list, f) \/ serving.file = f
        BY <4>1, <4>5 DEF entry
      <4>. QED BY <2>1, <2>3, <2>4, <4>6 DEF AskedFor
    <3>. QED BY <3>1, <3>2
  <2>5. ASSUME NEW f \in Files, Due(f), CopyIs(f), AskedFor(f)
        PROVE  OnTheWay(f)' /\ CopyIs(f)' /\ AskedFor(f)'
    <3>1. OnTheWay(f)'
      BY <2>3 DEF OnTheWay, Coming
    <3>2. CopyIs(f)'
      BY <1>1, <2>5 DEF CopyIs
    <3>3. AskedFor(f)'
      BY <1>1, <2>1, <2>2, <2>3, <2>4, <2>5 DEF AskedFor, Named
    <3>. QED BY <3>1, <3>2, <3>3
  <2>. QED BY <1>1, <2>1, <2>5, StillDue
<1>5. CASE AnswerFileList
  <2>1. /\ serving.at = "walk" /\ serving.left = {} /\ serving' = Select /\ since' = since
        /\ serving.list # <<>> =>
              connection' = [kind |-> "FILE_LIST", list |-> serving.list] /\ up' = up
    BY <1>5 DEF AnswerFileList
  <2>2. pc = "wait" /\ serving.list \in Seq(Listed)
    BY <2>1 DEF Copied, Asked, Shape
  <2>3. ASSUME NEW f \in Files, Due(f), CopyIs(f), AskedFor(f)
        PROVE  OnTheWay(f)' /\ CopyIs(f)' /\ AskedFor(f)'
    <3>1. Named(serving.list, f)
      BY <2>1, <2>3 DEF AskedFor
    <3>2. connection' = [kind |-> "FILE_LIST", list |-> serving.list] /\ up' = up
      BY <2>1, <2>2, <3>1, NamedIs
    <3>3. Coming(f)'
      <4>1. connection'.kind = "FILE_LIST" /\ connection'.list = serving.list /\ pc' = "wait"
        BY <1>1, <2>2, <3>2
      <4>2. Named(connection'.list, f)
        BY <3>1, <4>1
      <4>. QED BY <4>1, <4>2 DEF Coming, Named
    <3>4. CopyIs(f)'
      BY <1>1, <2>3 DEF CopyIs
    <3>5. AskedFor(f)'
      BY <1>1, <2>1, <2>3, <3>2 DEF AskedFor, Select, Null
    <3>. QED BY <3>3, <3>4, <3>5 DEF OnTheWay
  <2>. QED BY <1>1, <2>1, <2>3, StillDue
<1>6. CASE AcceptGetFile
  <2>1. /\ connection.kind = "GET_FILE" /\ serving = Select
        /\ UNCHANGED <<up, since>>
        /\ \/ /\ files[connection.file] = NoFile /\ serving' = serving
              /\ connection' = [kind |-> "FILE_NOT_FOUND"]
           \/ /\ connection' = connection
              /\ serving' = [at |-> "read", file |-> connection.file,
                             length |-> Len(files[connection.file])]
    BY <1>6 DEF AcceptGetFile, create_file_not_found_request
  <2>2. connection.file = info.file
    BY <2>1 DEF Copied, Asked
  <2>3. ASSUME NEW f \in Files, Due(f), OnTheWay(f), CopyIs(f), AskedFor(f)
        PROVE  OnTheWay(f)' /\ CopyIs(f)' /\ AskedFor(f)'
    <3>1. files[f] # NoFile
      BY <2>3, DueIs
    <3>2. OnTheWay(f)'
      <4>1. Coming(f) => Coming(f)'
        BY <1>1, <2>1 DEF Coming, Named, Select
      <4>2. Fetched(f) => Fetched(f)'
        BY <1>1, <2>1, <2>2, <3>1 DEF Fetched
      <4>3. ListAgain => ListAgain'
        BY <1>1, <2>1 DEF ListAgain, Named
      <4>. QED BY <1>1, <2>3, <4>1, <4>2, <4>3 DEF OnTheWay
    <3>3. CopyIs(f)'
      BY <1>1, <2>3 DEF CopyIs
    <3>4. AskedFor(f)'
      BY <1>1, <2>1, <2>3 DEF AskedFor, Select, Null
    <3>. QED BY <3>2, <3>3, <3>4
  <2>. QED BY <1>1, <2>1, <2>3, StillDue
<1>7. CASE AnswerGetFile
  <2>1. PICK content \in IF files[serving.file] = NoFile
                         THEN {<<>>} ELSE Readings(serving.file, serving.length) :
            connection' = IF compute_file_hash(content) = connection.version
                          THEN [kind |-> "FILE_UP_TO_DATE"]
                          ELSE [kind |-> "FILE", content |-> content]
    BY <1>7 DEF AnswerGetFile, create_file_up_to_date_request, create_file_request
  <2>2. /\ serving.at = "read" /\ serving' = Select /\ UNCHANGED <<up, since>>
        /\ serving.length \in Nat
    BY <1>7 DEF AnswerGetFile, Copied, Shape
  <2>3. /\ connection.kind = "GET_FILE" /\ pc = "wait"
        /\ connection.file = info.file /\ serving.file = info.file
    BY <2>2 DEF Copied, Asked
  <2>4. connection'.kind \in {"FILE_UP_TO_DATE", "FILE"} /\ connection' # Null
    BY <2>1 DEF Null
  <2>5. ASSUME NEW f \in Files, Due(f), OnTheWay(f), CopyIs(f), AskedFor(f)
        PROVE  OnTheWay(f)' /\ CopyIs(f)' /\ AskedFor(f)'
    <3>1. CASE info.file = f
      <4>1. /\ files[f] # NoFile /\ files[f] \in Content /\ compute_file_hash(files[f]) # 0
        BY <2>5, DueIs
      <4>2. content \in Readings(f, serving.length) /\ serving.length = Len(files[f])
        BY <2>1, <2>2, <2>3, <2>5, <3>1, <4>1 DEF AskedFor
      <4>3. content = files[f]
        BY <2>2, <4>1, <4>2, ReadingsAre
      <4>4. CASE local[f] = files[f]
        <5>1. connection'.kind = "FILE" => connection'.content = files[f]
          BY <2>1, <4>3
        <5>. QED BY <1>1, <2>2, <2>4, <2>5, <4>4, <5>1 DEF OnTheWay, CopyIs, AskedFor, Select
      <4>5. CASE local[f] # files[f]
        <5>1. local[f] = NoFile
          BY <2>3, <2>5, <4>5 DEF CopyIs
        <5>2. connection.version = 0
          BY <2>3, <2>5, <3>1, <5>1 DEF AskedFor
        <5>3. connection' = [kind |-> "FILE", content |-> files[f]]
          BY <2>1, <4>1, <4>3, <5>2
        <5>. QED BY <1>1, <2>2, <2>5, <3>1, <5>1, <5>3
                 DEF OnTheWay, Fetched, CopyIs, AskedFor, Select, Null
      <4>. QED BY <4>4, <4>5
    <3>2. CASE info.file # f
      <4>1. OnTheWay(f)'
        <5>1. Coming(f) => Coming(f)'
          BY <1>1, <2>2, <2>3 DEF Coming, Named
        <5>2. ~Fetched(f)
          BY <3>2 DEF Fetched
        <5>3. ListAgain => ListAgain'
          BY <1>1, <2>2, <2>3 DEF ListAgain, Named
        <5>. QED BY <1>1, <2>5, <5>1, <5>2, <5>3 DEF OnTheWay
      <4>2. CopyIs(f)'
        BY <1>1, <2>5 DEF CopyIs
      <4>3. AskedFor(f)'
        BY <1>1, <2>2, <2>4, <2>5, <3>2 DEF AskedFor, Select
      <4>. QED BY <4>1, <4>2, <4>3
    <3>. QED BY <3>1, <3>2
  <2>. QED BY <1>1, <2>2, <2>5, StillDue
<1>. QED BY <1>2, <1>3, <1>4, <1>5, <1>6, <1>7 DEF Owner

LEMMA EditPursues ==
    ASSUME Copied, Typed, Pursued, NEW g \in Files, Edit(g)
    PROVE  Pursued'
<1>. USE DEF workerVars, mainVars
<1>1. /\ UNCHANGED <<up, serving, connection, pc, info, received, buffer, entries, pushing, local>>
      /\ since' = [since EXCEPT !.unchanged = @ \ {g}]
      /\ \E c : files' = [files EXCEPT ![g] = c]
  BY DEF Edit
<1>2. since'.unchanged = since.unchanged \ {g} /\ since'.copied = since.copied
  BY <1>1 DEF Typed
<1>3. ASSUME NEW f \in Files, Due(f)' PROVE OnTheWay(f)' /\ CopyIs(f)' /\ AskedFor(f)'
  <2>1. f # g /\ files'[f] = files[f]
    BY <1>1, <1>2, <1>3 DEF Due, Copied, Shape
  <2>2. Due(f)
    BY <1>2, <1>3, <2>1 DEF Due
  <2>3. OnTheWay(f) /\ CopyIs(f) /\ AskedFor(f)
    BY <2>2 DEF Pursued
  <2>4. OnTheWay(f)'
    BY <1>1, <2>1, <2>3 DEF OnTheWay, Coming, Fetched, ListAgain, Named
  <2>. QED BY <1>1, <2>1, <2>3, <2>4 DEF CopyIs, AskedFor, Named
<1>. QED BY <1>3 DEF Pursued

\* Processes that start; the client's main thread.
LEMMA OthersPursue ==
    ASSUME Copied, Typed, Pursued,
           OwnerStarts \/ OwnerIsBusy \/ OwnerIsBack \/ ClientStarts \/
           UserOn \/ MainPush \/ UserOff \/ UNCHANGED vars
    PROVE  Pursued'
<1>. USE DEF ownerVars, workerVars, mainVars, history
<1>1. /\ UNCHANGED <<files, since, connection, info, received, local>>
      /\ \/ serving' = serving
         \/ serving.at \in {"select", "busy"} /\ serving'.at \in {"select", "busy"}
      /\ up => up'
      /\ pc' = pc \/ (pc = "off" /\ pc' = "pop")
  BY DEF OwnerStarts, OwnerIsBusy, OwnerIsBack, ClientStarts, UserOn, MainPush, UserOff, Select,
         vars
<1>2. buffer' \in {buffer, Append(buffer, ListRecord)}
  BY DEF OwnerStarts, OwnerIsBusy, OwnerIsBack, ClientStarts, UserOn, MainPush, UserOff, Select,
         vars
<1>3. ListRecord \in Listed /\ ListRecord.file = NoFile /\ buffer \in Seq(Listed)
  BY DEF ListRecord, Listed, Hashes, Copied, Shape
<1>4. \A f : Named(buffer, f) => Named(buffer', f)
  <2>1. \A f : Named(buffer, f) => Named(Append(buffer, ListRecord), f)
    BY <1>3, NamedIs
  <2>. QED BY <1>2, <2>1
<1>5. entries = 0 \/ pushing => entries' = 0 \/ pushing' \/ Named(buffer', NoFile)
  <2>1. CASE MainPush
    BY <1>3, <2>1, NamedIs DEF MainPush
  <2>2. CASE UserOn \/ UserOff
    BY <2>2 DEF UserOn, UserOff
  <2>3. CASE OwnerStarts \/ OwnerIsBusy \/ OwnerIsBack \/ ClientStarts \/ UNCHANGED vars
    BY <2>3 DEF OwnerStarts, OwnerIsBusy, OwnerIsBack, ClientStarts, vars
  <2>. QED BY <2>1, <2>2, <2>3
<1>6. ASSUME NEW f \in Files, OnTheWay(f), CopyIs(f), AskedFor(f)
      PROVE  OnTheWay(f)' /\ CopyIs(f)' /\ AskedFor(f)'
  <2>1. Coming(f) => Coming(f)'
    <3>1. Named(buffer, f) => Named(buffer, f)'
      BY <1>4 DEF Named
    <3>. QED BY <1>1, <3>1 DEF Coming, Named
  <2>2. Fetched(f) => Fetched(f)'
    BY <1>1 DEF Fetched
  <2>3. ListAgain => ListAgain'
    <3>1. Named(buffer', NoFile) => Named(buffer, NoFile)'
      BY DEF Named
    <3>. QED BY <1>1, <1>4, <1>5, <3>1 DEF ListAgain
  <2>4. CopyIs(f)' /\ AskedFor(f)'
    BY <1>1, <1>6 DEF CopyIs, AskedFor, Named
  <2>. QED BY <1>1, <1>6, <2>1, <2>2, <2>3, <2>4 DEF OnTheWay
<1>. QED BY <1>1, <1>6, StillDue

\* The owner does nothing for a worker that does not wait for it.
LEMMA AtSelect ==
    ASSUME Copied, pc # "wait"
    PROVE  /\ serving.at \in {"select", "busy"}
           /\ connection.kind \notin {"GET_FILE", "GET_FILE_LIST"}
<1>1. connection.kind \notin {"GET_FILE", "GET_FILE_LIST"}
  BY DEF Copied, Asked
<1>2. serving.at \notin {"read", "walk", "entry"}
  BY <1>1 DEF Copied, Asked
<1>3. serving.at \in {"select", "busy"}
  BY <1>2 DEF Copied, Shape
<1>. QED BY <1>1, <1>3

LEMMA WorkerPursues ==
    ASSUME Copied, Typed, Pursued, Worker
    PROVE  Pursued'
<1>. USE DEF ownerVars, mainVars, history
<1>1. /\ info \in Listed /\ received \in Seq(Listed) /\ buffer \in Seq(Listed)
      /\ NoFile \notin Files
  BY TransferAssumption DEF Copied, Shape
<1>2. CASE Pop
  <2>1. /\ pc = "pop" /\ buffer # <<>> /\ info' = Head(buffer) /\ buffer' = Tail(buffer)
        /\ pc' = IF entries = 0 THEN "pop" ELSE "ask"
        /\ UNCHANGED <<files, up, serving, connection, received, entries, pushing, local, since>>
    BY <1>2 DEF Pop
  <2>2. /\ serving.at \in {"select", "busy"} /\ connection.kind \notin {"GET_FILE", "GET_FILE_LIST", "FILE"}
    BY <2>1, AtSelect DEF Copied, Asked
  <2>3. \A f : Named(buffer, f) => info'.file = f \/ Named(buffer', f)
    BY <1>1, <2>1, NamedIs
  <2>4. \A f : Named(buffer', f) => Named(buffer, f)'
    BY DEF Named
  <2>5. ASSUME NEW f \in Files, OnTheWay(f), CopyIs(f), AskedFor(f)
        PROVE  OnTheWay(f)' /\ CopyIs(f)' /\ AskedFor(f)'
    <3>1. CopyIs(f)' /\ AskedFor(f)'
      BY <2>1, <2>2, <2>5 DEF CopyIs, AskedFor
    <3>2. CASE entries = 0
      BY <2>1, <3>1, <3>2 DEF OnTheWay, ListAgain
    <3>3. CASE entries # 0
      <4>1. Coming(f) => Coming(f)' \/ Fetched(f)'
        BY <2>1, <2>2, <2>3, <2>4, <3>3 DEF Coming, Fetched
      <4>2. ~Fetched(f)
        BY <2>1, <2>2 DEF Fetched
      <4>3. ListAgain => ListAgain'
        BY <2>1, <2>2, <2>3, <2>4, <3>3 DEF ListAgain
      <4>. QED BY <2>1, <2>5, <3>1, <4>1, <4>2, <4>3 DEF OnTheWay
    <3>. QED BY <3>2, <3>3
  <2>. QED BY <2>1, <2>5, StillDue
<1>3. CASE AskFileList
  <2>1. /\ pc = "ask"
        /\ up => connection' = [kind |-> "GET_FILE_LIST"]
        /\ UNCHANGED <<files, up, serving, local, since>>
    BY <1>3 DEF AskFileList, create_get_file_list_request
  <2>2. serving.at \in {"select", "busy"}
    BY <2>1, AtSelect
  <2>3. ASSUME NEW f \in Files, CopyIs(f), AskedFor(f)
        PROVE  OnTheWay(f)' /\ CopyIs(f)' /\ AskedFor(f)'
    <3>1. connection' = [kind |-> "GET_FILE_LIST"] /\ up /\ up' = up
      BY <2>1, <2>3 DEF AskedFor
    <3>2. ListAgain'
      BY <2>1, <2>2, <3>1 DEF ListAgain
    <3>. QED BY <2>1, <2>2, <2>3, <3>1, <3>2 DEF OnTheWay, CopyIs, AskedFor, Select, Null
  <2>. QED BY <2>1, <2>3, StillDue
<1>4. CASE AskFile
  <2>1. /\ pc = "ask" /\ info.file # NoFile
        /\ info' = IF local[info.file] = NoFile THEN [info EXCEPT !.version = 0] ELSE info
        /\ up => /\ connection' = [kind |-> "GET_FILE", file |-> info.file,
                                   version |-> info'.version]
                 /\ pc' = "wait"
        /\ UNCHANGED <<files, up, serving, received, buffer, entries, pushing, local, since>>
    BY <1>4 DEF AskFile, create_get_file_request
  <2>2. serving.at \in {"select", "busy"} /\ connection.kind \notin {"GET_FILE", "GET_FILE_LIST"}
    BY <2>1, AtSelect
  <2>3. connection.kind # "FILE"
    BY <2>1 DEF Copied, Asked
  <2>4. info'.file = info.file /\ (local[info.file] = NoFile => info'.version = 0)
    BY <1>1, <2>1 DEF Listed
  <2>5. ASSUME NEW f \in Files, OnTheWay(f), CopyIs(f), AskedFor(f)
        PROVE  OnTheWay(f)' /\ CopyIs(f)' /\ AskedFor(f)'
    <3>1. /\ connection' = [kind |-> "GET_FILE", file |-> info.file, version |-> info'.version]
          /\ pc' = "wait" /\ up
      BY <2>1, <2>5 DEF AskedFor
    <3>2. connection'.kind = "GET_FILE" /\ connection'.version = info'.version /\ connection' # Null
      BY <3>1 DEF Null
    <3>3. CopyIs(f)' /\ AskedFor(f)'
      BY <2>1, <2>2, <2>4, <2>5, <3>1, <3>2 DEF CopyIs, AskedFor
    <3>4. Coming(f) => Coming(f)'
      BY <2>1, <2>2 DEF Coming, Named
    <3>5. Fetched(f) => Fetched(f)'
      BY <2>4, <3>1, <3>2 DEF Fetched
    <3>6. ListAgain => ListAgain'
      BY <2>1, <2>2 DEF ListAgain, Named
    <3>. QED BY <2>1, <2>5, <3>3, <3>4, <3>5, <3>6 DEF OnTheWay
  <2>. QED BY <2>1, <2>5, StillDue
<1>5. CASE ReceiveFileList
  <2>1. /\ pc = "wait" /\ info.file = NoFile /\ connection.kind \in {"FILE_LIST", "null"}
        /\ connection' = NoRequest
        /\ received' = IF connection = Null THEN <<>> ELSE connection.list
        /\ pc' = IF received' = <<>> THEN "pop" ELSE "push"
        /\ UNCHANGED <<files, up, serving, info, buffer, entries, pushing, local, since>>
    BY <1>5 DEF ReceiveFileList
  <2>2. serving.at \notin {"walk", "entry", "read"}
    BY <2>1 DEF Copied, Asked
  <2>3. ASSUME NEW f \in Files, OnTheWay(f), CopyIs(f), AskedFor(f)
        PROVE  OnTheWay(f)' /\ CopyIs(f)' /\ AskedFor(f)'
    <3>1. CopyIs(f)' /\ AskedFor(f)'
      BY <2>1, <2>2, <2>3 DEF CopyIs, AskedFor, NoRequest, Null
    <3>2. Coming(f) => Coming(f)'
      <4>1. CASE Named(buffer, f)
        BY <2>1, <4>1 DEF Coming, Named
      <4>2. CASE connection.kind = "FILE_LIST" /\ Named(connection.list, f)
        <5>1. received' = connection.list
          BY <2>1, <4>2 DEF Null
        <5>2. Named(received', f)
          BY <4>2, <5>1
        <5>3. received' # <<>>
          BY <5>2, NamedIs
        <5>. QED BY <2>1, <5>2, <5>3 DEF Coming, Named
      <4>. QED BY <2>1, <2>2, <4>1, <4>2 DEF Coming
    <3>3. ~Fetched(f)
      BY <1>1, <2>1 DEF Fetched
    <3>4. ListAgain => ListAgain'
      BY <2>1 DEF ListAgain, Named
    <3>. QED BY <2>1, <2>3, <3>1, <3>2, <3>3, <3>4 DEF OnTheWay
  <2>. QED BY <2>1, <2>3, StillDue
<1>6. CASE PushEntry
  <2>1. /\ pc = "push" /\ pc' = IF received' = <<>> THEN "pop" ELSE "push"
        /\ buffer' = Append(buffer, Head(received)) /\ received' = Tail(received)
        /\ UNCHANGED <<files, up, serving, connection, info, entries, pushing, local, since>>
    BY <1>6 DEF PushEntry
  <2>2. received # <<>> /\ Head(received) \in Listed
    BY <1>1, <2>1 DEF Copied, Asked
  <2>3. serving.at \in {"select", "busy"} /\ connection.kind \notin {"GET_FILE", "GET_FILE_LIST", "FILE"}
    BY <2>1, AtSelect DEF Copied, Asked
  <2>4. \A f : Named(buffer', f) <=> Named(buffer, f) \/ Head(received).file = f
    BY <1>1, <2>1, <2>2, NamedIs
  <2>5. \A f : Named(received, f) => Head(received).file = f \/ Named(received', f)
    BY <1>1, <2>1, NamedIs
  <2>6. \A f : Named(received', f) => received' # <<>>
    BY NamedIs
  <2>7. \A f : /\ Named(buffer', f) => Named(buffer, f)'
               /\ Named(received', f) => Named(received, f)'
    BY DEF Named
  <2>8. ASSUME NEW f \in Files, OnTheWay(f), CopyIs(f), AskedFor(f)
        PROVE  OnTheWay(f)' /\ CopyIs(f)' /\ AskedFor(f)'
    <3>1. CopyIs(f)' /\ AskedFor(f)'
      BY <2>1, <2>3, <2>8 DEF CopyIs, AskedFor
    <3>2. Coming(f) => Coming(f)'
      BY <2>1, <2>3, <2>4, <2>5, <2>6, <2>7 DEF Coming
    <3>3. ~Fetched(f)
      BY <2>1, <2>3 DEF Fetched
    <3>4. ListAgain => ListAgain'
      BY <2>1, <2>3, <2>4, <2>7 DEF ListAgain
    <3>. QED BY <2>1, <2>8, <3>1, <3>2, <3>3, <3>4 DEF OnTheWay
  <2>. QED BY <2>1, <2>8, StillDue
<1>7. CASE ReceiveVerdict
  <2>1. /\ pc = "wait" /\ pc' = "pop" /\ connection' = NoRequest
        /\ connection.kind \in {"FILE_NOT_FOUND", "FILE_UP_TO_DATE"}
        /\ UNCHANGED <<files, up, serving, info, received, buffer, entries, pushing, local, since>>
    BY <1>7 DEF ReceiveVerdict
  <2>2. serving.at \notin {"walk", "entry", "read"}
    BY <2>1 DEF Copied, Asked
  <2>3. ASSUME NEW f \in Files, OnTheWay(f), CopyIs(f), AskedFor(f)
        PROVE  OnTheWay(f)' /\ CopyIs(f)' /\ AskedFor(f)'
    <3>1. CopyIs(f)' /\ AskedFor(f)'
      BY <2>1, <2>2, <2>3 DEF CopyIs, AskedFor, NoRequest, Null
    <3>2. Coming(f) => Coming(f)'
      BY <2>1, <2>2 DEF Coming, Named
    <3>3. ~Fetched(f)
      BY <2>1 DEF Fetched
    <3>4. ListAgain => ListAgain'
      BY <2>1 DEF ListAgain, Named
    <3>. QED BY <2>1, <2>3, <3>1, <3>2, <3>3, <3>4 DEF OnTheWay
  <2>. QED BY <2>1, <2>3, StillDue
<1>8. CASE OpenCopy
  <2>1. /\ pc = "wait" /\ pc' = "write" /\ connection.kind = "FILE" /\ local' = Opened
        /\ UNCHANGED <<files, up, serving, connection, info, received, buffer, entries, pushing,
                       since>>
    BY <1>8 DEF OpenCopy
  <2>2. serving.at \notin {"walk", "entry", "read"}
    BY <2>1 DEF Copied, Asked
  <2>3. \A f \in Files : local'[f] = IF f = info.file /\ local[f] = NoFile THEN <<>> ELSE local[f]
    BY <2>1 DEF Opened, Copied, Shape
  <2>4. ASSUME NEW f \in Files, Due(f), OnTheWay(f), CopyIs(f), AskedFor(f)
        PROVE  OnTheWay(f)' /\ CopyIs(f)' /\ AskedFor(f)'
    <3>1. files[f] # NoFile
      BY <2>4, DueIs
    <3>2. CopyIs(f)' /\ AskedFor(f)'
      BY <2>1, <2>2, <2>3, <2>4, <3>1 DEF CopyIs, AskedFor
    <3>3. Coming(f) => Coming(f)'
      BY <2>1, <2>2 DEF Coming, Named
    <3>4. Fetched(f) => Fetched(f)'
      BY <2>1 DEF Fetched
    <3>5. ListAgain => ListAgain'
      BY <2>1 DEF ListAgain, Named
    <3>6. local[f] = files[f] => local'[f] = files[f]
      BY <2>3, <3>1
    <3>. QED BY <2>1, <2>4, <3>2, <3>3, <3>4, <3>5, <3>6 DEF OnTheWay
  <2>. QED BY <2>1, <2>4, StillDue
<1>9. CASE WriteCopy
  <2>1. /\ pc = "write" /\ pc' = "pop" /\ connection' = NoRequest
        /\ local' = [local EXCEPT ![info.file] = Overwrite(connection.content, local[info.file])]
        /\ UNCHANGED <<files, up, serving, info, received, buffer, entries, pushing, since>>
    BY <1>9 DEF WriteCopy
  <2>2. /\ connection.kind = "FILE" /\ serving.at \in {"select", "busy"}
        /\ local[info.file] # NoFile
    BY <2>1, AtSelect, TransferAssumption DEF Copied, OpenedFirst, Content, Versions
  <2>3. ASSUME NEW f \in Files, Due(f), OnTheWay(f), CopyIs(f), AskedFor(f)
        PROVE  OnTheWay(f)' /\ CopyIs(f)' /\ AskedFor(f)'
    <3>1. CASE f = info.file
      <4>1. connection.content = files[f] /\ files[f] \in Content
        BY <2>2, <2>3, <3>1, DueIs DEF AskedFor
      <4>2. local[f] \in {<<>>, files[f]}
        BY <2>2, <2>3, <3>1 DEF CopyIs
      <4>3. local'[f] = files'[f]
        <5>1. local'[f] = Overwrite(files[f], local[f])
          BY <2>1, <3>1, <4>1 DEF Copied, Shape
        <5>. QED BY <2>1, <4>1, <4>2, <5>1, OverwriteSame
      <4>. QED BY <2>1, <2>2, <2>3, <4>3 DEF OnTheWay, CopyIs, AskedFor, NoRequest, Null
    <3>2. CASE f # info.file
      <4>1. local'[f] = local[f]
        BY <2>1, <3>2 DEF Copied, Shape
      <4>2. CopyIs(f)' /\ AskedFor(f)'
        BY <2>1, <2>2, <2>3, <3>2, <4>1 DEF CopyIs, AskedFor, NoRequest, Null
      <4>3. Coming(f) => Coming(f)'
        BY <2>1, <2>2 DEF Coming, Named
      <4>4. ~Fetched(f)
        BY <3>2 DEF Fetched
      <4>5. ListAgain => ListAgain'
        BY <2>1, <2>2 DEF ListAgain, Named
      <4>. QED BY <2>1, <2>3, <4>1, <4>2, <4>3, <4>4, <4>5 DEF OnTheWay
    <3>. QED BY <3>1, <3>2
  <2>. QED BY <2>1, <2>3, StillDue
<1>10. CASE ReceiveNull
  <2>1. since'.unchanged = {}
    BY <1>10 DEF ReceiveNull, Exit, Typed
  <2>. QED BY <2>1, NoneDue
<1>. QED
  BY <1>2, <1>3, <1>4, <1>5, <1>6, <1>7, <1>8, <1>9, <1>10 DEF Worker

LEMMA NextPursues ==
    ASSUME Copied, Typed, Pursued, [Next]_vars
    PROVE  Pursued'
<1>1. CASE OwnerStops \/ ClientStops
  <2>1. since'.unchanged = {}
    BY <1>1 DEF OwnerStops, ClientStops, Exit, Typed
  <2>. QED BY <2>1, NoneDue
<1>. QED BY <1>1, OwnerPursues, EditPursues, OthersPursue, WorkerPursues DEF Next

(***************************************************************************)
(* QuietMeansCopied: whatever happens while a list is walked, its records  *)
(* wait in the buffer, are dropped because the owner is not in the list,   *)
(* or the files travel - a client that has nothing left to do has a word   *)
(* for word copy of all that nobody changed, had before, or has version 0. *)
(***************************************************************************)
THEOREM QuietMeansCopiedAlways == Spec => []QuietMeansCopied
<1>1. Init => Pursued
  BY DEF Init, Pursued, Due
<1>2. ASSUME Copied, Typed, Pursued PROVE QuietMeansCopied
  <2>. SUFFICES ASSUME Quiet, NEW f \in since.unchanged \ since.copied, f \in Files, Due(f)
                PROVE  local[f] = files[f]
    BY <1>2 DEF QuietMeansCopied, Due, Typed
  <2>1. pc = "pop" /\ buffer = <<>> /\ ~pushing /\ entries # 0
    BY DEF Quiet
  <2>2. serving.at \in {"select", "busy"} /\ connection.kind \notin {"GET_FILE", "GET_FILE_LIST", "FILE"}
    BY <1>2, <2>1, AtSelect DEF Copied, Asked
  <2>3. ~Named(buffer, f) /\ ~Named(buffer, NoFile)
    BY <2>1, NamedIs
  <2>. QED BY <1>2, <2>1, <2>2, <2>3
           DEF Pursued, OnTheWay, Coming, Fetched, ListAgain
<1>. QED BY InitCopied, NextPreserves, InitTyped, TypedPreserved, NextPursues, <1>1, <1>2, PTL
         DEF Spec
=============================================================================
