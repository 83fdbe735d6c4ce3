----------------------------- MODULE FileServer ----------------------------
(* nonstop_networking/server.c: one thread, one event of one connection at a *)
(* time.  A request is a stream that arrives in pieces of any length; a unit *)
(* stands for the command, its '\n', each half of the size of a PUT, and     *)
(* each part of its body.  A client goes away when it likes: its request may *)
(* end anywhere, also after more body than its size says.  The file of a PUT *)
(* may fail to open; a write to an open file succeeds.  An inode is named    *)
(* after the connection that created it.                                     *)
EXTENDS Integers, SequencesExt

CONSTANTS Names, NameLen,  \* file names and their strlen
          NumRequests,     \* connections clients make, one request each
          PutSizes,        \* sizes PUTs announce
          MaxBody,         \* bounds what follows the size
          INT              \* two size_t with this much between them are one int

FileServerAssumption == /\ NumRequests \in Nat /\ PutSizes \subseteq Nat /\ MaxBody \in Nat
                        /\ INT \in Nat \ {0} /\ NameLen \in [Names -> Nat]

Requests == 1 .. NumRequests
NULL == 0        \* no connection, inode, open file or '\n', a byte nobody wrote
Newline == 2     \* units up to and with the '\n'
SizeLen == 2     \* units of the size
SizeEnd == Newline + SizeLen

VARIABLES req,          \* req[c]: its verb, name and size, once c is accepted
          arrived,      \* units of c's request read so far
          meta,         \* meta[c]: the metadata of the connection
          reply,        \* "none", "OK", "ERROR", or "silent": closed without one
          file_vector, file_len,
          disk, data,   \* the inode of a name, what each byte of an inode is of
          running,
          lastPut,      \* history: who opened a name last, since its DELETE
          overlapped,   \* history: PUTs that met a PUT or DELETE of their name
          again,        \* history: a PUT of a listed name has succeeded
          late          \* history: PUTs of size 0 that went on after their size

connections == <<req, arrived, meta, reply>>
files == <<file_vector, file_len, disk, data>>
history == <<lastPut, overlapped, again, late>>
fileVars == <<connections, files, running, history>>

Init == /\ req = <<>> /\ arrived = <<>> /\ meta = <<>> /\ reply = <<>>
        /\ file_vector = <<>> /\ file_len = -1
        /\ disk = [n \in Names |-> NULL]
        /\ data = [c \in Requests |-> <<>>]
        /\ running = TRUE
        /\ lastPut = [n \in Names |-> NULL] /\ overlapped = {} /\ again = FALSE
        /\ late = {}

Request == [verb : {"GET", "DELETE"}, name : Names, size : {0}]
             \cup [verb : {"LIST", "V_UNKNOWN"}, name : {NULL}, size : {0}]
             \cup [verb : {"PUT"}, name : Names, size : PutSizes]

Listed == ToSet(file_vector)
Pending(c) == running /\ c \in DOMAIN reply /\ reply[c] = "none"
\* What c sends if it stays.
Total(c) == IF req[c].verb = "PUT" THEN SizeEnd + MaxBody ELSE Newline
Writing(n) == {c \in DOMAIN req : /\ req[c].verb = "PUT" /\ req[c].name = n
                                  /\ meta[c].local_fd # NULL /\ reply[c] = "none"}
Answer(c, answer) == reply' = [reply EXCEPT ![c] = answer]

accept_connections(r) ==
  /\ running /\ Len(req) < NumRequests
  /\ req' = Append(req, r)
  /\ arrived' = Append(arrived, 0)
  /\ meta' = Append(meta, [header |-> FALSE, offfsets |-> 0, file_size |-> 0,
                           size_offfsets |-> 0, local_fd |-> NULL])
  /\ reply' = Append(reply, "none")
  /\ UNCHANGED <<files, running, history>>

---------------------------------------------------------------------------
(* hd_data(c) when read returns count > 0; m is the metadata after line    *)
(* 459.  Until the size is taken the buffer begins with the request.       *)

Got(c, count) == [meta[c] EXCEPT !.offfsets = @ + count]

More(c, count) == /\ Pending(c)
                  /\ arrived[c] + count <= Total(c)
                  /\ arrived' = [arrived EXCEPT ![c] = @ + count]
                  /\ UNCHANGED <<req, running>>

\* write_all_to_socket(fd, ..., count): what it returns, and the inodes after it.
Counted(fd, count) == IF fd = NULL /\ count > 0 THEN -1 ELSE count

Written(inodes, fd, position, count, c) ==
  LET old == inodes[fd]
      end == IF position + count > Len(old) THEN position + count ELSE Len(old)
  IN  IF fd = NULL THEN inodes
      ELSE [inodes EXCEPT ![fd] = [k \in 1 .. end |->
              IF k \in position + 1 .. position + count THEN c
              ELSE IF k <= Len(old) THEN old[k] ELSE NULL]]

\* Slip: the bytes of the size are written as well when they come with others.
TakeSizeTwice(c, m, inodes, newline, size) ==
  IF m.offfsets < newline + SizeLen
  THEN meta' = [meta EXCEPT ![c] = m] /\ data' = inodes
  ELSE LET remaining == m.offfsets - newline
       IN  /\ meta' = [meta EXCEPT ![c] =
                 [header |-> m.header, offfsets |-> 0, file_size |-> size,
                  size_offfsets |-> m.size_offfsets + Counted(m.local_fd, remaining),
                  local_fd |-> m.local_fd]]
           /\ data' = Written(inodes, m.local_fd, m.size_offfsets, remaining, c)

\* Lines 293-307 and 487-495: a size that is whole behind the newline is taken,
\* and what follows it is written.
TakeSize(c, m, inodes, newline, size) ==
  IF m.offfsets < newline + SizeLen
  THEN meta' = [meta EXCEPT ![c] = m] /\ data' = inodes
  ELSE LET remaining == m.offfsets - newline - SizeLen
       IN  /\ meta' = [meta EXCEPT ![c] =
                 [header |-> m.header, offfsets |-> 0, file_size |-> size,
                  size_offfsets |-> m.size_offfsets + Counted(m.local_fd, remaining),
                  local_fd |-> m.local_fd]]
           /\ data' = Written(inodes, m.local_fd, m.size_offfsets, remaining, c)

HeaderIncomplete(c, count) ==
  /\ More(c, count) /\ ~meta[c].header
  /\ arrived'[c] < Newline
  /\ meta' = [meta EXCEPT ![c] = Got(c, count)]
  /\ UNCHANGED <<reply, files, history>>

Parsed(c, verb, count) == /\ More(c, count) /\ ~meta[c].header
                          /\ arrived'[c] >= Newline
                          /\ req[c].verb = verb

\* hd_parse_error, listinserver and getinserver only answer; a GET of a name
\* that is listed but not on disk is answered OK with a size of -1.
OnlyAnswer(c, count) ==
  /\ \/ Parsed(c, "V_UNKNOWN", count) /\ Answer(c, "ERROR")
     \/ Parsed(c, "LIST", count) /\ Answer(c, "OK")
     \/ Parsed(c, "GET", count) /\ Answer(c, IF req[c].name \in Listed THEN "OK" ELSE "ERROR")
  /\ UNCHANGED <<meta, files, history>>

deleteinserver(c, count) ==
  /\ Parsed(c, "DELETE", count)
  /\ LET n == req[c].name
     IN  IF n \in Listed
         THEN /\ file_vector' = RemoveFirst(file_vector, n)
              /\ file_len' = file_len - NameLen[n] - 1
              /\ disk' = [disk EXCEPT ![n] = NULL]
              /\ Answer(c, IF disk[n] = NULL THEN "silent" ELSE "OK")
              /\ lastPut' = [lastPut EXCEPT ![n] = NULL]
              /\ overlapped' = overlapped \cup Writing(n)
         ELSE /\ Answer(c, "ERROR")
              /\ UNCHANGED <<file_vector, file_len, disk, lastPut, overlapped>>
  /\ UNCHANGED <<meta, data, again, late>>

\* open with O_CREAT and O_TRUNC.
putinserver(c, count) ==
  /\ Parsed(c, "PUT", count)
  /\ LET n == req[c].name
         inode == IF disk[n] = NULL THEN c ELSE disk[n]
         others == Writing(n)
     IN  /\ disk' = [disk EXCEPT ![n] = inode]
         /\ TakeSize(c, [Got(c, count) EXCEPT !.header = TRUE, !.local_fd = inode],
                     [data EXCEPT ![inode] = <<>>], Newline, req[c].size)
         /\ lastPut' = [lastPut EXCEPT ![n] = c]
         /\ overlapped' = overlapped \cup (IF others = {} THEN {} ELSE others \cup {c})
  /\ UNCHANGED <<reply, file_vector, file_len, again, late>>

\* open fails, for a name with a '/' or for want of descriptors: the size is left
\* in the buffer, and the PUT goes on.
OpenFails(c, count) ==
  /\ Parsed(c, "PUT", count)
  /\ meta' = [meta EXCEPT ![c] = [Got(c, count) EXCEPT !.header = TRUE]]
  /\ UNCHANGED <<reply, files, history>>

\* The buffer begins with the request until the size is taken.
FromStart(c) == meta[c].offfsets = arrived[c]

SizeArrives(c, count) ==
  /\ More(c, count) /\ meta[c].header /\ meta[c].file_size = 0
  /\ FromStart(c)
  /\ TakeSize(c, Got(c, count), data, Newline, req[c].size)
  /\ UNCHANGED <<reply, file_vector, file_len, disk, history>>

\* Behind a size of 0 the buffer is filled from its start again, and strchr finds
\* a '\n' wherever the new bytes or what they left of the old ones have it.
TakenAgain(c, count) ==
  /\ More(c, count) /\ meta[c].header /\ meta[c].file_size = 0
  /\ ~FromStart(c)
  /\ \E newline \in 1 .. arrived'[c], size \in PutSizes :
       TakeSize(c, Got(c, count), data, newline, size)
  /\ late' = late \cup {c}
  /\ UNCHANGED <<reply, file_vector, file_len, disk, lastPut, overlapped, again>>

BodyArrives(c, count) ==
  /\ More(c, count) /\ meta[c].header /\ meta[c].file_size # 0
  /\ data' = Written(data, meta[c].local_fd, meta[c].size_offfsets, count, c)
  /\ meta' = [meta EXCEPT ![c].offfsets = 0,
                          ![c].size_offfsets = @ + Counted(meta[c].local_fd, count)]
  /\ UNCHANGED <<reply, file_vector, file_len, disk, history>>

---------------------------------------------------------------------------
(* hd_data(c) when read returns 0: the client is done, or went away.       *)

\* judge_data_size, lines 258-260, compares two size_t as int.
SameInt(m, n) == (m - n) % INT = 0

\* Slip: a name is appended whether it is there or not.
PutSucceedsTwice(c) ==
  /\ Pending(c) /\ req[c].verb = "PUT" /\ meta[c].header
  /\ SameInt(meta[c].size_offfsets, meta[c].file_size)
  /\ file_len' = file_len + NameLen[req[c].name] + 1
  /\ file_vector' = Append(file_vector, req[c].name)
  /\ again' = (again \/ req[c].name \in Listed)
  /\ Answer(c, "OK")
  /\ UNCHANGED <<req, arrived, meta, disk, data, running, lastPut, overlapped, late>>

\* The length grows also when the name is not added.
PutSucceeds(c) ==
  /\ Pending(c) /\ req[c].verb = "PUT" /\ meta[c].header
  /\ SameInt(meta[c].size_offfsets, meta[c].file_size)
  /\ file_len' = file_len + NameLen[req[c].name] + 1
  /\ file_vector' = IF req[c].name \in Listed THEN file_vector ELSE Append(file_vector, req[c].name)
  /\ again' = (again \/ req[c].name \in Listed)
  /\ Answer(c, "OK")
  /\ UNCHANGED <<req, arrived, meta, disk, data, running, lastPut, overlapped, late>>

PutFails(c) ==
  /\ Pending(c) /\ req[c].verb = "PUT" /\ meta[c].header
  /\ ~SameInt(meta[c].size_offfsets, meta[c].file_size)
  /\ Answer(c, "ERROR")
  /\ UNCHANGED <<req, arrived, meta, files, running, history>>

\* What the process kept in memory is gone.
Gone == /\ running /\ running' = FALSE
        /\ req' = <<>> /\ arrived' = <<>> /\ meta' = <<>> /\ reply' = <<>>
        /\ file_vector' = <<>> /\ file_len' = -1
        /\ lastPut' = [n \in Names |-> NULL] /\ overlapped' = {} /\ again' = FALSE
        /\ late' = {}

\* Line 487 reads through data when strchr has found no '\n' (NULL): SIGSEGV.
Crash(c) == /\ Pending(c) /\ arrived[c] < Total(c)
            /\ meta[c].header /\ meta[c].file_size = 0 /\ ~FromStart(c)
            /\ Gone /\ UNCHANGED <<disk, data>>

\* SIGINT: only listed files are removed, and the process exits.
final_cleanup ==
  /\ Gone
  /\ disk' = [n \in Names |-> IF n \in Listed THEN NULL ELSE disk[n]]
  /\ data' = [i \in Requests |-> IF \E n \in Names : disk'[n] = i THEN data[i] ELSE <<>>]

hd_data(c) == \/ \E count \in 1 .. SizeEnd + MaxBody :
                   \/ HeaderIncomplete(c, count) \/ OnlyAnswer(c, count)
                   \/ deleteinserver(c, count)
                   \/ putinserver(c, count) \/ OpenFails(c, count)
                   \/ SizeArrives(c, count) \/ TakenAgain(c, count) \/ BodyArrives(c, count)
              \/ Crash(c) \/ PutSucceeds(c) \/ PutFails(c)

Next == \/ \E r \in Request : accept_connections(r)
        \/ \E c \in Requests : hd_data(c)
        \/ final_cleanup

Spec == Init /\ [][Next]_fileVars

---------------------------------------------------------------------------
(* Properties.                                                             *)

\* server.c:281-287, 337-347, 504-514: no name is listed twice; file_len is the
\* length of the list, too long only after a PUT of a listed name; and a listed
\* name is a file on disk, unless a PUT of it met another request for it or could
\* not open its file.
ListMatchesFiles ==
  LET Length == FoldSet(LAMBDA n, sum : sum + NameLen[n] + 1, 0, Listed)
      Unopened(c) == meta[c].header /\ meta[c].local_fd = NULL
  IN  /\ IsInjective(file_vector)
      /\ file_len + 1 >= Length
      /\ ~again => file_len + 1 = Length
      /\ \A n \in Listed : disk[n] = NULL =>
           \E c \in DOMAIN req : /\ req[c].verb = "PUT" /\ req[c].name = n
                                 /\ c \in overlapped \/ Unopened(c)

\* server.c:257-274, 293-307, 480-496: however a PUT is cut into pieces, if its
\* file was opened and nothing came late behind a size of 0, it is answered OK if
\* and only if what came and its size (or the lack of both) are the same int; and
\* then, if no other request met it or came after it, the file is listed and holds
\* what came and nothing else.
StoredWhole ==
  \A c \in DOMAIN req \ late :
    req[c].verb = "PUT" /\ reply[c] # "none" /\ meta[c].local_fd # NULL =>
      LET n == req[c].name
          came == IF arrived[c] < SizeEnd THEN 0 ELSE arrived[c] - SizeEnd
          size == IF arrived[c] < SizeEnd THEN 0 ELSE req[c].size
      IN  /\ (reply[c] = "OK") <=> SameInt(came, size)
          /\ reply[c] = "OK" /\ lastPut[n] = c /\ c \notin overlapped =>
               n \in Listed /\ disk[n] # NULL /\ data[disk[n]] = [k \in 1 .. came |-> c]
=============================================================================
