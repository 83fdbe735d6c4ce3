------------------------------ MODULE MCFiles ------------------------------
(* The file server under names of its own: for TLC beside other programs,   *)
(* and for the proofs about it.                                             *)
EXTENDS Integers

CONSTANTS Names, NameLen, NumRequests, PutSizes, MaxBody, INT
VARIABLES req, arrived, meta, reply, file_vector, file_len, disk, data, running,
          lastPut, overlapped, again, late

Files == INSTANCE FileServer

ASSUME FilesOK == Files!FileServerAssumption

fileVars == <<req, arrived, meta, reply, file_vector, file_len, disk, data, running,
              lastPut, overlapped, again, late>>

---------------------------------------------------------------------------
(* Properties, stated in FileServer.                                       *)

\* server.c of the file server: the list, its length and the directory agree.
ListMatchesFiles == Files!ListMatchesFiles
\* server.c of the file server: a PUT answered OK is whole, however it arrived.
StoredWhole == Files!StoredWhole
=============================================================================
