--------------------------- MODULE BufferedWriter ---------------------------
(***************************************************************************)
(* The writer of a channel's raw data (BufferedWriter.h): it makes the     *)
(* directory, opens the file of the moment and collects what is written in *)
(* a buffer that goes to the file when it is full, when the file changes   *)
(* and in the destructor.  Files are opened for appending, so a file may   *)
(* be left and come back to, also by the program's next run.  Making a     *)
(* directory, opening and writing may fail; directories are not removed.   *)
(*                                                                         *)
(* Bytes are numbered as the buffer accepts them: the next is              *)
(* Len(owner) + 1.                                                         *)
(***************************************************************************)
EXTENDS Integers, Sequences

CONSTANTS
  Dirs, Names,
  Cwd,        \* the directory of a writer that was given none
  NoPath,     \* the empty path
  BufferSize, \* m_bufferSize
  Lengths,    \* of what is written at once
  MaxBytes    \* bound: bytes accepted in one behaviour

ASSUME WriterAssumption ==
  /\ BufferSize \in Nat \ {0}
  /\ Lengths \subseteq Nat \ {0}
  /\ Cwd \in Dirs
  /\ NoPath \notin Dirs \X Names
  /\ MaxBytes \in Nat

VARIABLES
  mDir,   \* m_dir
  there,  \* the directories that exist
  path,   \* m_file's name
  isOpen,
  buffer, \* m_buffer
  stored, \* what the files have
  owner,  \* history: the file that was open when a byte was accepted
  failed  \* history: the bytes that a crash or a failed write has lost

writerVars == <<mDir, there, path, isOpen, buffer, stored, owner, failed>>

Paths == Dirs \X Names

WriterInit ==
  /\ mDir = Cwd /\ there = {Cwd}
  /\ path = NoPath /\ isOpen = FALSE /\ buffer = <<>>
  /\ stored = [p \in Paths |-> <<>>]
  /\ owner = <<>> /\ failed = {}

(* flushBuffer, with bytes in the buffer: some of them reach the file.     *)
Flush(bytes) ==
  /\ \E n \in 0 .. Len(bytes) :
       /\ stored' = [stored EXCEPT ![path] = @ \o SubSeq(bytes, 1, n)]
       /\ failed' = failed \cup {bytes[m] : m \in n + 1 .. Len(bytes)}
  /\ buffer' = <<>>

(* The buffer of an open file is flushed, a closed file's is left alone.   *)
FlushIfOpen == IF isOpen THEN Flush(buffer)
                         ELSE UNCHANGED <<buffer, stored, failed>>

SetDir(d) ==
  /\ mDir' = d
  /\ there' \in {there, there \cup {d}}
  /\ UNCHANGED <<path, isOpen, buffer, stored, owner, failed>>

(* Mutant: the last file's bytes stay in the buffer.                       *)
SetFileUnflushed(name) ==
  LET full == IF mDir \in there THEN <<mDir, name>> ELSE NoPath
  IN  /\ full # path \/ ~isOpen
      /\ path' = full
      /\ isOpen' \in IF full = NoPath THEN {FALSE} ELSE BOOLEAN
      /\ UNCHANGED <<mDir, there, buffer, stored, owner, failed>>

(* Nothing happens if the file is open; otherwise the last one is flushed  *)
(* and closed and this one opened, in the directory if there is one.       *)
SetFile(name) ==
  LET full == IF mDir \in there THEN <<mDir, name>> ELSE NoPath
  IN  /\ full # path \/ ~isOpen
      /\ FlushIfOpen
      /\ path' = full
      /\ isOpen' \in IF full = NoPath THEN {FALSE} ELSE BOOLEAN
      /\ UNCHANGED <<mDir, there, owner>>

Lesser(x, y) == IF x < y THEN x ELSE y

(* What does not fit is cut off.  A full buffer is flushed.                *)
Write(length) ==
  LET accepted == Lesser(length, BufferSize - Len(buffer))
      bytes == buffer \o [m \in 1 .. accepted |-> Len(owner) + m]
  IN  /\ isOpen /\ Len(owner) + length <= MaxBytes
      /\ owner' = owner \o [m \in 1 .. accepted |-> path]
      /\ \/ Len(bytes) >= BufferSize /\ Flush(bytes)
         \/ /\ Len(bytes) < BufferSize /\ buffer' = bytes
            /\ UNCHANGED <<stored, failed>>
      /\ UNCHANGED <<mDir, there, path, isOpen>>

(* The destructor, and the constructor of the program's next run.          *)
Reopen ==
  /\ FlushIfOpen
  /\ mDir' = Cwd /\ path' = NoPath /\ isOpen' = FALSE
  /\ UNCHANGED <<there, owner>>

CrashWriter ==
  /\ failed' = failed \cup {buffer[m] : m \in 1 .. Len(buffer)}
  /\ mDir' = Cwd /\ path' = NoPath /\ isOpen' = FALSE /\ buffer' = <<>>
  /\ UNCHANGED <<there, stored, owner>>

WriterNext ==
  \/ \E d \in Dirs : SetDir(d)
  \/ \E name \in Names : SetFile(name)
  \/ \E length \in Lengths : Write(length)
  \/ Reopen
  \/ CrashWriter

WriterSpec == WriterInit /\ [][WriterNext]_writerVars

-----------------------------------------------------------------------------
(* The bytes accepted while p was open, without those that were lost, and  *)
(* those that are in the file or wait for it.                              *)
BytesOf(p) == {m \in 1 .. Len(owner) : owner[m] = p /\ m \notin failed}
Held(p) == stored[p] \o IF isOpen /\ path = p THEN buffer ELSE <<>>

(* The members of s, each once and in order, are those of S.               *)
Lists(s, S) ==
  /\ \A i, j \in 1 .. Len(s) : i < j => s[i] < s[j]
  /\ {s[i] : i \in 1 .. Len(s)} = S

(* Every byte reaches the file that was open when it was written, once and *)
(* in order, or still waits in the buffer of that file, over changes of    *)
(* file and directory, failures, crashes and runs: the buffer never goes to*)
(* the next file (BufferedWriter.h:51-77, 147-152).                        *)
BytesReachTheirFile == \A p \in Paths : Lists(Held(p), BytesOf(p))
=============================================================================
