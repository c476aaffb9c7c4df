----------------------------- MODULE LogRotation -----------------------------
(***************************************************************************)
(* The log of ULanternGameInstance: a ring of files, a new one taken when  *)
(* the open one has reached its size, and the index of the open file kept  *)
(* in the save game, which is written by Save only.                        *)
(*                                                                         *)
(* Lines are numbered in the order they are written; a file is the         *)
(* sequence of its lines and a file that does not exist is an empty one.   *)
(* What is on disk (files, saved) survives a restart; what is in memory    *)
(* (LogFileIndex, handle) does not.  A crash may come between any two      *)
(* steps.                                                                  *)
(***************************************************************************)
EXTENDS Naturals, Sequences

CONSTANTS
  NumFiles,     \* 9 in the code
  FileSize,     \* lines that make up 100'000'000 bytes
  MaxLines,     \* bound: lines written
  MaxCrashes,   \* bound: crashes
  MaxFailures   \* bound: files that do not open

ASSUME NumFilesAssumption == NumFiles \in Nat /\ NumFiles >= 2
ASSUME FileSizeAssumption == FileSize \in Nat \ {0}
ASSUME BoundsAssumption ==
  MaxLines \in Nat /\ MaxCrashes \in Nat /\ MaxFailures \in Nat

VARIABLES
  files,          \* Logs/LogFile%d.log
  saved,          \* SaveGame->LogFileIndex in the slot
  LogFileIndex,
  handle,         \* FileHandle, meaningful while running
  running,        \* between Init and Shutdown
  lines,          \* lines written so far
  crashes, failures   \* what has happened of the bounded events

vars == <<files, saved, LogFileIndex, handle, running, lines, crashes, failures>>

Index == 0 .. NumFiles - 1

TypeOK ==
  /\ files \in [Index -> Seq(Nat)]
  /\ saved \in Index
  /\ LogFileIndex \in Index
  /\ handle \in {"null", "open"}
  /\ running \in BOOLEAN
  /\ lines \in 0 .. MaxLines
  /\ crashes \in 0 .. MaxCrashes
  /\ failures \in 0 .. MaxFailures

\* Nothing logged yet, no save game.
Init ==
  /\ files = [i \in Index |-> <<>>]
  /\ saved = 0
  /\ LogFileIndex = 0
  /\ handle = "null"
  /\ running = FALSE
  /\ lines = 0
  /\ crashes = 0
  /\ failures = 0

\* OpenWrite, which may fail.
OpenWrite ==
  \/ handle' = "open" /\ UNCHANGED failures
  \/ handle' = "null" /\ failures < MaxFailures /\ failures' = failures + 1

\* Variant: the file that is taken is appended to.
MoveToNextFileAppending(fs, index) ==
  /\ LogFileIndex' = (index + 1) % NumFiles
  /\ files' = fs
  /\ OpenWrite

\* The next file of the ring, emptied.
MoveToNextFile(fs, index) ==
  /\ LogFileIndex' = (index + 1) % NumFiles
  /\ files' = [fs EXCEPT ![(index + 1) % NumFiles] = <<>>]
  /\ OpenWrite

\* Variant: the size is compared with twice the limit.
LogToFileUnbounded(fs, index) ==
  /\ lines < MaxLines
  /\ lines' = lines + 1
  /\ LET written == [fs EXCEPT ![index] = Append(@, lines + 1)] IN
     IF Len(written[index]) >= 2 * FileSize
     THEN MoveToNextFile(written, index)
     ELSE /\ files' = written
          /\ LogFileIndex' = index
          /\ handle' = "open"
          /\ UNCHANGED failures

\* The line is written to file index, which is open; then its size is checked.
LogToFile(fs, index) ==
  /\ lines < MaxLines
  /\ lines' = lines + 1
  /\ LET written == [fs EXCEPT ![index] = Append(@, lines + 1)] IN
     IF Len(written[index]) >= FileSize
     THEN MoveToNextFile(written, index)
     ELSE /\ files' = written
          /\ LogFileIndex' = index
          /\ handle' = "open"
          /\ UNCHANGED failures

\* OpenLogFile: the file of the index, for appending, and the first line.
OpenLogFile(index) ==
  \/ LogToFile(files, index)
  \/ /\ failures < MaxFailures
     /\ failures' = failures + 1
     /\ LogFileIndex' = index
     /\ handle' = "null"
     /\ UNCHANGED <<files, lines>>

\* Init: the index that was saved last, 0 the first time.
GameInit ==
  /\ ~running
  /\ running' = TRUE
  /\ OpenLogFile(saved)
  /\ UNCHANGED <<saved, crashes>>

\* Whatever logs something; without a file nothing happens.
Log ==
  /\ running /\ handle = "open"
  /\ LogToFile(files, LogFileIndex)
  /\ UNCHANGED <<saved, running, crashes>>

\* Save: the index first, then a line, which may move on to the next file and
\* leave the saved index behind.
Save ==
  /\ saved' = LogFileIndex
  /\ IF handle = "open"
     THEN LogToFile(files, LogFileIndex)
     ELSE UNCHANGED <<files, LogFileIndex, handle, lines, failures>>

\* Save is callable from a Blueprint as well.
SaveGame ==
  /\ running
  /\ Save
  /\ UNCHANGED <<running, crashes>>

\* Variant: no Save at the end.
ShutdownWithoutSave ==
  /\ running
  /\ running' = FALSE
  /\ UNCHANGED <<files, saved, LogFileIndex, handle, lines, failures, crashes>>

\* Shutdown: Save, and the file is closed.
Shutdown ==
  /\ running
  /\ running' = FALSE
  /\ Save
  /\ UNCHANGED crashes

\* The process ends without Shutdown.
Crash ==
  /\ running
  /\ crashes < MaxCrashes
  /\ crashes' = crashes + 1
  /\ running' = FALSE
  /\ UNCHANGED <<files, saved, LogFileIndex, handle, lines, failures>>

Next == GameInit \/ Log \/ SaveGame \/ Shutdown \/ Crash

Spec == Init /\ [][Next]_vars

-----------------------------------------------------------------------------
(* Properties *)

LinesOf(i) == {files[i][k] : k \in 1 .. Len(files[i])}
Kept == UNION {LinesOf(i) : i \in Index}

\* Without a crash the ring always holds the newest lines without a gap, and
\* all but one file of them, however often the program was restarted, also when
\* the last line of Shutdown moved on to a file the saved index does not name.
NewestKept ==
  crashes = 0 =>
    \A k \in 1 .. lines :
      k + (NumFiles - 1) * FileSize > lines \/ (\E j \in Kept : j < k) => k \in Kept

\* The open file is new or ends with the last line written, also after a crash
\* has sent LogFileIndex back to what was saved.
OpenFileIsNewest ==
  running /\ handle = "open" /\ files[LogFileIndex] # <<>>
    => files[LogFileIndex][Len(files[LogFileIndex])] = lines

\* A full file that a stale index reopens grows by the line of that Init; only
\* crashes, which leave the index stale, can make it happen to a file again.
FilesBounded == \A i \in Index : Len(files[i]) <= FileSize + crashes + 1

=============================================================================
