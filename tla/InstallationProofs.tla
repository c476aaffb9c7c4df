-------------------------- MODULE InstallationProofs --------------------------
(***************************************************************************)
(* Theorems about LogRotation, for any number and size of files, any       *)
(* number of lines, crashes and files that do not open: types, how long a  *)
(* file can get, and which lines are there.  And about Installation, for   *)
(* any configurations and levels, any number of pawn types, any time and   *)
(* number of toasts, and any bounds of the log.                            *)
(***************************************************************************)
EXTENDS Installation, TLAPS

-----------------------------------------------------------------------------
(* The log by itself: types *)

LEMMA ConstantsType ==
  /\ NumFiles \in Nat /\ NumFiles >= 2 /\ FileSize \in Nat /\ FileSize >= 1
  /\ MaxLines \in Nat /\ MaxCrashes \in Nat /\ MaxFailures \in Nat
BY NumFilesAssumption, FileSizeAssumption, BoundsAssumption

\* The file after index.
After(index) == (index + 1) % NumFiles

LEMMA AfterCases ==
  ASSUME NEW index \in Index
  PROVE  /\ After(index) = IF index + 1 = NumFiles THEN 0 ELSE index + 1
         /\ After(index) \in Index
         /\ After(index) # index
BY ConstantsType DEF After, Index

\* A line at the end of a file.
Written(fs, index, n) == [fs EXCEPT ![index] = Append(@, n + 1)]

\* What a line may do to the files: it is written, and if the file has then
\* reached its size the next one is emptied and taken.
LEMMA LogToFileCases ==
  ASSUME NEW index \in Index, LogToFile(files, index), lines \in Nat,
         files \in [Index -> Seq(Nat)]
  PROVE  /\ lines < MaxLines /\ lines' = lines + 1
         /\ \/ /\ Len(Written(files, index, lines)[index]) < FileSize
               /\ files' = Written(files, index, lines)
               /\ LogFileIndex' = index
               /\ handle' = "open"
               /\ failures' = failures
            \/ /\ Len(Written(files, index, lines)[index]) >= FileSize
               /\ files' = [Written(files, index, lines) EXCEPT ![After(index)] = <<>>]
               /\ LogFileIndex' = After(index)
               /\ handle' \in {"open", "null"}
               /\ \/ failures' = failures
                  \/ failures < MaxFailures /\ failures' = failures + 1
<1>1. Len(Written(files, index, lines)[index]) \in Nat
  BY DEF Written
<1>2. CASE Len(Written(files, index, lines)[index]) >= FileSize
  BY <1>2 DEF LogToFile, MoveToNextFile, OpenWrite, Written, After
<1>3. CASE ~(Len(Written(files, index, lines)[index]) >= FileSize)
  BY <1>1, <1>3, ConstantsType DEF LogToFile, Written
<1> QED BY <1>2, <1>3

\* What the files of a line are.
LEMMA WrittenType ==
  ASSUME NEW fs \in [Index -> Seq(Nat)], NEW index \in Index, NEW n \in Nat
  PROVE  /\ Written(fs, index, n) \in [Index -> Seq(Nat)]
         /\ Len(Written(fs, index, n)[index]) = Len(fs[index]) + 1
         /\ Written(fs, index, n)[index][Len(fs[index]) + 1] = n + 1
         /\ \A k \in 1 .. Len(fs[index]) : Written(fs, index, n)[index][k] = fs[index][k]
         /\ \A i \in Index : i # index => Written(fs, index, n)[i] = fs[i]
<1>1. /\ Append(fs[index], n + 1) \in Seq(Nat)
      /\ Len(Append(fs[index], n + 1)) = Len(fs[index]) + 1
      /\ Append(fs[index], n + 1)[Len(fs[index]) + 1] = n + 1
      /\ \A k \in 1 .. Len(fs[index]) : Append(fs[index], n + 1)[k] = fs[index][k]
  OBVIOUS
<1> QED BY <1>1 DEF Written

\* What the files are when one has been emptied.
LEMMA EmptiedType ==
  ASSUME NEW fs \in [Index -> Seq(Nat)], NEW index \in Index
  PROVE  /\ [fs EXCEPT ![index] = <<>>] \in [Index -> Seq(Nat)]
         /\ [fs EXCEPT ![index] = <<>>][index] = <<>>
         /\ \A i \in Index : i # index => [fs EXCEPT ![index] = <<>>][i] = fs[i]
<1>1. <<>> \in Seq(Nat)
  OBVIOUS
<1> QED BY <1>1

\* A line keeps the types.
LEMMA LogToFileType ==
  ASSUME TypeOK, NEW index \in Index, LogToFile(files, index)
  PROVE  /\ files' \in [Index -> Seq(Nat)]
         /\ LogFileIndex' \in Index
         /\ handle' \in {"null", "open"}
         /\ lines' \in 0 .. MaxLines
         /\ failures' \in 0 .. MaxFailures
<1>1. files \in [Index -> Seq(Nat)] /\ lines \in 0 .. MaxLines /\ failures \in 0 .. MaxFailures
  BY DEF TypeOK
<1>2. lines \in Nat /\ failures \in Nat
  BY <1>1, ConstantsType
<1>3. Written(files, index, lines) \in [Index -> Seq(Nat)]
  BY <1>1, <1>2, WrittenType
<1>4. [Written(files, index, lines) EXCEPT ![After(index)] = <<>>] \in [Index -> Seq(Nat)]
  BY <1>3, EmptiedType
<1>5. lines < MaxLines /\ lines' = lines + 1
  BY <1>1, <1>2, LogToFileCases
<1>6. \/ failures' = failures
      \/ failures < MaxFailures /\ failures' = failures + 1
  BY <1>1, <1>2, LogToFileCases
<1>7. files' \in [Index -> Seq(Nat)] /\ LogFileIndex' \in Index /\ handle' \in {"null", "open"}
  BY <1>1, <1>2, <1>3, <1>4, LogToFileCases, AfterCases
<1> QED BY <1>1, <1>2, <1>5, <1>6, <1>7, ConstantsType

LEMMA TypeStep ==
  ASSUME TypeOK, [Next]_vars
  PROVE  TypeOK'
<1> USE DEF TypeOK
<1>1. CASE GameInit
  <2>1. CASE LogToFile(files, saved)
    BY <1>1, <2>1, LogToFileType DEF GameInit
  <2>2. CASE ~LogToFile(files, saved)
    BY <1>1, <2>2, ConstantsType DEF GameInit, OpenLogFile
  <2> QED BY <2>1, <2>2
<1>2. CASE Log
  BY <1>2, LogToFileType DEF Log
<1>3. ASSUME Save, running' \in BOOLEAN, crashes' = crashes PROVE TypeOK'
  <2>1. CASE handle = "open"
    BY <1>3, <2>1, LogToFileType DEF Save
  <2>2. CASE handle # "open"
    BY <1>3, <2>2 DEF Save
  <2> QED BY <2>1, <2>2
<1>4. CASE SaveGame \/ Shutdown
  BY <1>3, <1>4 DEF SaveGame, Shutdown
<1>5. CASE Crash
  <2>0. crashes \in 0 .. MaxCrashes /\ crashes < MaxCrashes /\ crashes' = crashes + 1
        /\ running' = FALSE
    BY <1>5 DEF Crash
  <2>1. crashes' \in 0 .. MaxCrashes
    BY <2>0, ConstantsType
  <2>3. running' \in BOOLEAN
    BY <2>0
  <2>2. UNCHANGED <<files, saved, LogFileIndex, handle, lines, failures>>
    BY <1>5 DEF Crash
  <2> QED BY <2>1, <2>2, <2>3
<1>6. CASE UNCHANGED vars
  BY <1>6 DEF vars
<1> QED BY <1>1, <1>2, <1>4, <1>5, <1>6 DEF Next

\* Every variable of the log keeps its type: in particular LogFileIndex and the
\* saved index always name a file of the ring (MoveToNextFile's % 9).
THEOREM TypeCorrect == Spec => []TypeOK
<1>1. Init => TypeOK
  BY ConstantsType DEF Init, TypeOK, Index
<1> QED BY <1>1, TypeStep, PTL DEF Spec

-----------------------------------------------------------------------------
(* The open file *)

LEMMA NewestStep ==
  ASSUME TypeOK, OpenFileIsNewest, [Next]_vars
  PROVE  OpenFileIsNewest'
<1>0. /\ files \in [Index -> Seq(Nat)] /\ lines \in Nat
      /\ saved \in Index /\ LogFileIndex \in Index /\ handle \in {"null", "open"}
  BY ConstantsType DEF TypeOK
<1>1. ASSUME NEW index \in Index, LogToFile(files, index) PROVE OpenFileIsNewest'
  <2> DEFINE w == Written(files, index, lines)
  <2>0. /\ w \in [Index -> Seq(Nat)] /\ Len(files[index]) \in Nat
        /\ Len(w[index]) = Len(files[index]) + 1
        /\ w[index][Len(files[index]) + 1] = lines + 1
    <3>1. Len(files[index]) \in Nat
      BY <1>0
    <3>2. /\ w \in [Index -> Seq(Nat)]
          /\ Len(w[index]) = Len(files[index]) + 1
          /\ w[index][Len(files[index]) + 1] = lines + 1
      BY <1>0, WrittenType
    <3> QED BY <3>1, <3>2
  <2>1. CASE files' = w /\ LogFileIndex' = index
    BY <1>0, <1>1, <2>0, <2>1, LogToFileCases DEF OpenFileIsNewest
  <2>2. CASE files' = [w EXCEPT ![After(index)] = <<>>] /\ LogFileIndex' = After(index)
    BY <2>0, <2>2, AfterCases, EmptiedType DEF OpenFileIsNewest
  <2> QED BY <1>0, <1>1, <2>1, <2>2, LogToFileCases
<1>2. CASE GameInit
  <2>1. CASE LogToFile(files, saved)
    BY <1>0, <1>1, <2>1
  <2>2. CASE ~LogToFile(files, saved)
    BY <1>2, <2>2 DEF GameInit, OpenLogFile, OpenFileIsNewest
  <2> QED BY <2>1, <2>2
<1>3. CASE Log
  BY <1>0, <1>1, <1>3 DEF Log
<1>4. CASE SaveGame \/ Shutdown
  <2>1. CASE LogToFile(files, LogFileIndex)
    BY <1>0, <1>1, <2>1
  <2>2. CASE handle # "open" /\ UNCHANGED handle
    BY <2>2 DEF OpenFileIsNewest
  <2> QED BY <1>4, <2>1, <2>2 DEF SaveGame, Shutdown, Save
<1>5. CASE Crash
  BY <1>5 DEF Crash, OpenFileIsNewest
<1>6. CASE UNCHANGED vars
  BY <1>6 DEF vars, OpenFileIsNewest
<1> QED BY <1>2, <1>3, <1>4, <1>5, <1>6 DEF Next

\* The open file is new or ends with the last line written, also after a crash
\* has sent LogFileIndex back to the index saved before.
THEOREM OpenFileCorrect == Spec => []OpenFileIsNewest
<1>1. Init => OpenFileIsNewest
  BY DEF Init, OpenFileIsNewest
<1> QED BY <1>1, NewestStep, TypeCorrect, PTL DEF Spec

-----------------------------------------------------------------------------
(* The size of the files *)

\* What stands behind FilesBounded: a file is reopened at its full size only
\* when the saved index names it, and the next index saved is that of a file
\* below its size, unless there is a crash.
BoundedInv ==
  /\ FilesBounded
  /\ ~running => Len(files[saved]) <= FileSize + crashes
  /\ running /\ handle = "open" => Len(files[LogFileIndex]) < FileSize
  /\ running /\ handle = "null" => Len(files[LogFileIndex]) <= FileSize + crashes

LEMMA BoundedStep ==
  ASSUME TypeOK, BoundedInv, [Next]_vars
  PROVE  BoundedInv'
<1>0. /\ files \in [Index -> Seq(Nat)] /\ lines \in Nat /\ crashes \in Nat
      /\ saved \in Index /\ LogFileIndex \in Index /\ handle \in {"null", "open"}
      /\ running \in BOOLEAN
  BY ConstantsType DEF TypeOK
<1>00. \A i \in Index : Len(files[i]) \in Nat
  BY <1>0
\* A line written to a file that may still grow.
<1>1. ASSUME NEW index \in Index, LogToFile(files, index), crashes' = crashes,
             Len(files[index]) <= FileSize + crashes
      PROVE  /\ FilesBounded'
             /\ LogFileIndex' \in Index /\ handle' \in {"null", "open"}
             /\ Len(files'[LogFileIndex']) < FileSize
             /\ Len(files'[index]) <= Len(files[index]) + 1
  <2> DEFINE w == Written(files, index, lines)
  <2>0. /\ w \in [Index -> Seq(Nat)]
        /\ Len(w[index]) = Len(files[index]) + 1
        /\ \A i \in Index : i # index => w[i] = files[i]
    BY <1>0, WrittenType
  <2>00. \A i \in Index : Len(w[i]) \in Nat
    BY <2>0
  <2> HIDE DEF w
  <2>1. ASSUME NEW i \in Index PROVE Len(w[i]) <= FileSize + crashes + 1
    <3>1. CASE i = index
      <4>1. Len(w[i]) = Len(files[index]) + 1
        BY <2>0, <3>1
      <4> QED BY <1>0, <1>00, <1>1, <4>1, ConstantsType
    <3>2. CASE i # index
      <4>1. w[i] = files[i]
        BY <2>0, <3>2
      <4> QED BY <4>1 DEF BoundedInv, FilesBounded
    <3> QED BY <3>1, <3>2
  <2>2. CASE files' = w /\ LogFileIndex' = index /\ handle' = "open"
             /\ Len(w[index]) < FileSize
    BY <1>1, <2>0, <2>1, <2>2 DEF FilesBounded
  <2>3. CASE files' = [w EXCEPT ![After(index)] = <<>>] /\ LogFileIndex' = After(index)
             /\ handle' \in {"null", "open"}
    <3>1. /\ files'[After(index)] = <<>>
          /\ \A i \in Index : i # After(index) => files'[i] = w[i]
          /\ After(index) \in Index /\ After(index) # index
      BY <2>0, <2>3, AfterCases, EmptiedType
    <3>2. Len(<<>>) = 0
      OBVIOUS
    <3>3. ASSUME NEW i \in Index PROVE Len(files'[i]) <= FileSize + crashes' + 1
      <4>1. CASE i = After(index)
        <5>1. Len(files'[i]) = 0
          BY <3>1, <3>2, <4>1
        <5> QED BY <1>0, <1>1, <5>1, ConstantsType
      <4>2. CASE i # After(index)
        <5>1. files'[i] = w[i]
          BY <3>1, <4>2
        <5> QED BY <1>1, <2>1, <5>1
      <4> QED BY <4>1, <4>2
    <3>4. FilesBounded'
      BY <3>3 DEF FilesBounded
    <3> QED BY <1>00, <1>1, <2>0, <2>3, <3>1, <3>2, <3>4, ConstantsType
  <2> QED BY <1>0, <1>1, <2>2, <2>3, LogToFileCases DEF w
<1>2. CASE GameInit
  <2>1. CASE LogToFile(files, saved)
    BY <1>0, <1>00, <1>1, <1>2, <2>1, ConstantsType DEF GameInit, BoundedInv
  <2>2. CASE ~LogToFile(files, saved)
    <3>1. /\ UNCHANGED <<files, crashes>> /\ LogFileIndex' = saved /\ handle' = "null"
          /\ running' = TRUE /\ ~running
      BY <1>2, <2>2 DEF GameInit, OpenLogFile
    <3> QED BY <3>1 DEF BoundedInv, FilesBounded
  <2> QED BY <2>1, <2>2
<1>3. CASE Log
  <2>1. Len(files[LogFileIndex]) <= FileSize + crashes /\ crashes' = crashes /\ running'
    BY <1>0, <1>00, <1>3, ConstantsType DEF Log, BoundedInv
  <2> QED BY <1>0, <1>1, <1>3, <2>1, ConstantsType DEF Log, BoundedInv
<1>4. CASE SaveGame \/ Shutdown
  <2>0. running /\ crashes' = crashes /\ saved' = LogFileIndex
    BY <1>4 DEF SaveGame, Shutdown, Save
  <2>1. CASE handle = "open"
    <3>1. LogToFile(files, LogFileIndex)
      BY <1>4, <2>1 DEF SaveGame, Shutdown, Save
    <3>2. Len(files[LogFileIndex]) < FileSize
      BY <2>0, <2>1 DEF BoundedInv
    <3>3. Len(files[LogFileIndex]) <= FileSize + crashes
      BY <1>0, <1>00, <3>2, ConstantsType
    <3>4. /\ FilesBounded' /\ Len(files'[LogFileIndex']) < FileSize
          /\ Len(files'[LogFileIndex]) <= Len(files[LogFileIndex]) + 1
          /\ LogFileIndex' \in Index
      BY <1>0, <1>1, <2>0, <3>1, <3>3
    <3>5. files' \in [Index -> Seq(Nat)]
      BY <1>0, <3>1, LogToFileType
    <3>6. Len(files'[LogFileIndex']) \in Nat /\ Len(files'[LogFileIndex]) \in Nat
      BY <1>0, <3>4, <3>5
    <3> QED BY <1>0, <1>00, <2>0, <3>2, <3>4, <3>6, ConstantsType DEF BoundedInv
  <2>2. CASE handle # "open"
    <3>1. UNCHANGED <<files, LogFileIndex, handle>>
      BY <1>4, <2>2 DEF SaveGame, Shutdown, Save
    <3>2. handle = "null"
      BY <1>0, <2>2
    <3> QED BY <2>0, <3>1, <3>2 DEF BoundedInv, FilesBounded
  <2> QED BY <2>1, <2>2
<1>5. CASE Crash
  <2>1. crashes' = crashes + 1 /\ ~running' /\ UNCHANGED <<files, saved>>
    BY <1>5 DEF Crash
  <2>2. FilesBounded'
    BY <1>0, <1>00, <2>1, ConstantsType DEF BoundedInv, FilesBounded
  <2> QED BY <1>0, <1>00, <2>1, <2>2, ConstantsType DEF BoundedInv, FilesBounded
<1>6. CASE UNCHANGED vars
  BY <1>6 DEF vars, BoundedInv, FilesBounded
<1> QED BY <1>2, <1>3, <1>4, <1>5, <1>6 DEF Next

\* No file grows beyond its size by more than one line, and one for each crash,
\* although the size is checked after a write only and a full file may be
\* reopened.
THEOREM BoundedCorrect == Spec => []FilesBounded
<1>1. Init => BoundedInv
  BY ConstantsType DEF Init, BoundedInv, FilesBounded, Index
<1>2. BoundedInv => FilesBounded
  BY DEF BoundedInv
<1> QED BY <1>1, <1>2, BoundedStep, TypeCorrect, PTL DEF Spec

-----------------------------------------------------------------------------
(* The lines that are kept *)

\* Line x is in file i.
In(fs, i, x) == \E k \in 1 .. Len(fs[i]) : fs[i][k] = x

\* The place of file i when h is the newest: After(h) is 0, h is NumFiles - 1.
Place(i, h) == IF i > h THEN i - h - 1 ELSE i - h - 1 + NumFiles

\* What stands behind NewestKept: around the ring, from the file after h to h,
\* the lines get newer, and behind the lines of any file but h there are as many
\* lines as the files from there to h hold when they are full.
RingAt(fs, h, n) ==
  /\ \A i, j \in Index : Place(i, h) < Place(j, h) =>
       \A x, y \in Nat : In(fs, i, x) /\ In(fs, j, y) => x < y
  /\ \A i \in Index \ {h} : \A x \in Nat : In(fs, i, x) =>
       x + (NumFiles - 2 - Place(i, h)) * FileSize + Len(fs[h]) <= n
  /\ \A i \in Index : \A x \in Nat : In(fs, i, x) => x <= n
  /\ \A k \in 1 .. n : (\E i \in Index : In(fs, i, k))
                         \/ k + (NumFiles - 1) * FileSize <= n
  /\ \A i \in Index : \A x \in Nat : \A k \in 1 .. n :
       In(fs, i, x) /\ x < k => \E j \in Index : In(fs, j, k)

LEMMA PlaceFacts ==
  ASSUME NEW h \in Index, NEW i \in Index
  PROVE  /\ Place(i, h) \in 0 .. NumFiles - 1
         /\ Place(h, h) = NumFiles - 1
         /\ i # h => Place(i, h) <= NumFiles - 2
         /\ Place(After(h), h) = 0
         /\ i # After(h) => Place(i, After(h)) = Place(i, h) - 1
         /\ i # After(h) => Place(i, h) > 0
<1>1. /\ h \in 0 .. NumFiles - 1 /\ i \in 0 .. NumFiles - 1
      /\ After(h) = IF h + 1 = NumFiles THEN 0 ELSE h + 1
  BY AfterCases DEF Index
<1> HIDE DEF After
<1> QED BY <1>1, ConstantsType DEF Place

\* A line at the end of the newest file.
LEMMA WriteKeepsRing ==
  ASSUME NEW fs \in [Index -> Seq(Nat)], NEW h \in Index, NEW n \in Nat,
         RingAt(fs, h, n)
  PROVE  RingAt(Written(fs, h, n), h, n + 1)
<1> DEFINE w == Written(fs, h, n)
<1>1. /\ Len(fs[h]) \in Nat /\ Len(w[h]) = Len(fs[h]) + 1
      /\ w[h][Len(fs[h]) + 1] = n + 1
      /\ \A k \in 1 .. Len(fs[h]) : w[h][k] = fs[h][k]
      /\ \A i \in Index : i # h => w[i] = fs[i]
  <2>1. Len(fs[h]) \in Nat
    OBVIOUS
  <2> QED BY <2>1, WrittenType
<1> HIDE DEF w
<1>2. ASSUME NEW i \in Index, NEW x \in Nat
      PROVE  In(w, i, x) <=> In(fs, i, x) \/ (i = h /\ x = n + 1)
  <2>1. CASE i = h
    <3>1. ASSUME In(w, h, x) PROVE In(fs, h, x) \/ x = n + 1
      <4>1. PICK k \in 1 .. Len(fs[h]) + 1 : w[h][k] = x
        BY <1>1, <3>1 DEF In
      <4>2. CASE k = Len(fs[h]) + 1
        BY <1>1, <4>1, <4>2
      <4>3. CASE k \in 1 .. Len(fs[h])
        BY <1>1, <4>1, <4>3 DEF In
      <4> QED BY <1>1, <4>2, <4>3
    <3>2. ASSUME In(fs, h, x) PROVE In(w, h, x)
      <4>1. PICK k \in 1 .. Len(fs[h]) : fs[h][k] = x
        BY <3>2 DEF In
      <4>2. k \in 1 .. Len(w[h]) /\ w[h][k] = x
        BY <1>1, <4>1
      <4> QED BY <4>2 DEF In
    <3>3. ASSUME x = n + 1 PROVE In(w, h, x)
      <4>1. Len(fs[h]) + 1 \in 1 .. Len(w[h])
        BY <1>1
      <4> QED BY <1>1, <3>3, <4>1 DEF In
    <3> QED BY <2>1, <3>1, <3>2, <3>3
  <2>2. CASE i # h
    BY <1>1, <2>2 DEF In
  <2> QED BY <2>1, <2>2
<1>3. ASSUME NEW i \in Index, NEW j \in Index, Place(i, h) < Place(j, h),
             NEW x \in Nat, NEW y \in Nat, In(w, i, x), In(w, j, y)
      PROVE  x < y
  <2>1. i # h
    <3>1. Place(j, h) <= NumFiles - 1 /\ Place(h, h) = NumFiles - 1
      BY PlaceFacts, ConstantsType
    <3>2. Place(j, h) \in Int
      BY PlaceFacts, ConstantsType
    <3> QED BY <1>3, <3>1, <3>2, ConstantsType
  <2>2. In(fs, i, x)
    BY <1>2, <1>3, <2>1
  <2>3. x <= n
    BY <2>2 DEF RingAt
  <2>4. CASE In(fs, j, y)
    BY <1>3, <2>2, <2>4 DEF RingAt
  <2>5. CASE y = n + 1
    BY <2>3, <2>5
  <2> QED BY <1>2, <1>3, <2>4, <2>5
<1>4. ASSUME NEW i \in Index \ {h}, NEW x \in Nat, In(w, i, x)
      PROVE  x + (NumFiles - 2 - Place(i, h)) * FileSize + Len(w[h]) <= n + 1
  <2>1. In(fs, i, x)
    BY <1>2, <1>4
  <2> DEFINE full == (NumFiles - 2 - Place(i, h)) * FileSize
  <2>2. full \in Int
    BY PlaceFacts, ConstantsType
  <2>3. x + full + Len(fs[h]) <= n
    BY <2>1 DEF RingAt
  <2> HIDE DEF full
  <2>4. x + full + Len(w[h]) <= n + 1
    BY <1>1, <2>2, <2>3
  <2> QED BY <2>4 DEF full
<1>5. ASSUME NEW i \in Index, NEW x \in Nat, In(w, i, x) PROVE x <= n + 1
  BY <1>2, <1>5 DEF RingAt
<1> DEFINE all == (NumFiles - 1) * FileSize
<1>0. all \in Nat
  BY ConstantsType
<1>6. ASSUME NEW k \in 1 .. n + 1
      PROVE  (\E i \in Index : In(w, i, k)) \/ k + all <= n + 1
  <2>1. CASE k = n + 1
    BY <1>2, <2>1
  <2>2. CASE k \in 1 .. n
    <3>1. CASE k + all <= n
      BY <1>0, <2>2, <3>1
    <3>2. CASE \E i \in Index : In(fs, i, k)
      BY <1>2, <2>2, <3>2
    <3> QED BY <2>2, <3>1, <3>2 DEF RingAt
  <2> QED BY <2>1, <2>2
<1>7. ASSUME NEW i \in Index, NEW x \in Nat, NEW k \in 1 .. n + 1, In(w, i, x), x < k
      PROVE  \E j \in Index : In(w, j, k)
  <2>1. CASE k = n + 1
    BY <1>2, <2>1
  <2>2. CASE k \in 1 .. n
    <3>1. In(fs, i, x)
      BY <1>2, <1>7, <2>2
    <3>2. \E j \in Index : In(fs, j, k)
      BY <1>7, <2>2, <3>1 DEF RingAt
    <3> QED BY <1>2, <2>2, <3>2
  <2> QED BY <2>1, <2>2
<1> QED BY <1>3, <1>4, <1>5, <1>6, <1>7 DEF RingAt, w

\* The oldest file emptied when the newest is full.
LEMMA EmptyKeepsRing ==
  ASSUME NEW fs \in [Index -> Seq(Nat)], NEW h \in Index, NEW n \in Nat,
         RingAt(fs, h, n), Len(fs[h]) >= FileSize
  PROVE  RingAt([fs EXCEPT ![After(h)] = <<>>], h, n)
<1> DEFINE e == [fs EXCEPT ![After(h)] = <<>>]
           all == (NumFiles - 1) * FileSize
<1>1. /\ After(h) \in Index /\ After(h) # h
      /\ e[After(h)] = <<>>
      /\ \A i \in Index : i # After(h) => e[i] = fs[i]
  BY AfterCases, EmptiedType
<1>11. Len(<<>>) = 0
  OBVIOUS
<1> HIDE DEF e
<1>2. ASSUME NEW i \in Index, NEW x \in Nat
      PROVE  In(e, i, x) <=> i # After(h) /\ In(fs, i, x)
  <2>1. CASE i = After(h)
    BY <1>1, <1>11, <2>1 DEF In
  <2>2. CASE i # After(h)
    BY <1>1, <2>2 DEF In
  <2> QED BY <2>1, <2>2
<1>3. ASSUME NEW i \in Index, NEW j \in Index, Place(i, h) < Place(j, h),
             NEW x \in Nat, NEW y \in Nat, In(e, i, x), In(e, j, y)
      PROVE  x < y
  BY <1>2, <1>3 DEF RingAt
<1>4. ASSUME NEW i \in Index \ {h}, NEW x \in Nat, In(e, i, x)
      PROVE  x + (NumFiles - 2 - Place(i, h)) * FileSize + Len(e[h]) <= n
  BY <1>1, <1>2, <1>4 DEF RingAt
<1>5. ASSUME NEW i \in Index, NEW x \in Nat, In(e, i, x) PROVE x <= n
  BY <1>2, <1>5 DEF RingAt
<1>6. ASSUME NEW k \in 1 .. n
      PROVE  (\E i \in Index : In(e, i, k)) \/ k + all <= n
  <2>1. CASE k + all <= n
    BY <2>1
  <2>2. ASSUME NEW i \in Index, In(fs, i, k)
        PROVE  (\E j \in Index : In(e, j, k)) \/ k + all <= n
    <3>1. CASE i # After(h)
      BY <1>2, <2>2, <3>1
    <3>2. CASE i = After(h)
      <4> DEFINE rest == (NumFiles - 2) * FileSize
      <4>1. Place(i, h) = 0
        BY <3>2, PlaceFacts
      <4>2. NumFiles - 2 - Place(i, h) = NumFiles - 2
        BY <4>1, ConstantsType
      <4>3. k + (NumFiles - 2 - Place(i, h)) * FileSize + Len(fs[h]) <= n
        BY <1>1, <2>2, <3>2 DEF RingAt
      <4>4. k + rest + Len(fs[h]) <= n
        BY <4>2, <4>3
      <4>5. rest \in Nat /\ all = rest + FileSize
        BY ConstantsType
      <4>6. Len(fs[h]) \in Nat
        OBVIOUS
      <4> HIDE DEF rest, all
      <4> QED BY <4>4, <4>5, <4>6, ConstantsType
    <3> QED BY <3>1, <3>2
  <2> QED BY <2>1, <2>2 DEF RingAt
<1>7. ASSUME NEW i \in Index, NEW x \in Nat, NEW k \in 1 .. n, In(e, i, x), x < k
      PROVE  \E j \in Index : In(e, j, k)
  <2>1. i # After(h) /\ In(fs, i, x)
    BY <1>2, <1>7
  <2>2. PICK j \in Index : In(fs, j, k)
    BY <1>7, <2>1 DEF RingAt
  <2>3. j # After(h)
    <3>1. SUFFICES ASSUME j = After(h) PROVE FALSE
      OBVIOUS
    <3>2. Place(j, h) < Place(i, h)
      BY <2>1, <3>1, PlaceFacts
    <3>3. k < x
      BY <2>1, <2>2, <3>2 DEF RingAt
    <3> QED BY <1>7, <3>3
  <2> QED BY <1>2, <2>2, <2>3
<1> QED BY <1>3, <1>4, <1>5, <1>6, <1>7 DEF RingAt, e

\* The emptied file becomes the newest.
LEMMA TakeKeepsRing ==
  ASSUME NEW fs \in [Index -> Seq(Nat)], NEW h \in Index, NEW n \in Nat,
         RingAt(fs, h, n), Len(fs[h]) >= FileSize, fs[After(h)] = <<>>
  PROVE  RingAt(fs, After(h), n)
<1>1. After(h) \in Index /\ After(h) # h
  BY AfterCases
<1>2. Len(fs[After(h)]) = 0
  OBVIOUS
<1>3. ASSUME NEW x \in Nat PROVE ~In(fs, After(h), x)
  BY <1>2 DEF In
<1>4. ASSUME NEW i \in Index, NEW j \in Index, Place(i, After(h)) < Place(j, After(h)),
             NEW x \in Nat, NEW y \in Nat, In(fs, i, x), In(fs, j, y)
      PROVE  x < y
  <2>1. i # After(h) /\ j # After(h)
    BY <1>3, <1>4
  <2>2. /\ Place(i, After(h)) = Place(i, h) - 1 /\ Place(j, After(h)) = Place(j, h) - 1
        /\ Place(i, h) \in Int /\ Place(j, h) \in Int
    BY <2>1, PlaceFacts, ConstantsType
  <2>3. Place(i, h) < Place(j, h)
    BY <1>4, <2>2
  <2> QED BY <1>4, <2>3 DEF RingAt
<1>5. ASSUME NEW i \in Index \ {After(h)}, NEW x \in Nat, In(fs, i, x)
      PROVE  x + (NumFiles - 2 - Place(i, After(h))) * FileSize + Len(fs[After(h)]) <= n
  <2> DEFINE c == NumFiles - 2 - Place(i, h)
             old == c * FileSize
             new == (NumFiles - 2 - Place(i, After(h))) * FileSize
  <2>1. Place(i, After(h)) = Place(i, h) - 1 /\ Place(i, h) \in Int
    BY PlaceFacts, ConstantsType
  <2>2. CASE i = h
    <3>1. NumFiles - 2 - Place(i, After(h)) = 0
      BY <2>1, <2>2, PlaceFacts, ConstantsType
    <3>2. new = 0
      BY <3>1, ConstantsType
    <3>3. x <= n
      BY <1>5 DEF RingAt
    <3> HIDE DEF new
    <3>4. x + new + Len(fs[After(h)]) <= n
      BY <1>2, <3>2, <3>3
    <3> QED BY <3>4 DEF new
  <2>3. CASE i # h
    <3>1. x + old + Len(fs[h]) <= n
      BY <1>5, <2>3 DEF RingAt
    <3>2. c \in Int
      BY <2>1, ConstantsType
    <3>3. NumFiles - 2 - Place(i, After(h)) = c + 1
      BY <2>1, ConstantsType
    <3> HIDE DEF c
    <3>4. old \in Int /\ new = old + FileSize
      BY <3>2, <3>3, ConstantsType
    <3>5. Len(fs[h]) \in Nat
      OBVIOUS
    <3> HIDE DEF old, new
    <3>6. x + new + Len(fs[After(h)]) <= n
      BY <1>2, <3>1, <3>4, <3>5, ConstantsType
    <3> QED BY <3>6 DEF new
  <2> QED BY <2>2, <2>3
<1>6. /\ \A i \in Index : \A x \in Nat : In(fs, i, x) => x <= n
      /\ \A k \in 1 .. n : (\E i \in Index : In(fs, i, k))
                             \/ k + (NumFiles - 1) * FileSize <= n
      /\ \A i \in Index : \A x \in Nat : \A k \in 1 .. n :
           In(fs, i, x) /\ x < k => \E j \in Index : In(fs, j, k)
  BY DEF RingAt
<1> QED BY <1>4, <1>5, <1>6 DEF RingAt

\* As long as there was no crash, the ring ends at the file that is open, or at
\* the saved index between two runs.
RingInv == crashes = 0 => RingAt(files, IF running THEN LogFileIndex ELSE saved, lines)

\* The line of LogToFile, seen from the file it was written to and from the file
\* that is open then.
LEMMA LogToFileRing ==
  ASSUME TypeOK, NEW index \in Index, LogToFile(files, index),
         RingAt(files, index, lines)
  PROVE  RingAt(files', index, lines') /\ RingAt(files', LogFileIndex', lines')
<1>0. files \in [Index -> Seq(Nat)] /\ lines \in Nat
  BY ConstantsType DEF TypeOK
<1> DEFINE w == Written(files, index, lines)
           e == [w EXCEPT ![After(index)] = <<>>]
<1>1. w \in [Index -> Seq(Nat)] /\ lines + 1 \in Nat
  BY <1>0, WrittenType
<1>2. RingAt(w, index, lines + 1)
  BY <1>0, WriteKeepsRing
<1>3. lines' = lines + 1
  BY <1>0, LogToFileCases
<1> HIDE DEF w
<1>4. CASE files' = w /\ LogFileIndex' = index
  BY <1>2, <1>3, <1>4
<1>5. CASE files' = e /\ LogFileIndex' = After(index) /\ Len(w[index]) >= FileSize
  <2>1. RingAt(e, index, lines + 1)
    BY <1>1, <1>2, <1>5, EmptyKeepsRing
  <2>2. /\ e \in [Index -> Seq(Nat)] /\ e[After(index)] = <<>> /\ e[index] = w[index]
    BY <1>1, AfterCases, EmptiedType
  <2> HIDE DEF e
  <2>3. RingAt(e, After(index), lines + 1)
    BY <1>1, <1>5, <2>1, <2>2, TakeKeepsRing
  <2> QED BY <1>3, <1>5, <2>1, <2>3
<1> QED BY <1>0, <1>4, <1>5, LogToFileCases DEF w

LEMMA RingStep ==
  ASSUME TypeOK, RingInv, [Next]_vars
  PROVE  RingInv'
<1>0. /\ saved \in Index /\ LogFileIndex \in Index /\ handle \in {"null", "open"}
      /\ crashes \in Nat
  BY ConstantsType DEF TypeOK
<1>1. CASE GameInit
  <2>0. ~running /\ running' = TRUE /\ crashes' = crashes /\ OpenLogFile(saved)
    BY <1>1 DEF GameInit
  <2>1. CASE LogToFile(files, saved)
    BY <1>0, <2>0, <2>1, LogToFileRing DEF RingInv
  <2>2. CASE ~LogToFile(files, saved)
    BY <2>0, <2>2 DEF OpenLogFile, RingInv
  <2> QED BY <2>1, <2>2
<1>2. CASE Log
  BY <1>0, <1>2, LogToFileRing DEF Log, RingInv
<1>3. CASE SaveGame \/ Shutdown
  <2>0. running /\ crashes' = crashes /\ saved' = LogFileIndex /\ Save
    BY <1>3 DEF SaveGame, Shutdown, Save
  <2>1. CASE LogToFile(files, LogFileIndex)
    BY <1>0, <2>0, <2>1, LogToFileRing DEF RingInv
  <2>2. CASE UNCHANGED <<files, LogFileIndex, lines>>
    BY <2>0, <2>2 DEF RingInv
  <2> QED BY <2>0, <2>1, <2>2 DEF Save
<1>4. CASE Crash
  <2>1. crashes' # 0
    BY <1>0, <1>4 DEF Crash
  <2> QED BY <2>1 DEF RingInv
<1>5. CASE UNCHANGED vars
  BY <1>5 DEF vars, RingInv
<1> QED BY <1>1, <1>2, <1>3, <1>4, <1>5 DEF Next

LEMMA RingKeepsNewest ==
  ASSUME TypeOK, RingInv
  PROVE  NewestKept
<1> SUFFICES ASSUME crashes = 0, NEW k \in 1 .. lines,
                    \/ k + (NumFiles - 1) * FileSize > lines
                    \/ \E j \in Kept : j < k
             PROVE  k \in Kept
  BY DEF NewestKept
<1>0. /\ files \in [Index -> Seq(Nat)] /\ lines \in Nat
  BY ConstantsType DEF TypeOK
<1>1. ASSUME NEW x PROVE x \in Kept <=> \E i \in Index : In(files, i, x)
  BY DEF Kept, LinesOf, In
<1>2. PICK h : RingAt(files, h, lines)
  BY DEF RingInv
<1>3. CASE k + (NumFiles - 1) * FileSize > lines
  <2> DEFINE all == (NumFiles - 1) * FileSize
  <2>1. all \in Nat
    BY ConstantsType
  <2>2. (\E i \in Index : In(files, i, k)) \/ k + all <= lines
    BY <1>2 DEF RingAt
  <2>3. k + all > lines
    BY <1>3
  <2> HIDE DEF all
  <2>4. ~(k + all <= lines)
    BY <1>0, <2>1, <2>3
  <2> QED BY <1>1, <2>2, <2>4
<1>4. ASSUME NEW j \in Kept, j < k PROVE k \in Kept
  <2>1. PICK i \in Index : In(files, i, j)
    BY <1>1
  <2>2. j \in Nat
    <3>1. files[i] \in Seq(Nat)
      BY <1>0
    <3> QED BY <2>1, <3>1 DEF In
  <2> QED BY <1>1, <1>2, <1>4, <2>1, <2>2 DEF RingAt
<1> QED BY <1>3, <1>4

\* Without a crash the ring holds the newest lines without a gap, and all but
\* one file of them, however often the program was restarted and whichever
\* files did not open.
THEOREM NewestCorrect == Spec => []NewestKept
<1>1. Init => RingInv
  <2> SUFFICES ASSUME Init PROVE RingAt(files, saved, lines)
    BY DEF Init, RingInv
  <2>1. ASSUME NEW i \in Index, NEW x PROVE ~In(files, i, x)
    <3>1. files[i] = <<>>
      BY DEF Init
    <3>2. Len(<<>>) = 0
      OBVIOUS
    <3> QED BY <3>1, <3>2 DEF In
  <2>2. lines = 0
    BY DEF Init
  <2> QED BY <2>1, <2>2 DEF RingAt
<1> QED BY <1>1, RingStep, RingKeepsNewest, TypeCorrect, PTL DEF Spec


-----------------------------------------------------------------------------
(* The log in the installation *)

LEMMA LogLineStep ==
  ASSUME LogLine, running
  PROVE  [Next]_vars
<1>1. CASE handle = "open" /\ lines < MaxLines
  <2>1. Log
    BY <1>1 DEF LogLine, Log
  <2> QED BY <2>1 DEF Next
<1>2. CASE ~(handle = "open" /\ lines < MaxLines)
  BY <1>2 DEF LogLine
<1> QED BY <1>1, <1>2

\* A session is exactly what runs the log.
SessionInv == running <=> phase # "off"

LEMMA SessionStep ==
  ASSUME running \in BOOLEAN, SessionInv, [InstallationNext]_installationVars
  PROVE  SessionInv' /\ [Next]_vars
<1>0. ASSUME LogLine, running PROVE running' /\ [Next]_vars
  <2>1. running' = running
    BY <1>0 DEF LogLine, vars
  <2> QED BY <1>0, <2>1, LogLineStep
<1>1. CASE StartGame
  BY <1>1 DEF StartGame, GameInit, Next, SessionInv
<1>2. CASE Quit \/ PowerLoss \/ MoveWindowFunction
  BY <1>2 DEF Quit, PowerLoss, MoveWindowFunction, Fatal, ProcessEnds, Crash, Shutdown, Next,
              SessionInv, vars, Idle
<1>3. CASE TimersAdvance \/ Click \/ LevelToast \/ Travel
  BY <1>3 DEF TimersAdvance, Click, LevelToast, Travel, SessionInv, vars, Idle
<1>4. CASE Login
  BY <1>0, <1>4 DEF Login, Fatal, ProcessEnds, Crash, Next, SessionInv, vars
<1>5. ASSUME NEW response \in Responses, OnLoginResponseReceived(response)
      PROVE  SessionInv' /\ [Next]_vars
  BY <1>0, <1>5 DEF OnLoginResponseReceived, Fatal, ProcessEnds, Crash, Next, SessionInv, vars
<1>6. CASE TagPlayerStart \/ InitGame \/ ChoosePlayerStart
  <2>1. phase # "off" /\ phase' # "off" /\ (LogLine \/ UNCHANGED vars)
    BY <1>6 DEF TagPlayerStart, InitGame, ChoosePlayerStart
  <2>2. running' /\ [Next]_vars
    BY <1>0, <2>1 DEF SessionInv, vars
  <2> QED BY <2>1, <2>2 DEF SessionInv
<1>7. CASE TagPlayerStartFatal \/ InitGameFatal \/ ChoosePlayerStartFatal \/ BeginPlay
  BY <1>7 DEF TagPlayerStartFatal, InitGameFatal, ChoosePlayerStartFatal, BeginPlay, Fatal,
              ProcessEnds, Crash, Next, SessionInv, vars
<1>8. CASE LogOrSave
  BY <1>8 DEF LogOrSave, Log, SaveGame, Next, SessionInv
<1>9. CASE UNCHANGED installationVars
  BY <1>9 DEF installationVars, vars, SessionInv
<1> QED BY <1>1, <1>2, <1>3, <1>4, <1>5, <1>6, <1>7, <1>8, <1>9 DEF InstallationNext

\* Whatever the handlers do, the log is handled as LogRotation says: a crash in
\* the middle of a handler, the lines of the handlers and Save are its steps.
THEOREM LogImplemented == InstallationSpec => LogSpec
<1>1. InstallationInit => Init /\ SessionInv
  BY DEF InstallationInit, Init, SessionInv
<1>2. running \in BOOLEAN /\ SessionInv /\ [InstallationNext]_installationVars => SessionInv' /\ [Next]_vars
  BY SessionStep
<1>3. TypeOK => running \in BOOLEAN
  BY DEF TypeOK
<1>4. Init => TypeOK
  BY ConstantsType DEF Init, TypeOK, Index
<1>5. TypeOK /\ [Next]_vars => TypeOK'
  BY TypeStep
<1> QED BY <1>1, <1>2, <1>3, <1>4, <1>5, PTL DEF InstallationSpec, LogSpec, Spec

\* The theorems of LogRotation carried over: whatever ends a session, the newest
\* lines are kept if it was no crash, and no file grows without bound.
THEOREM LogCarriedOver == InstallationSpec => [](TypeOK /\ NewestKept /\ FilesBounded)
BY LogImplemented, TypeCorrect, NewestCorrect, BoundedCorrect, PTL DEF LogSpec

-----------------------------------------------------------------------------
(* The toasts *)

\* The toast on the screen has the one timer there is.
ToastInv ==
  /\ toast \in Nat /\ toasts \in Nat /\ age \in Nat
  /\ toast = 0 => timers = {} /\ toastHandle = 0
  /\ toast # 0 => /\ toastHandle = toast /\ age < ToastTime
                  /\ timers = {[id |-> toast, left |-> ToastTime - age]}

LEMMA ToastStep ==
  ASSUME ToastInv, [InstallationNext]_installationVars
  PROVE  /\ ToastInv'
         /\ toast # 0 /\ toast' = 0 /\ age' = age + 1 => age' = ToastTime
<1>0. ToastTime \in Nat /\ ToastTime >= 1
  BY ToastAssumption
<1>1. ASSUME ShowToastMessage PROVE ToastInv' /\ toast' # 0
  <2>1. {t \in timers : t.id # toastHandle} = {}
    BY DEF ToastInv
  <2>2. /\ toast' = toasts + 1 /\ toasts' = toasts + 1 /\ toastHandle' = toasts + 1 /\ age' = 0
        /\ timers' = {[id |-> toasts + 1, left |-> ToastTime]}
    BY <1>1, <2>1 DEF ShowToastMessage
  <2>3. toasts + 1 \in Nat /\ toasts + 1 # 0 /\ ToastTime - 0 = ToastTime
    BY <1>0 DEF ToastInv
  <2> QED BY <1>0, <2>2, <2>3 DEF ToastInv
<1>2. ASSUME UNCHANGED toastVars PROVE ToastInv' /\ toast' = toast
  BY <1>2 DEF toastVars, ToastInv
<1>3. ASSUME ProcessEnds PROVE ToastInv' /\ age' = 0
  BY <1>3 DEF ProcessEnds, ToastInv
<1>4. ASSUME age' = 0 PROVE age' # age + 1
  BY <1>4 DEF ToastInv
<1>5. CASE StartGame
  BY <1>1, <1>2, <1>5 DEF StartGame
<1>6. CASE TimersAdvance
  <2>1. toast # 0 /\ toastHandle = toast /\ timers = {[id |-> toast, left |-> ToastTime - age]}
    BY <1>6 DEF TimersAdvance, ToastInv
  <2> DEFINE t == [id |-> toast, left |-> ToastTime - age]
             due == {u \in timers : Due(u)}
             on  == {[u EXCEPT !.left = @ - 1] : u \in timers \ due}
  <2>2. age' = age + 1 /\ toasts' = toasts /\ age \in Nat /\ age < ToastTime
        /\ toast \in Nat /\ toasts \in Nat
    BY <1>6, <2>1 DEF TimersAdvance, ToastInv
  <2>3. CASE ToastTime - age = 1
    <3>1. due = {t}
      BY <2>1, <2>3 DEF Due
    <3>2. on = {}
      BY <2>1, <3>1
    <3>3. HideToastMessage(on)
      BY <1>6, <3>1 DEF TimersAdvance
    <3>4. timers' = {} /\ toastHandle' = 0 /\ toast' = 0
      BY <3>2, <3>3 DEF HideToastMessage
    <3>5. age' = ToastTime
      BY <1>0, <2>2, <2>3
    <3> QED BY <1>0, <2>2, <3>4, <3>5 DEF ToastInv
  <2>4. CASE ToastTime - age # 1
    <3>1. due = {}
      BY <2>1, <2>4 DEF Due
    <3>2. on = {[id |-> toast, left |-> ToastTime - age - 1]}
      <4>1. timers \ due = {t}
        BY <2>1, <3>1
      <4>2. [t EXCEPT !.left = @ - 1] = [id |-> toast, left |-> ToastTime - age - 1]
        OBVIOUS
      <4> HIDE DEF due, t
      <4> QED BY <4>1, <4>2
    <3>3. timers' = on /\ UNCHANGED <<toast, toastHandle>>
      BY <1>6, <3>1 DEF TimersAdvance
    <3>4. ToastTime - age - 1 = ToastTime - age' /\ age' \in Nat /\ age' < ToastTime
      BY <1>0, <2>2, <2>4
    <3> QED BY <2>1, <2>2, <3>2, <3>3, <3>4 DEF ToastInv
  <2> QED BY <2>3, <2>4
<1>7. CASE Click
  <2>1. /\ timers' = {t \in timers : t.id # toastHandle} /\ toastHandle' = 0 /\ toast' = 0
        /\ UNCHANGED <<toasts, age>> /\ toast # 0
    BY <1>7 DEF Click, HideToastMessage
  <2>2. {t \in timers : t.id # toastHandle} = {}
    BY <2>1 DEF ToastInv
  <2>3. age' # age + 1
    BY <2>1 DEF ToastInv
  <2> QED BY <2>1, <2>2, <2>3 DEF ToastInv
<1>8. CASE LevelToast
  BY <1>1, <1>8 DEF LevelToast
<1>9. CASE Quit \/ PowerLoss
  BY <1>3, <1>4, <1>9 DEF Quit, PowerLoss, Fatal
<1>10. CASE MoveWindowFunction \/ Login
  BY <1>2, <1>3, <1>4, <1>10 DEF MoveWindowFunction, Login, Fatal
<1>11. ASSUME NEW response \in Responses, OnLoginResponseReceived(response)
       PROVE  /\ ToastInv'
              /\ toast # 0 /\ toast' = 0 /\ age' = age + 1 => age' = ToastTime
  BY <1>2, <1>3, <1>4, <1>11 DEF OnLoginResponseReceived, Fatal
<1>12. CASE Travel \/ TagPlayerStart \/ InitGame \/ ChoosePlayerStart \/ LogOrSave
  BY <1>2, <1>12 DEF Travel, TagPlayerStart, InitGame, ChoosePlayerStart, LogOrSave
<1>13. CASE TagPlayerStartFatal \/ InitGameFatal \/ ChoosePlayerStartFatal \/ BeginPlay
  BY <1>2, <1>3, <1>4, <1>13
     DEF TagPlayerStartFatal, InitGameFatal, ChoosePlayerStartFatal, BeginPlay, Fatal
<1>14. CASE UNCHANGED installationVars
  BY <1>2, <1>14 DEF installationVars
<1> QED BY <1>5, <1>6, <1>7, <1>8, <1>9, <1>10, <1>11, <1>12, <1>13, <1>14
        DEF InstallationNext

\* A toast that a timer hides has been on the screen for its time.
THEOREM ToastCorrect == InstallationSpec => ToastKeepsItsTime
<1>1. InstallationInit => ToastInv
  BY DEF InstallationInit, ToastInv
<1>2. ASSUME ToastInv, [InstallationNext]_installationVars
      PROVE  [toast # 0 /\ toast' = 0 /\ age' = age + 1 => age' = ToastTime]_installationVars
  BY <1>2, ToastStep
<1>3. ToastInv /\ [InstallationNext]_installationVars => ToastInv'
  BY ToastStep
<1> QED BY <1>1, <1>2, <1>3, PTL DEF InstallationSpec, ToastKeepsItsTime


-----------------------------------------------------------------------------
(* The setup *)

\* The player starts up to n that are tagged with type i.
Tags(i, n) == {k \in 1 .. n : level[k] = i}

\* PlayerStart holds the last of each type among those looked at.
Tagged ==
  \A i \in PawnType :
    IF Tags(i, next - 1) = {}
    THEN PlayerStart[i] = 0
    ELSE PlayerStart[i] \in Tags(i, next - 1) /\ \A k \in Tags(i, next - 1) : k <= PlayerStart[i]

\* InitGame has found no index, or the one of the configuration.
IndexFound ==
  /\ pawn = limits
  /\ NumPawnTypes = 0 => PawnTypeIndex = -1
  /\ \/ PawnTypeIndex = -1 /\ pawn = -1
     \/ /\ PawnTypeIndex >= 0 /\ config.pawnType = {PawnTypeIndex}
        /\ pawn = IF PawnTypeIndex \in PawnType THEN PawnTypeIndex ELSE -1

\* What is known in each phase of the start.
ModeInv ==
  /\ config \in Config /\ level \in Seq(Int) /\ next \in 1 .. Len(level) + 1
  /\ (\A i, j \in config.pawnType : i = j) /\ (config.any => config.read)
  /\ PlayerStart \in [PawnType -> Nat] /\ PawnTypeIndex \in Int
  /\ windowTimer => config.read
  /\ phase \in {"waiting", "travelling", "tagging", "initialized", "started", "playing"}
       => config.any
  /\ phase = "tagging" => Tagged /\ PawnTypeIndex = -1 /\ pawn = -1 /\ limits = -1
  /\ phase \in {"initialized", "started", "playing"} =>
       Tagged /\ next = Len(level) + 1 /\ IndexFound
  /\ phase \in {"started", "playing"} =>
       \/ PawnTypeIndex = -1 /\ start = -1
       \/ PawnTypeIndex \in PawnType /\ start = PlayerStart[PawnTypeIndex]
  /\ fatal = "setup" => phase = "off"
  /\ SetupSafe

\* The file was read, and does not name a type that exists, or lacks a key.
SetupBad ==
  /\ config.read
  /\ \/ ~config.license \/ ~config.window \/ ~config.actors
     \/ config.pawnType \ PawnType # {}
     \/ \E k \in 1 .. Len(level) : level[k] < 0

LEMMA ModeConstants ==
  /\ NumPawnTypes \in Nat /\ PawnType = 0 .. NumPawnTypes - 1
  /\ Configs \subseteq Config /\ (\A c \in Configs : \A i, j \in c.pawnType : i = j)
  /\ (\A c \in Configs : c.any => c.read)
  /\ Levels \subseteq Seq(Int)
BY ConfigsAssumption, LevelsAssumption, NumPawnTypesAssumption DEF PawnType

\* A new game mode has looked at nothing.
LEMMA NewModeStep ==
  ASSUME NewGameMode, level' \in Seq(Int)
  PROVE  /\ next' \in 1 .. Len(level') + 1 /\ Tagged'
         /\ PlayerStart' \in [PawnType -> Nat] /\ PawnTypeIndex' \in Int
         /\ PawnTypeIndex' = -1 /\ pawn' = -1 /\ limits' = -1
<1>1. /\ next' = 1 /\ PlayerStart' = [i \in PawnType |-> 0]
      /\ PawnTypeIndex' = -1 /\ pawn' = -1 /\ limits' = -1
  BY DEF NewGameMode
<1>2. Len(level') \in Nat
  OBVIOUS
<1>3. \A i : {k \in 1 .. next' - 1 : level'[k] = i} = {}
  BY <1>1
<1>4. Tagged'
  BY <1>1, <1>3 DEF Tagged, Tags
<1> QED BY <1>1, <1>2, <1>4

\* The process ends.
LEMMA FatalStep ==
  ASSUME ModeInv, NEW why, ProcessEnds, fatal' = why, why = "setup" => SetupBad
  PROVE  ModeInv'
<1>1. phase' = "off" /\ windowTimer' = FALSE /\ UNCHANGED <<config, level>> /\ NewGameMode
  BY DEF ProcessEnds
<1>2. /\ next' \in 1 .. Len(level') + 1
      /\ PlayerStart' \in [PawnType -> Nat] /\ PawnTypeIndex' \in Int
  BY <1>1, NewModeStep DEF ModeInv
<1>3. SetupSafe'
  BY <1>1 DEF SetupSafe, SetupBad
<1> QED BY <1>1, <1>2, <1>3 DEF ModeInv

\* Nothing of the setup changes, and the phase does not go on.
LEMMA SameModeStep ==
  ASSUME ModeInv, UNCHANGED <<config, fatal, modeVars>>, windowTimer' => windowTimer,
         phase' = phase \/ (phase' = "refused" /\ phase # "off")
                        \/ (phase = "login" /\ phase' = "waiting" /\ config.any)
                        \/ (phase = "waiting" /\ phase' = "travelling")
                        \/ (phase = "started" /\ phase' = "playing")
  PROVE  ModeInv'
<1>1. /\ Tagged' = Tagged /\ IndexFound' = IndexFound /\ SetupSafe' = SetupSafe
  BY DEF modeVars, Tagged, Tags, IndexFound, SetupSafe
<1> QED BY <1>1 DEF ModeInv, modeVars

\* The next player start is looked at.
LEMMA TagStep ==
  ASSUME ModeInv, TagPlayerStart
  PROVE  ModeInv'
<1>1. /\ phase = "tagging" /\ phase' = "tagging" /\ next <= Len(level) /\ next' = next + 1
      /\ UNCHANGED <<config, windowTimer, fatal, level, PawnTypeIndex, pawn, limits>>
  BY DEF TagPlayerStart, Following
<1>2. /\ Tagged /\ level \in Seq(Int) /\ next \in 1 .. Len(level) + 1 /\ Len(level) \in Nat
      /\ PlayerStart \in [PawnType -> Nat]
  BY <1>1 DEF ModeInv
<1>3. next' \in 1 .. Len(level') + 1 /\ next \in Nat /\ next' - 1 = next
  BY <1>1, <1>2
<1>4. ASSUME NEW i PROVE Tags(i, next) = Tags(i, next - 1) \cup (IF level[next] = i THEN {next} ELSE {})
  <2>1. 1 .. next = (1 .. next - 1) \cup {next}
    BY <1>2, <1>3
  <2> QED BY <2>1 DEF Tags
<1>5. ASSUME NEW i \in PawnType
      PROVE  IF Tags(i, next) = {}
             THEN PlayerStart'[i] = 0
             ELSE PlayerStart'[i] \in Tags(i, next) /\ \A k \in Tags(i, next) : k <= PlayerStart'[i]
  <2>1. CASE level[next] = i
    <3>1. PlayerStart'[i] = next
      BY <1>2, <2>1, ModeConstants DEF TagPlayerStart, TooLarge
    <3>2. \A k \in Tags(i, next - 1) : k <= next
      BY <1>3 DEF Tags
    <3> QED BY <1>3, <1>4, <2>1, <3>1, <3>2
  <2>2. CASE level[next] # i
    <3>1. PlayerStart'[i] = PlayerStart[i]
      BY <1>2, <2>2 DEF TagPlayerStart, TooLarge
    <3>2. Tags(i, next) = Tags(i, next - 1)
      BY <1>4, <2>2
    <3> QED BY <1>2, <3>1, <3>2 DEF Tagged
  <2> QED BY <2>1, <2>2
<1>6. Tagged'
  BY <1>1, <1>3, <1>5 DEF Tagged, Tags
<1>7. PlayerStart' \in [PawnType -> Nat]
  BY <1>2, <1>3 DEF TagPlayerStart, TooLarge
<1>8. SetupSafe'
  BY <1>1 DEF ModeInv, SetupSafe
<1> QED BY <1>1, <1>3, <1>6, <1>7, <1>8 DEF ModeInv

\* The rest of InitGame.
LEMMA InitGameStep ==
  ASSUME ModeInv, InitGame
  PROVE  ModeInv'
<1>1. /\ phase = "tagging" /\ phase' = "initialized" /\ next > Len(level)
      /\ UNCHANGED <<config, windowTimer, fatal, level, next, PlayerStart>>
  BY DEF InitGame, TooLarge
<1>2. Tagged' /\ SetupSafe'
  BY <1>1 DEF ModeInv, Tagged, Tags, SetupSafe
<1>3. next = Len(level) + 1
  BY <1>1 DEF ModeInv
<1>4. IndexFound' /\ PawnTypeIndex' \in Int
  <2>0. PawnTypeIndex = -1 /\ pawn = -1 /\ limits = -1 /\ config \in Config
        /\ \A i, j \in config.pawnType : i = j
    BY <1>1 DEF ModeInv
  <2>1. CASE UNCHANGED <<PawnTypeIndex, pawn, limits>>
    BY <2>0, <2>1 DEF IndexFound
  <2>2. ASSUME NEW i \in config.pawnType, i >= 0, PawnTypeIndex' = i,
               NumPawnTypes > 0,
               IF i >= NumPawnTypes THEN UNCHANGED <<pawn, limits>> ELSE pawn' = i /\ limits' = i
        PROVE  IndexFound' /\ PawnTypeIndex' \in Int
    <3>1. i \in Int /\ config.pawnType = {i}
      BY <2>0 DEF Config
    <3>2. i \in PawnType <=> ~(i >= NumPawnTypes)
      BY <2>2, <3>1, ModeConstants
    <3>3. \/ PawnTypeIndex' = -1 /\ pawn' = -1
          \/ /\ PawnTypeIndex' >= 0 /\ config'.pawnType = {PawnTypeIndex'}
             /\ pawn' = IF PawnTypeIndex' \in PawnType THEN PawnTypeIndex' ELSE -1
      BY <1>1, <2>0, <2>2, <3>1, <3>2
    <3>4. pawn' = limits'
      BY <2>0, <2>2
    <3> QED BY <2>2, <3>1, <3>3, <3>4 DEF IndexFound
  <2>3. ASSUME NumPawnTypes = 0 PROVE PawnTypeIndex' = -1
    BY <2>0, <2>3 DEF InitGame, TooLarge
  <2> QED BY <2>1, <2>2, <2>3 DEF InitGame, TooLarge
<1> QED BY <1>1, <1>2, <1>3, <1>4 DEF ModeInv

LEMMA ChooseStep ==
  ASSUME ModeInv, ChoosePlayerStart
  PROVE  ModeInv'
<1>1. /\ phase = "initialized" /\ phase' = "started"
      /\ UNCHANGED <<config, windowTimer, fatal, level, next, PlayerStart, PawnTypeIndex, pawn, limits>>
  BY DEF ChoosePlayerStart
<1>2. Tagged' /\ SetupSafe' /\ IndexFound'
  BY <1>1 DEF ModeInv, Tagged, Tags, SetupSafe, IndexFound
<1>3. \/ PawnTypeIndex = -1 /\ start' = -1
      \/ PawnTypeIndex \in PawnType /\ start' = PlayerStart[PawnTypeIndex]
      \/ NumPawnTypes = 0 /\ start' = -1
  BY DEF ChoosePlayerStart
<1>4. NumPawnTypes = 0 => PawnTypeIndex = -1
  BY <1>1 DEF ModeInv, IndexFound
<1> QED BY <1>1, <1>2, <1>3, <1>4 DEF ModeInv

LEMMA ModeStep ==
  ASSUME ModeInv, [InstallationNext]_installationVars
  PROVE  ModeInv'
<1>1. CASE StartGame
  <2>1. PICK c \in Configs : config' = c /\ windowTimer' = c.read
    BY <1>1 DEF StartGame
  <2>2. phase' = "login" /\ fatal' = "no" /\ UNCHANGED modeVars
    BY <1>1 DEF StartGame
  <2>3. config' \in Configs /\ config' \in Config /\ \A i, j \in config'.pawnType : i = j
    BY <2>1, ModeConstants
  <2>5. (config'.any => config'.read) /\ (windowTimer' => config'.read)
    BY <2>1, ModeConstants
  <2>4. SetupSafe'
    BY <2>2 DEF SetupSafe
  <2> QED BY <2>1, <2>2, <2>3, <2>4, <2>5 DEF ModeInv, modeVars
<1>2. CASE Quit \/ PowerLoss
  BY <1>2, FatalStep DEF Quit, PowerLoss, Fatal
<1>3. CASE MoveWindowFunction
  <2>1. CASE config.window
    BY <1>3, <2>1, SameModeStep DEF MoveWindowFunction
  <2>2. CASE ~config.window
    <3>1. SetupBad
      BY <1>3, <2>2 DEF MoveWindowFunction, ModeInv, SetupBad
    <3> QED BY <1>3, <2>2, <3>1, FatalStep DEF MoveWindowFunction, Fatal
  <2> QED BY <2>1, <2>2
<1>4. CASE Login
  <2>1. CASE ~(config.any /\ ~config.license)
    <3>1. /\ UNCHANGED <<config, windowTimer, fatal, modeVars>> /\ phase = "login"
          /\ phase' = "refused" \/ (phase' = "waiting" /\ config.any)
      BY <1>4, <2>1 DEF Login
    <3> QED BY <3>1, SameModeStep
  <2>2. CASE config.any /\ ~config.license
    <3>1. SetupBad
      BY <2>2 DEF SetupBad, ModeInv
    <3> QED BY <1>4, <2>2, <3>1, FatalStep DEF Login, Fatal
  <2> QED BY <2>1, <2>2
<1>5. ASSUME NEW response \in Responses, OnLoginResponseReceived(response)
      PROVE  ModeInv'
  <2>1. CASE response = "true" \/ response = "false"
    <3>1. /\ UNCHANGED <<config, windowTimer, fatal, modeVars>> /\ phase = "waiting"
          /\ phase' = "refused" \/ phase' = "travelling"
      BY <1>5, <2>1 DEF OnLoginResponseReceived
    <3> QED BY <3>1, SameModeStep
  <2>2. CASE ~(response = "true" \/ response = "false")
    BY <1>5, <2>2, FatalStep DEF OnLoginResponseReceived, Fatal
  <2> QED BY <2>1, <2>2
<1>6. CASE TimersAdvance \/ Click \/ LevelToast \/ LogOrSave
  BY <1>6, SameModeStep DEF TimersAdvance, Click, LevelToast, LogOrSave
<1>7. CASE Travel
  <2>1. /\ phase = "travelling" /\ phase' = "tagging" /\ level' \in Levels /\ NewGameMode
        /\ UNCHANGED <<config, windowTimer, fatal>>
    BY <1>7 DEF Travel
  <2>2. level' \in Seq(Int)
    BY <2>1, ModeConstants
  <2>3. /\ next' \in 1 .. Len(level') + 1 /\ Tagged'
        /\ PlayerStart' \in [PawnType -> Nat] /\ PawnTypeIndex' \in Int
        /\ PawnTypeIndex' = -1 /\ pawn' = -1 /\ limits' = -1
    BY <2>1, <2>2, NewModeStep
  <2>4. fatal' # "setup" /\ SetupSafe'
    BY <2>1 DEF ModeInv, SetupSafe
  <2> QED BY <2>1, <2>2, <2>3, <2>4 DEF ModeInv
<1>8. CASE TagPlayerStart \/ InitGame \/ ChoosePlayerStart
  BY <1>8, TagStep, InitGameStep, ChooseStep
<1>9. CASE TagPlayerStartFatal
  <2>1. /\ level[next] < 0 /\ next <= Len(level) /\ next \in 1 .. Len(level) + 1
        /\ level \in Seq(Int) /\ config.read
    BY <1>9 DEF TagPlayerStartFatal, ModeInv
  <2>2. next \in 1 .. Len(level)
    BY <2>1
  <2>3. SetupBad
    BY <2>1, <2>2 DEF SetupBad
  <2> QED BY <1>9, <2>3, FatalStep DEF TagPlayerStartFatal, Fatal
<1>10. CASE InitGameFatal
  <2>1. PICK i \in config.pawnType : i < 0
    BY <1>10 DEF InitGameFatal
  <2>2. i \in Int /\ config.read
    BY <1>10 DEF InitGameFatal, ModeInv, Config
  <2>3. i \notin PawnType
    BY <2>1, <2>2, ModeConstants
  <2>4. SetupBad
    BY <2>1, <2>2, <2>3 DEF SetupBad
  <2> QED BY <1>10, <2>4, FatalStep DEF InitGameFatal, Fatal
<1>11. CASE ChoosePlayerStartFatal
  <2>1. config.pawnType = {PawnTypeIndex} /\ PawnTypeIndex \notin PawnType /\ config.read
    BY <1>11 DEF ChoosePlayerStartFatal, ModeInv, IndexFound
  <2>2. SetupBad
    BY <2>1 DEF SetupBad
  <2> QED BY <1>11, <2>2, FatalStep DEF ChoosePlayerStartFatal, Fatal
<1>12. CASE BeginPlay
  <2>1. CASE config.actors
    <3>1. /\ UNCHANGED <<config, windowTimer, fatal, modeVars>>
          /\ phase = "started" /\ phase' = "playing"
      BY <1>12, <2>1 DEF BeginPlay
    <3> QED BY <3>1, SameModeStep
  <2>2. CASE ~config.actors
    <3>1. SetupBad
      BY <1>12, <2>2 DEF BeginPlay, ModeInv, SetupBad
    <3> QED BY <1>12, <2>2, <3>1, FatalStep DEF BeginPlay, Fatal
  <2> QED BY <2>1, <2>2
<1>13. CASE UNCHANGED installationVars
  BY <1>13, SameModeStep DEF installationVars
<1> QED BY <1>1, <1>2, <1>3, <1>4, <1>5, <1>6, <1>7, <1>8, <1>9, <1>10, <1>11, <1>12, <1>13
        DEF InstallationNext

LEMMA ModeHolds == InstallationSpec => []ModeInv
<1>1. InstallationInit => ModeInv
  <2> SUFFICES ASSUME InstallationInit PROVE ModeInv
    OBVIOUS
  <2>1. /\ phase = "off" /\ config \in Configs /\ windowTimer = FALSE /\ fatal = "no"
        /\ level = <<>> /\ next = 1 /\ PlayerStart = [i \in PawnType |-> 0] /\ PawnTypeIndex = -1
    BY DEF InstallationInit
  <2>2. config \in Config /\ (\A i, j \in config.pawnType : i = j) /\ (config.any => config.read)
    BY <2>1, ModeConstants
  <2>3. level \in Seq(Int) /\ next \in 1 .. Len(level) + 1
    BY <2>1
  <2>4. PlayerStart \in [PawnType -> Nat] /\ PawnTypeIndex \in Int
    BY <2>1
  <2>5. SetupSafe
    BY <2>1 DEF SetupSafe
  <2> QED BY <2>1, <2>2, <2>3, <2>4, <2>5 DEF ModeInv
<1>2. ModeInv /\ [InstallationNext]_installationVars => ModeInv'
  BY ModeStep
<1> QED BY <1>1, <1>2, PTL DEF InstallationSpec

\* Pawn, limits and player start are those of one type.
THEOREM OneTypeCorrect == InstallationSpec => []OneType
<1>1. ASSUME ModeInv, phase = "playing"
      PROVE  /\ limits = pawn
             /\ pawn = -1 => start = -1
             /\ pawn # -1 =>
                  /\ config.pawnType = {pawn}
                  /\ IF {k \in 1 .. Len(level) : level[k] = pawn} = {}
                     THEN start = 0
                     ELSE /\ start \in {k \in 1 .. Len(level) : level[k] = pawn}
                          /\ \A k \in {l \in 1 .. Len(level) : level[l] = pawn} : k <= start
  <2>1. /\ Tagged /\ next = Len(level) + 1 /\ IndexFound /\ level \in Seq(Int)
        /\ \/ PawnTypeIndex = -1 /\ start = -1
           \/ PawnTypeIndex \in PawnType /\ start = PlayerStart[PawnTypeIndex]
    BY <1>1 DEF ModeInv
  <2>2. next - 1 = Len(level)
    BY <2>1
  <2>3. \A i \in PawnType : i >= 0 /\ i # -1 /\ i \in Int
    BY ModeConstants
  <2>4. CASE PawnTypeIndex = -1
    BY <2>1, <2>3, <2>4 DEF IndexFound
  <2>5. CASE PawnTypeIndex # -1
    <3>1. /\ PawnTypeIndex \in PawnType /\ start = PlayerStart[PawnTypeIndex]
          /\ pawn = PawnTypeIndex /\ limits = pawn /\ config.pawnType = {pawn}
      BY <2>1, <2>5 DEF IndexFound
    <3>2. {k \in 1 .. Len(level) : level[k] = pawn} = Tags(pawn, next - 1)
      BY <2>2 DEF Tags
    <3>3. IF Tags(pawn, next - 1) = {}
          THEN start = 0
          ELSE start \in Tags(pawn, next - 1) /\ \A k \in Tags(pawn, next - 1) : k <= start
      BY <2>1, <3>1 DEF Tagged
    <3>4. pawn # -1
      BY <2>3, <3>1
    <3> QED BY <3>1, <3>2, <3>3, <3>4
  <2> QED BY <2>4, <2>5
<1>2. ModeInv => OneType
  BY <1>1 DEF OneType
<1> QED BY <1>2, ModeHolds, PTL

\* The setup ends the process only for a reason that a file which was read, or
\* the level, gives it: without Config.txt neither Login nor the window timer
\* dereferences a key.
THEOREM SetupCorrect == InstallationSpec => []SetupSafe
<1>1. ModeInv => SetupSafe
  BY DEF ModeInv
<1> QED BY <1>1, ModeHolds, PTL

-----------------------------------------------------------------------------
(* The types *)

\* The part of the types that the handlers of the setup keep.
SetupType ==
  /\ phase \in Phase /\ config \in Configs
  /\ windowTimer \in BOOLEAN /\ alert \in BOOLEAN
  /\ fatal \in {"no", "setup", "response"}
  /\ pawn \in PawnType \cup {-1} /\ limits \in PawnType \cup {-1}
  /\ start \in Nat \cup {-1}

\* The part that toasts and timers keep.
ToastType ==
  toast \in 0 .. toasts /\ toasts \in 0 .. MaxToasts /\ age \in 0 .. ToastTime

LEMMA SetupTypeStep ==
  ASSUME SetupType, ModeInv, [InstallationNext]_installationVars
  PROVE  SetupType'
<1> USE DEF SetupType, Phase
<1>1. ASSUME NEW why \in {"no", "setup", "response"}, ProcessEnds, fatal' = why
      PROVE  SetupType'
  BY <1>1 DEF ProcessEnds, NewGameMode
<1>2. CASE StartGame
  <2>1. PICK c \in Configs : config' = c /\ windowTimer' = c.read /\ alert' = FALSE
    BY <1>2 DEF StartGame
  <2>2. c.read \in BOOLEAN
    BY ModeConstants DEF Config
  <2>3. UNCHANGED <<pawn, limits, start>> /\ phase' = "login" /\ fatal' = "no"
    BY <1>2 DEF StartGame, modeVars
  <2> QED BY <2>1, <2>2, <2>3
<1>3. CASE Quit \/ PowerLoss
  BY <1>1, <1>3 DEF Quit, PowerLoss, Fatal
<1>4. CASE TimersAdvance \/ Click \/ LevelToast \/ LogOrSave
  BY <1>4 DEF TimersAdvance, Click, LevelToast, LogOrSave, modeVars
<1>5. CASE MoveWindowFunction \/ Login \/ BeginPlay
  BY <1>1, <1>5 DEF MoveWindowFunction, Login, BeginPlay, Fatal, modeVars
<1>6. ASSUME NEW response \in Responses, OnLoginResponseReceived(response)
      PROVE  SetupType'
  BY <1>1, <1>6 DEF OnLoginResponseReceived, Fatal, modeVars
<1>7. CASE Travel
  BY <1>7 DEF Travel, NewGameMode
<1>8. CASE TagPlayerStart
  BY <1>8 DEF TagPlayerStart, TooLarge
<1>9. CASE TagPlayerStartFatal \/ InitGameFatal \/ ChoosePlayerStartFatal
  BY <1>1, <1>9 DEF TagPlayerStartFatal, InitGameFatal, ChoosePlayerStartFatal, Fatal
<1>10. CASE InitGame
  <2>1. /\ phase' = "initialized" /\ UNCHANGED <<config, windowTimer, alert, fatal, start>>
    BY <1>10 DEF InitGame, TooLarge
  <2>2. CASE UNCHANGED <<pawn, limits>>
    BY <2>1, <2>2
  <2>3. ASSUME NEW i \in config.pawnType, i >= 0, ~(i >= NumPawnTypes), pawn' = i, limits' = i
        PROVE  SetupType'
    <3>1. i \in PawnType
      BY <2>3, ModeConstants DEF ModeInv, Config
    <3> QED BY <2>1, <2>3, <3>1
  <2> QED BY <1>10, <2>2, <2>3 DEF InitGame, TooLarge
<1>11. CASE ChoosePlayerStart
  <2>1. start' \in Nat \cup {-1}
    BY <1>11 DEF ChoosePlayerStart, ModeInv
  <2> QED BY <1>11, <2>1 DEF ChoosePlayerStart
<1>12. CASE UNCHANGED installationVars
  BY <1>12 DEF installationVars, modeVars
<1> QED BY <1>2, <1>3, <1>4, <1>5, <1>6, <1>7, <1>8, <1>9, <1>10, <1>11, <1>12
        DEF InstallationNext

LEMMA ToastTypeStep ==
  ASSUME ToastType, ToastInv, [InstallationNext]_installationVars
  PROVE  ToastType'
<1>0. ToastTime \in Nat /\ MaxToasts \in Nat
  BY ToastAssumption
<1> USE DEF ToastType
<1>1. ASSUME ShowToastMessage PROVE ToastType'
  <2>1. toast' = toasts' /\ toasts' = toasts + 1 /\ toasts < MaxToasts /\ age' = 0
    BY <1>1 DEF ShowToastMessage
  <2> QED BY <1>0, <2>1
<1>2. ASSUME UNCHANGED toastVars PROVE ToastType'
  BY <1>2 DEF toastVars
<1>3. ASSUME ProcessEnds PROVE ToastType'
  BY <1>0, <1>3 DEF ProcessEnds
<1>4. ASSUME UNCHANGED <<toasts, age>>, toast' = 0 PROVE ToastType'
  BY <1>0, <1>4
<1>5. CASE StartGame
  BY <1>1, <1>2, <1>5 DEF StartGame
<1>6. CASE TimersAdvance
  <2>1. toast # 0 /\ age < ToastTime
    BY <1>6 DEF TimersAdvance, ToastInv
  <2>2. age' = age + 1 /\ toasts' = toasts /\ (toast' = 0 \/ toast' = toast)
    BY <1>6 DEF TimersAdvance, HideToastMessage
  <2> QED BY <1>0, <2>1, <2>2
<1>7. CASE Click
  BY <1>4, <1>7 DEF Click, HideToastMessage
<1>8. CASE LevelToast
  BY <1>1, <1>8 DEF LevelToast
<1>9. CASE Quit \/ PowerLoss \/ MoveWindowFunction \/ Login \/ BeginPlay
  BY <1>2, <1>3, <1>9 DEF Quit, PowerLoss, MoveWindowFunction, Login, BeginPlay, Fatal
<1>10. ASSUME NEW response \in Responses, OnLoginResponseReceived(response)
       PROVE  ToastType'
  BY <1>2, <1>3, <1>10 DEF OnLoginResponseReceived, Fatal
<1>11. CASE Travel \/ TagPlayerStart \/ InitGame \/ ChoosePlayerStart \/ LogOrSave
  BY <1>2, <1>11 DEF Travel, TagPlayerStart, InitGame, ChoosePlayerStart, LogOrSave
<1>12. CASE TagPlayerStartFatal \/ InitGameFatal \/ ChoosePlayerStartFatal
  BY <1>3, <1>12 DEF TagPlayerStartFatal, InitGameFatal, ChoosePlayerStartFatal, Fatal
<1>13. CASE UNCHANGED installationVars
  BY <1>2, <1>13 DEF installationVars
<1> QED BY <1>5, <1>6, <1>7, <1>8, <1>9, <1>10, <1>11, <1>12, <1>13 DEF InstallationNext

\* Every variable of the installation keeps its type: no index the setup finds
\* leads to a pawn type that does not exist, and no timer outlives its toast.
THEOREM InstallationTypeCorrect == InstallationSpec => []InstallationTypeOK
<1>1. InstallationInit => SetupType /\ ToastType /\ ToastInv
  <2>1. ASSUME InstallationInit PROVE SetupType
    BY <2>1 DEF InstallationInit, SetupType, Phase
  <2>2. ASSUME InstallationInit PROVE ToastType
    <3>1. toast = 0 /\ toasts = 0 /\ age = 0 /\ ToastTime \in Nat /\ MaxToasts \in Nat
      BY <2>2, ToastAssumption DEF InstallationInit
    <3> QED BY <3>1 DEF ToastType
  <2>3. ASSUME InstallationInit PROVE ToastInv
    BY <2>3 DEF InstallationInit, ToastInv
  <2> QED BY <2>1, <2>2, <2>3
<1>2. SetupType /\ ToastType /\ ToastInv /\ ModeInv /\ [InstallationNext]_installationVars
        => (SetupType /\ ToastType /\ ToastInv)'
  BY SetupTypeStep, ToastTypeStep, ToastStep
<1>3. ASSUME SetupType, ToastType, ToastInv, ModeInv, TypeOK PROVE InstallationTypeOK
  <2>1. /\ timers \subseteq [id: 1 .. MaxToasts, left: 1 .. ToastTime]
        /\ toastHandle \in 0 .. MaxToasts
    <3>0. ToastTime \in Nat /\ MaxToasts \in Nat
      BY ToastAssumption
    <3>1. CASE toast = 0
      BY <1>3, <3>0, <3>1 DEF ToastInv
    <3>2. CASE toast # 0
      <4>1. /\ toastHandle = toast /\ timers = {[id |-> toast, left |-> ToastTime - age]}
            /\ toast \in 1 .. MaxToasts /\ ToastTime - age \in 1 .. ToastTime
        BY <1>3, <3>0, <3>2 DEF ToastInv, ToastType
      <4> QED BY <3>0, <4>1
    <3> QED BY <3>1, <3>2
  <2> QED BY <1>3, <2>1 DEF SetupType, ToastType, ModeInv, InstallationTypeOK
<1> QED BY <1>1, <1>2, <1>3, ModeHolds, LogCarriedOver, PTL DEF InstallationSpec

=============================================================================
