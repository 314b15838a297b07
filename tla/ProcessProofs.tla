--------------------------- MODULE ProcessProofs ---------------------------
(***************************************************************************)
(* Proofs about the files and pipes that processes use and about processes, *)
(* for every number of slots and every choice of paths, offsets, pids,      *)
(* signals, handlers and masks.                                             *)
(*                                                                         *)
(* Files: the inductive invariant FilesInv is what the runs check           *)
(* (FilesAgree, PipesAgree and NothingBehindTheEnd), written for the        *)
(* provers.                                                                 *)
(*                                                                         *)
(* Processes: every step takes a free slot, releases a used one, clears the *)
(* table, or replaces one used entry by another with the same pid.  The     *)
(* properties of the table follow from that shape; the properties of        *)
(* signals are facts about single entries.                                  *)
(***************************************************************************)
EXTENDS Files, Proc, SlotLemmas

FileRecs == [used : BOOLEAN, path : Paths \cup {Unlinked}, len : 0 .. Cap,
             data : [Bytes -> {0, 1}]]
PipeRecs == [used : BOOLEAN, len : 0 .. Cap]
FdRecs == [kind : {"none", "VFS"} \cup PipeEnds, file : FileIds \cup {NoFileId},
           pipe : PipeIds, offset : Nat]

Holds(fd, f) == fds[fd].kind = "VFS" /\ fds[fd].file = f
HasEnd(fd, p) == fds[fd].kind \in PipeEnds /\ fds[fd].pipe = p

FilesInv ==
    /\ nodes \subseteq Paths /\ files \in [FileIds -> FileRecs]
    /\ pipes \in [PipeIds -> PipeRecs] /\ fds \in [Fds -> FdRecs]
    /\ \A fd \in Fds : fds[fd].kind = "VFS" =>
          fds[fd].file \in FileIds /\ files[fds[fd].file].used
    /\ \A f \in FileIds : files[f].used =>
          IF files[f].path = Unlinked THEN \E fd \in Fds : Holds(fd, f)
          ELSE /\ files[f].path \in nodes
               /\ \A g \in FileIds : files[g].used /\ files[g].path = files[f].path => g = f
    /\ \A p \in PipeIds : pipes[p].used <=> \E fd \in Fds : HasEnd(fd, p)
    /\ NothingBehindTheEnd

\* What an empty slot, an empty pipe and a free descriptor are.
LEMMA Blank ==
    /\ NoFile \in FileRecs /\ ~ NoFile.used
    /\ \A b \in Bytes : NoFile.data[b] = 0
    /\ NoPipe \in PipeRecs /\ ~ NoPipe.used
    /\ NoFd \in FdRecs /\ NoFd.kind = "none"
<1>1. 0 \in 0 .. Cap /\ 0 \in PipeIds
  BY FilesAssumption DEF PipeIds
<1>2. [b \in Bytes |-> 0] \in [Bytes -> {0, 1}]
  OBVIOUS
<1> QED BY <1>1, <1>2 DEF NoFile, NoPipe, NoFd, FileRecs, PipeRecs, FdRecs

\* FilesInv is what the runs check, together.
LEMMA FilesInvMeans == FilesInv => FilesAgree /\ PipesAgree /\ NothingBehindTheEnd
BY DEF FilesInv, FilesAgree, FilesTypeOK, PipesAgree, FileOf, Holds, HasEnd,
       FileRecs, PipeRecs, FdRecs

\* The parts of it that most calls need: the types, and the zeros behind the end.
LEMMA FilesParts ==
    FilesInv => /\ nodes \subseteq Paths /\ files \in [FileIds -> FileRecs]
                /\ pipes \in [PipeIds -> PipeRecs] /\ fds \in [Fds -> FdRecs]
                /\ NothingBehindTheEnd
BY DEF FilesInv

\* A transfer or an lseek moves one descriptor.
LEMMA FdMoved ==
    ASSUME fds \in [Fds -> FdRecs], NEW fd \in Fds, NEW offset \in Nat,
           fds' = [fds EXCEPT ![fd].offset = offset]
    PROVE  /\ fds' \in [Fds -> FdRecs]
           /\ \A i \in Fds : /\ fds'[i].kind = fds[i].kind /\ fds'[i].file = fds[i].file
                             /\ fds'[i].pipe = fds[i].pipe
<1>1. PICK r \in FdRecs : r = fds[fd]
  OBVIOUS
<1>2. PICK q : q = [r EXCEPT !.offset = offset]
  OBVIOUS
<1>3. q \in FdRecs /\ q.kind = r.kind /\ q.file = r.file /\ q.pipe = r.pipe
  BY <1>2 DEF FdRecs
<1>4. fds' = [fds EXCEPT ![fd] = q]
  BY <1>1, <1>2
<1> QED BY <1>1, <1>3, <1>4

\* The empty tables satisfy it.
LEMMA FilesInvInit == FilesInit => FilesInv
<1> SUFFICES ASSUME FilesInit PROVE FilesInv
  OBVIOUS
<1>1. NothingBehindTheEnd
  BY Blank DEF FilesInit, NothingBehindTheEnd
<1> QED BY <1>1, Blank DEF FilesInv, FilesInit, HasEnd, PipeEnds
----------------------------------------------------------------------------
\* A step that changes nothing but positions and the content of pipes keeps the
\* invariant: lseek, reads, and writes to a pipe.
LEMMA PositionsStep ==
    ASSUME FilesInv, nodes' = nodes, files' = files,
           fds' \in [Fds -> FdRecs], pipes' \in [PipeIds -> PipeRecs],
           \A fd \in Fds : /\ fds'[fd].kind = fds[fd].kind /\ fds'[fd].file = fds[fd].file
                           /\ fds'[fd].pipe = fds[fd].pipe,
           \A p \in PipeIds : pipes'[p].used = pipes[p].used
    PROVE  FilesInv'
<1>1. NothingBehindTheEnd'
  BY DEF FilesInv, NothingBehindTheEnd
<1> QED BY <1>1 DEF FilesInv, Holds, HasEnd

\* lseek stores any offset.
LEMMA LseekStep ==
    ASSUME FilesInv, NEW fd \in Fds, NEW offset \in Seeks, Lseek(fd, offset)
    PROVE  FilesInv'
<1>1. offset \in Nat /\ fds' = [fds EXCEPT ![fd].offset = offset]
  BY FilesAssumption DEF Lseek
<1>2. nodes' = nodes /\ files' = files /\ pipes' = pipes
  BY DEF Lseek
<1> QED BY <1>1, <1>2, FilesParts, FdMoved, PositionsStep

\* Where a transfer starts is a number.
LEMMA OffsetNat == ASSUME FilesInv, NEW fd \in Fds PROVE Offset(fd) \in Nat
<1>1. fds[fd].offset \in Nat
  BY DEF FilesInv, FdRecs
<1> QED BY <1>1, FilesAssumption DEF Offset

\* Reading a file moves the descriptor.
LEMMA ReadFileStep ==
    ASSUME FilesInv, NEW fd \in Fds, NEW n \in 1 .. Cap, ReadFile(fd, n)
    PROVE  FilesInv'
<1>1. Offset(fd) + n \in Nat
  BY OffsetNat
<1>2. /\ fds' = [fds EXCEPT ![fd].offset = Offset(fd) + n]
      /\ nodes' = nodes /\ files' = files /\ pipes' = pipes
  BY DEF ReadFile
<1> QED BY <1>1, <1>2, FilesParts, FdMoved, PositionsStep

\* Reading and writing a pipe change the number of bytes in it, up to Cap.
LEMMA PipeBytesStep ==
    ASSUME FilesInv, NEW fd \in Fds, NEW n \in 1 .. Cap, ReadPipe(fd, n) \/ WritePipe(fd, n)
    PROVE  FilesInv'
<1>1. fds[fd].pipe \in PipeIds /\ pipes[fds[fd].pipe].len \in 0 .. Cap
  BY DEF FilesInv, FdRecs, PipeRecs
<1>2. /\ pipes' \in [PipeIds -> PipeRecs]
      /\ \A p \in PipeIds : pipes'[p].used = pipes[p].used
  <2>1. PICK p \in PipeIds : p = fds[fd].pipe
    BY <1>1
  <2>2. PICK r \in PipeRecs : r = pipes[p]
    BY DEF FilesInv
  <2>3. PICK len \in 0 .. Cap : pipes' = [pipes EXCEPT ![p].len = len]
    <3>1. PICK old \in 0 .. Cap : old = pipes[p].len
      BY <1>1, <2>1
    <3>2. CASE ReadPipe(fd, n)
      <4>1. n \in 1 .. old /\ pipes' = [pipes EXCEPT ![p].len = old - n]
        BY <2>1, <3>1, <3>2 DEF ReadPipe
      <4>2. old - n \in 0 .. Cap
        BY <4>1, FilesAssumption
      <4> QED BY <4>1, <4>2
    <3>3. CASE WritePipe(fd, n)
      <4>1. n \in 1 .. Cap - old /\ pipes' = [pipes EXCEPT ![p].len = old + n]
        BY <2>1, <3>1, <3>3 DEF WritePipe
      <4>2. old + n \in 0 .. Cap
        BY <4>1, FilesAssumption
      <4> QED BY <4>1, <4>2
    <3> QED BY <3>2, <3>3
  <2>4. [r EXCEPT !.len = len] \in PipeRecs /\ [r EXCEPT !.len = len].used = r.used
    BY DEF PipeRecs
  <2>5. pipes' = [pipes EXCEPT ![p] = [r EXCEPT !.len = len]]
    BY <2>2, <2>3
  <2>6. pipes'[p] = [r EXCEPT !.len = len] /\ \A q \in PipeIds \ {p} : pipes'[q] = pipes[q]
    BY <2>5 DEF FilesInv
  <2> QED BY <2>2, <2>4, <2>5, <2>6 DEF FilesInv
<1> QED BY <1>2, PositionsStep DEF FilesInv, ReadPipe, WritePipe

\* Writing a file puts bytes before its new end only.
LEMMA WriteFileStep ==
    ASSUME FilesInv, NEW fd \in Fds, NEW n \in 1 .. Cap, WriteFile(fd, n)
    PROVE  FilesInv'
<1> DEFINE f == fds[fd].file
           end == Offset(fd) + n
           len == files[f].len
           data == Written(files[f].data, Offset(fd), n)
           max == Max({len, end})
<1>1. f \in FileIds /\ len \in 0 .. Cap /\ Offset(fd) \in Nat /\ end \in 1 .. Cap
  BY OffsetNat, FilesAssumption DEF FilesInv, WriteFile, FileRecs
<1>2. max = IF len >= end THEN len ELSE end
  <2> HIDE DEF len, end
  <2> QED BY <1>1 DEF Max
<1>3. /\ files'[f].len = max /\ files'[f].data = data
      /\ files'[f].used = files[f].used /\ files'[f].path = files[f].path
      /\ \A g \in FileIds \ {f} : files'[g] = files[g]
      /\ files' \in [FileIds -> FileRecs]
  <2>1. files[f] \in FileRecs
    BY <1>1 DEF FilesInv
  <2>2. max \in 0 .. Cap
    BY <1>1, <1>2
  <2>3. data \in [Bytes -> {0, 1}]
    BY <2>1 DEF FileRecs, Written
  <2>4. files' = [files EXCEPT ![f] = [files[f] EXCEPT !.len = max, !.data = data]]
    BY DEF WriteFile
  <2>5. files \in [FileIds -> FileRecs]
    BY DEF FilesInv
  <2> HIDE DEF max, data, f
  <2> QED BY <1>1, <2>1, <2>2, <2>3, <2>4, <2>5 DEF FileRecs
<1>4. NothingBehindTheEnd'
  <2> SUFFICES ASSUME NEW g \in FileIds, NEW b \in Bytes, b >= files'[g].len
               PROVE  files'[g].data[b] = 0
    BY DEF NothingBehindTheEnd
  <2>1. CASE g # f
    BY <2>1, <1>3, FilesParts DEF NothingBehindTheEnd
  <2>2. CASE g = f
    <3>1. b \in Nat /\ b >= len /\ b >= end
      BY <2>2, <1>1, <1>2, <1>3, FilesAssumption DEF Bytes
    <3>2. files[f].data[b] = 0
      BY <3>1, <1>1, FilesParts DEF NothingBehindTheEnd
    <3>3. files'[g].data[b] = data[b]
      BY <2>2, <1>3
    <3>4. ~ (b \in Offset(fd) .. Offset(fd) + n - 1)
      BY <3>1, <1>1
    <3> QED BY <3>2, <3>3, <3>4 DEF Written
  <2> QED BY <2>1, <2>2
<1>5. fds' \in [Fds -> FdRecs]
  <2>1. Offset(fd) + n \in Nat /\ fds' = [fds EXCEPT ![fd].offset = Offset(fd) + n]
    BY <1>1 DEF WriteFile
  <2> QED BY <2>1, FilesParts, FdMoved
<1>6. \A i \in Fds : /\ fds'[i].kind = fds[i].kind /\ fds'[i].file = fds[i].file
                     /\ fds'[i].pipe = fds[i].pipe
  BY <1>1 DEF FilesInv, WriteFile, FdRecs
<1>7. nodes' = nodes /\ pipes' = pipes
  BY DEF WriteFile
<1>8. \A g \in FileIds : files'[g].used = files[g].used /\ files'[g].path = files[g].path
  BY <1>3
<1>9. \A i \in Fds : fds'[i].kind = "VFS" =>
         fds'[i].file \in FileIds /\ files'[fds'[i].file].used
  BY <1>6, <1>8 DEF FilesInv
<1>10. \A g \in FileIds : (\E i \in Fds : Holds(i, g)) => \E i \in Fds : Holds(i, g)'
  BY <1>6 DEF Holds
<1>11. \A g \in FileIds : files'[g].used =>
         IF files'[g].path = Unlinked THEN \E i \in Fds : Holds(i, g)'
         ELSE /\ files'[g].path \in nodes'
              /\ \A h \in FileIds : files'[h].used /\ files'[h].path = files'[g].path => h = g
  BY <1>7, <1>8, <1>10 DEF FilesInv
<1>12. \A p \in PipeIds : pipes'[p].used <=> \E i \in Fds : HasEnd(i, p)'
  <2>1. \A p \in PipeIds : \A i \in Fds : HasEnd(i, p)' <=> HasEnd(i, p)
    BY <1>6 DEF HasEnd
  <2> QED BY <1>7, <2>1 DEF FilesInv
<1>13. nodes' \subseteq Paths /\ pipes' \in [PipeIds -> PipeRecs]
  BY <1>7 DEF FilesInv
<1> HIDE DEF f, end, len, data, max
<1> QED BY <1>3, <1>4, <1>5, <1>9, <1>11, <1>12, <1>13 DEF FilesInv
----------------------------------------------------------------------------
\* A new path disturbs nothing.
LEMMA MkdirStep ==
    ASSUME FilesInv, NEW path \in Paths, Mkdir(path)
    PROVE  FilesInv'
<1>1. NothingBehindTheEnd'
  BY DEF FilesInv, Mkdir, NothingBehindTheEnd
<1> QED BY <1>1 DEF FilesInv, Mkdir, Holds, HasEnd

\* The descriptor open and pipe fill in is a free one.
LEMMA FreeFd == ASSUME FreeFds # {} PROVE Min(FreeFds) \in Fds /\ fds[Min(FreeFds)].kind = "none"
<1>1. FreeFds \subseteq Nat
  BY FilesAssumption DEF FreeFds, Fds
<1> QED BY <1>1, MinIn DEF FreeFds

\* A descriptor for a file that is there gives the file one more user.
LEMMA OpenFileStep ==
    ASSUME FilesInv, NEW path \in Paths, OpenFile(path)
    PROVE  FilesInv'
<1> DEFINE fd == Min(FreeFds)
           f == Min(FileOf(path))
           new == [NoFd EXCEPT !.kind = "VFS", !.file = f]
<1>1. fd \in Fds /\ fds[fd].kind = "none"
  BY FreeFd DEF OpenFile
<1>2. f \in FileIds /\ files[f].used
  <2>1. FileOf(path) \subseteq Nat /\ FileOf(path) # {}
    BY FilesAssumption DEF FileOf, FileIds, OpenFile
  <2> QED BY <2>1, MinIn DEF FileOf
<1>3. new \in FdRecs /\ new.kind = "VFS" /\ new.file = f
  BY <1>2, Blank DEF FdRecs
<1>4. fds' = [fds EXCEPT ![fd] = new] /\ UNCHANGED <<nodes, files, pipes>>
  BY DEF OpenFile
<1> HIDE DEF fd, f, new
<1>5. NothingBehindTheEnd'
  BY <1>4 DEF FilesInv, NothingBehindTheEnd
<1>6. \A i \in Fds \ {fd} : fds'[i] = fds[i]
  BY <1>4 DEF FilesInv
<1>7. fds'[fd] = new /\ fds' \in [Fds -> FdRecs]
  BY <1>1, <1>3, <1>4 DEF FilesInv
<1>8. \A p \in PipeIds : \A i \in Fds : HasEnd(i, p)' <=> HasEnd(i, p)
  BY <1>1, <1>3, <1>6, <1>7 DEF HasEnd, PipeEnds
<1>9. \A g \in FileIds : \A i \in Fds : Holds(i, g) => Holds(i, g)'
  BY <1>1, <1>6 DEF Holds
<1> QED
  BY <1>1, <1>2, <1>3, <1>4, <1>5, <1>6, <1>7, <1>8, <1>9 DEF FilesInv

\* A new file is empty, the only one with its path, and has a user.
LEMMA OpenNewStep ==
    ASSUME FilesInv, NEW path \in Paths, OpenNew(path)
    PROVE  FilesInv'
<1> DEFINE fd == Min(FreeFds)
           f == Min({g \in FileIds : ~ files[g].used})
           new == [NoFd EXCEPT !.kind = "VFS", !.file = f]
           file == [NoFile EXCEPT !.used = TRUE, !.path = path]
<1>1. fd \in Fds /\ fds[fd].kind = "none"
  BY FreeFd DEF OpenNew
<1>2. f \in FileIds /\ ~ files[f].used
  <2>1. {g \in FileIds : ~ files[g].used} \subseteq Nat
    BY FilesAssumption DEF FileIds
  <2> QED BY <2>1, MinIn DEF OpenNew
<1>3. new \in FdRecs /\ new.kind = "VFS" /\ new.file = f
  BY <1>2, Blank DEF FdRecs
<1>4. /\ file \in FileRecs /\ file.used /\ file.path = path
      /\ \A b \in Bytes : file.data[b] = 0
  BY Blank DEF FileRecs
<1>5. /\ fds' = [fds EXCEPT ![fd] = new] /\ files' = [files EXCEPT ![f] = file]
      /\ UNCHANGED <<nodes, pipes>> /\ path \in nodes
      /\ \A g \in FileIds : files[g].used => files[g].path # path
  BY DEF OpenNew, FileAlloc, FileOf
<1> HIDE DEF fd, f, new, file
<1>6. /\ \A i \in Fds \ {fd} : fds'[i] = fds[i]
      /\ fds'[fd] = new /\ fds' \in [Fds -> FdRecs]
  BY <1>1, <1>3, <1>5 DEF FilesInv
<1>7. /\ \A g \in FileIds \ {f} : files'[g] = files[g]
      /\ files'[f] = file /\ files' \in [FileIds -> FileRecs]
  BY <1>2, <1>4, <1>5 DEF FilesInv
<1>8. NothingBehindTheEnd'
  BY <1>4, <1>7 DEF FilesInv, NothingBehindTheEnd
<1>9. \A p \in PipeIds : \A i \in Fds : HasEnd(i, p)' <=> HasEnd(i, p)
  BY <1>1, <1>3, <1>6 DEF HasEnd, PipeEnds
<1>10. \A g \in FileIds : \A i \in Fds : Holds(i, g) => Holds(i, g)'
  BY <1>1, <1>6 DEF Holds
<1>11. \A i \in Fds : fds'[i].kind = "VFS" =>
          fds'[i].file \in FileIds /\ files'[fds'[i].file].used
  BY <1>2, <1>3, <1>4, <1>6, <1>7 DEF FilesInv
<1>12. ASSUME NEW g \in FileIds, files'[g].used
       PROVE  IF files'[g].path = Unlinked THEN \E i \in Fds : Holds(i, g)'
              ELSE /\ files'[g].path \in nodes
                   /\ \A h \in FileIds :
                         files'[h].used /\ files'[h].path = files'[g].path => h = g
  <2>1. CASE g = f
    <3>1. path # Unlinked
      BY FilesAssumption DEF Unlinked
    <3> QED BY <2>1, <3>1, <1>4, <1>5, <1>7
  <2>2. CASE g # f
    BY <2>2, <1>12, <1>4, <1>5, <1>7, <1>10 DEF FilesInv
  <2> QED BY <2>1, <2>2
<1> QED
  BY <1>5, <1>6, <1>7, <1>8, <1>9, <1>11, <1>12 DEF FilesInv

\* unlink: a file in use loses its path and keeps its user, any other one goes.
LEMMA UnlinkStep ==
    ASSUME FilesInv, NEW path \in Paths, Unlink(path)
    PROVE  FilesInv'
<1>1. \A f \in FileIds :
         files'[f] = IF ~ (files[f].used /\ files[f].path = path) THEN files[f]
                     ELSE IF \E i \in Fds : Holds(i, f)
                     THEN [files[f] EXCEPT !.path = Unlinked]
                     ELSE NoFile
  <2>1. Fds \ {-1} = Fds
    BY FilesAssumption DEF Fds
  <2> QED BY <2>1 DEF Unlink, FileUnlinkPath, FileOf, FileHasRefs, Holds
<1>2. nodes' = nodes \ {path} /\ UNCHANGED <<pipes, fds>>
  BY DEF Unlink
<1>3. \A f \in FileIds :
         /\ files'[f] \in FileRecs
         /\ files'[f].used => /\ files[f].used /\ files'[f].len = files[f].len
                              /\ files'[f].data = files[f].data
         /\ (\E i \in Fds : Holds(i, f)) /\ files[f].used => files'[f].used
         /\ files'[f].used /\ files[f].path # path => files'[f].path = files[f].path
         /\ files'[f].used /\ files[f].path = path =>
               files'[f].path = Unlinked /\ \E i \in Fds : Holds(i, f)
  <2> TAKE f \in FileIds
  <2> DEFINE cut == [files[f] EXCEPT !.path = Unlinked]
  <2>1. files[f] \in FileRecs
    BY DEF FilesInv
  <2>2. /\ cut \in FileRecs /\ cut.path = Unlinked /\ cut.used = files[f].used
        /\ cut.len = files[f].len /\ cut.data = files[f].data
    BY <2>1 DEF FileRecs
  <2> HIDE DEF cut
  <2>3. CASE ~ (files[f].used /\ files[f].path = path)
    BY <1>1, <2>1, <2>3
  <2>4. CASE files[f].used /\ files[f].path = path /\ \E i \in Fds : Holds(i, f)
    <3>1. files'[f] = cut
      BY <1>1, <2>4 DEF cut
    <3> QED BY <3>1, <2>2, <2>4
  <2>5. CASE files[f].used /\ files[f].path = path /\ ~ \E i \in Fds : Holds(i, f)
    <3>1. files'[f] = NoFile
      BY <1>1, <2>5
    <3> QED BY <3>1, Blank, <2>5
  <2> QED BY <2>3, <2>4, <2>5
<1>4. files' \in [FileIds -> FileRecs]
  BY <1>3 DEF Unlink, FileUnlinkPath
<1>5. NothingBehindTheEnd'
  <2> SUFFICES ASSUME NEW f \in FileIds, NEW b \in Bytes, b >= files'[f].len
               PROVE  files'[f].data[b] = 0
    BY DEF NothingBehindTheEnd
  <2>1. CASE files'[f].data = files[f].data /\ files'[f].len = files[f].len
    BY <2>1, FilesParts DEF NothingBehindTheEnd
  <2>2. CASE files'[f] = NoFile
    BY <2>2, Blank
  <2>3. PICK r \in FileRecs : r = files[f]
    BY FilesParts
  <2>4. PICK q : q = [r EXCEPT !.path = Unlinked]
    OBVIOUS
  <2>5. q.data = r.data /\ q.len = r.len
    BY <2>4 DEF FileRecs
  <2>6. files'[f] = r \/ files'[f] = q \/ files'[f] = NoFile
    BY <1>1, <2>3, <2>4
  <2> QED BY <2>1, <2>2, <2>3, <2>5, <2>6
<1>6. \A fd \in Fds : fds[fd].kind = "VFS" => Holds(fd, fds[fd].file)
  BY DEF Holds
<1>7. \A fd \in Fds : fds'[fd].kind = "VFS" =>
         fds'[fd].file \in FileIds /\ files'[fds'[fd].file].used
  BY <1>2, <1>3, <1>6 DEF FilesInv
<1>8. \A f \in FileIds : files'[f].used =>
         IF files'[f].path = Unlinked THEN \E fd \in Fds : Holds(fd, f)'
         ELSE /\ files'[f].path \in nodes'
              /\ \A g \in FileIds : files'[g].used /\ files'[g].path = files'[f].path => g = f
  <2>1. \A fd \in Fds, f \in FileIds : Holds(fd, f)' <=> Holds(fd, f)
    BY <1>2 DEF Holds
  <2> QED BY <1>2, <1>3, <2>1 DEF FilesInv
<1>9. \A p \in PipeIds : pipes'[p].used <=> \E fd \in Fds : HasEnd(fd, p)'
  BY <1>2 DEF FilesInv, HasEnd
<1> QED BY <1>2, <1>4, <1>5, <1>7, <1>8, <1>9 DEF FilesInv
----------------------------------------------------------------------------
\* pipe: the two ends of a pipe that nobody had.
LEMMA PipeStep == ASSUME FilesInv, Pipe PROVE FilesInv'
<1> DEFINE p == Min({q \in PipeIds : ~ pipes[q].used})
           rfd == Min(FreeFds)
           wfd == Min(FreeFds \ {rfd})
           r == [NoFd EXCEPT !.kind = "PIPE_R", !.pipe = p]
           w == [NoFd EXCEPT !.kind = "PIPE_W", !.pipe = p]
           pipe == [used |-> TRUE, len |-> 0]
<1>1. FreeFds \subseteq Nat
  BY FilesAssumption DEF FreeFds, Fds
<1>2. rfd \in FreeFds
  <2>1. FreeFds # {}
    BY FS_EmptySet DEF Pipe
  <2> QED BY <1>1, <2>1, MinIn
<1>3. wfd \in FreeFds \ {rfd}
  <2>1. FreeFds # {rfd}
    <3>1. Cardinality(FreeFds) >= 2
      BY DEF Pipe
    <3>2. Cardinality({rfd}) = 1
      BY FS_Singleton
    <3> QED BY <3>1, <3>2
  <2>2. FreeFds \ {rfd} # {} /\ FreeFds \ {rfd} \subseteq Nat
    BY <1>1, <1>2, <2>1
  <2> HIDE DEF rfd
  <2> QED BY <2>2, MinIn
<1>4. p \in PipeIds /\ ~ pipes[p].used
  <2>1. {q \in PipeIds : ~ pipes[q].used} \subseteq Nat
    BY FilesAssumption DEF PipeIds
  <2> QED BY <2>1, MinIn DEF Pipe
<1>5. /\ r \in FdRecs /\ w \in FdRecs /\ pipe \in PipeRecs
      /\ r.kind = "PIPE_R" /\ w.kind = "PIPE_W" /\ r.pipe = p /\ w.pipe = p /\ pipe.used
  <2>1. 0 \in 0 .. Cap
    BY FilesAssumption
  <2> QED BY <1>4, <2>1, Blank DEF FdRecs, PipeRecs, PipeEnds
<1>6. /\ pipes' = [pipes EXCEPT ![p] = pipe]
      /\ fds' = [fds EXCEPT ![rfd] = r, ![wfd] = w]
      /\ UNCHANGED <<nodes, files>>
  BY DEF Pipe
<1> HIDE DEF p, rfd, wfd, r, w, pipe
<1>7. /\ rfd \in Fds /\ wfd \in Fds /\ rfd # wfd
      /\ fds[rfd].kind = "none" /\ fds[wfd].kind = "none"
  BY <1>2, <1>3 DEF FreeFds
<1>8. /\ fds' \in [Fds -> FdRecs] /\ fds'[rfd] = r /\ fds'[wfd] = w
      /\ \A i \in Fds \ {rfd, wfd} : fds'[i] = fds[i]
  BY <1>5, <1>6, <1>7 DEF FilesInv
<1>9. /\ pipes' \in [PipeIds -> PipeRecs] /\ pipes'[p] = pipe
      /\ \A q \in PipeIds \ {p} : pipes'[q] = pipes[q]
  BY <1>4, <1>5, <1>6 DEF FilesInv
<1>10. \A q \in PipeIds : pipes'[q].used <=> \E i \in Fds : HasEnd(i, q)'
  <2> TAKE q \in PipeIds
  <2>1. CASE q = p
    <3>1. fds'[rfd].kind \in PipeEnds /\ fds'[rfd].pipe = q
      BY <2>1, <1>5, <1>8 DEF PipeEnds
    <3>2. \E i \in Fds : HasEnd(i, q)'
      BY <3>1, <1>7 DEF HasEnd
    <3> QED BY <2>1, <3>2, <1>5, <1>9
  <2>2. CASE q # p
    <3>1. \A i \in Fds : HasEnd(i, q)' <=> HasEnd(i, q)
      BY <2>2, <1>5, <1>7, <1>8 DEF HasEnd, PipeEnds
    <3> QED BY <2>2, <3>1, <1>9 DEF FilesInv
  <2> QED BY <2>1, <2>2
<1>11. \A f \in FileIds : \A i \in Fds : Holds(i, f) => Holds(i, f)'
  BY <1>7, <1>8 DEF Holds
<1>12. \A i \in Fds : fds'[i].kind = "VFS" =>
          fds'[i].file \in FileIds /\ files'[fds'[i].file].used
  BY <1>5, <1>6, <1>8 DEF FilesInv
<1>13. NothingBehindTheEnd'
  BY <1>6 DEF FilesInv, NothingBehindTheEnd
<1> QED BY <1>6, <1>8, <1>9, <1>10, <1>11, <1>12, <1>13 DEF FilesInv

\* A descriptor is cleared and filled again, with nothing or with a copy of
\* another one: what only the old descriptor had goes, everything else stays.
LEMMA ReplaceStep ==
    ASSUME FilesInv, NEW fd \in Fds, NEW new \in FdRecs,
           FdClear(fd) \/ (fds[fd].kind = "none" /\ UNCHANGED <<files, pipes>>),
           fds' = [fds EXCEPT ![fd] = new], UNCHANGED nodes,
           new.kind = "VFS" => \E i \in Fds \ {fd} : Holds(i, new.file),
           new.kind \in PipeEnds => \E i \in Fds \ {fd} : HasEnd(i, new.pipe)
    PROVE  FilesInv'
<1> DEFINE f == fds[fd].file
           p == fds[fd].pipe
<1>1. p \in PipeIds
  BY DEF FilesInv, FdRecs
<1>2. /\ fds' \in [Fds -> FdRecs] /\ fds'[fd] = new
      /\ \A i \in Fds \ {fd} : fds'[i] = fds[i]
  BY DEF FilesInv
<1>3. \A q \in PipeIds :
         /\ pipes'[q] \in PipeRecs
         /\ (\E i \in Fds \ {fd} : HasEnd(i, q)) => pipes'[q] = pipes[q]
         /\ ~ (\E i \in Fds \ {fd} : HasEnd(i, q)) => ~ pipes'[q].used
  <2>1. CASE FdClear(fd)
    <3>1. pipes' = IF \E i \in Fds \ {fd} : HasEnd(i, p) THEN pipes
                   ELSE [pipes EXCEPT ![p] = NoPipe]
      BY <2>1 DEF FdClear, PipeInUse, HasEnd
    <3>2. \A q \in PipeIds : q # p => ~ HasEnd(fd, q)
      BY DEF HasEnd
    <3>3. pipes \in [PipeIds -> PipeRecs]
      BY FilesParts
    <3>4. \A q \in PipeIds : pipes[q].used <=> \E i \in Fds : HasEnd(i, q)
      BY DEF FilesInv
    <3> HIDE DEF p
    <3>5. CASE \E i \in Fds \ {fd} : HasEnd(i, p)
      BY <3>1, <3>2, <3>3, <3>4, <3>5
    <3>6. CASE ~ \E i \in Fds \ {fd} : HasEnd(i, p)
      <4>1. pipes'[p] = NoPipe /\ \A q \in PipeIds \ {p} : pipes'[q] = pipes[q]
        BY <1>1, <3>1, <3>3, <3>6
      <4> QED BY <3>2, <3>3, <3>4, <3>6, <4>1, Blank
    <3> QED BY <3>5, <3>6
  <2>2. CASE fds[fd].kind = "none" /\ UNCHANGED <<files, pipes>>
    <3>1. \A q \in PipeIds : ~ HasEnd(fd, q)
      BY <2>2 DEF HasEnd, PipeEnds
    <3> QED BY <2>2, <3>1 DEF FilesInv
  <2> QED BY <2>1, <2>2
<1>4. pipes' \in [PipeIds -> PipeRecs]
  <2>1. pipes \in [PipeIds -> PipeRecs] /\ NoPipe \in PipeRecs
    BY FilesParts, Blank
  <2>2. pipes' = pipes \/ pipes' = [pipes EXCEPT ![p] = NoPipe]
    BY DEF FdClear
  <2> QED BY <1>1, <2>1, <2>2
<1>5. \A q \in PipeIds : pipes'[q].used <=> \E i \in Fds : HasEnd(i, q)'
  <2> TAKE q \in PipeIds
  <2>1. \A i \in Fds \ {fd} : HasEnd(i, q)' <=> HasEnd(i, q)
    BY <1>2 DEF HasEnd
  <2>2. HasEnd(fd, q)' => \E i \in Fds \ {fd} : HasEnd(i, q)
    BY <1>2 DEF HasEnd
  <2> QED BY <2>1, <2>2, <1>3 DEF FilesInv
<1>6. \A g \in FileIds :
         \/ files'[g] = files[g] /\ (g = f /\ files[g].used /\ files[g].path = Unlinked
                                     => \E i \in Fds \ {fd} : Holds(i, g))
         \/ files'[g] = NoFile /\ ~ (\E i \in Fds \ {fd} : Holds(i, g))
  <2>1. CASE FdClear(fd)
    <3>1. files \in [FileIds -> FileRecs]
      BY FilesParts
    <3>2. files' = IF /\ f \in FileIds /\ files[f].used /\ files[f].path = Unlinked
                      /\ ~ \E i \in Fds \ {fd} : Holds(i, f)
                   THEN [files EXCEPT ![f] = NoFile] ELSE files
      BY <2>1 DEF FdClear, FileHasRefs, Holds
    <3> HIDE DEF f
    <3> QED BY <3>1, <3>2
  <2>2. CASE fds[fd].kind = "none" /\ UNCHANGED <<files, pipes>>
    <3>1. \A g \in FileIds : ~ Holds(fd, g)
      BY <2>2 DEF Holds
    <3> QED BY <2>2, <3>1 DEF FilesInv
  <2> QED BY <2>1, <2>2
<1>7. files' \in [FileIds -> FileRecs]
  <2>1. files \in [FileIds -> FileRecs] /\ NoFile \in FileRecs
    BY FilesParts, Blank
  <2>2. files' = files \/ (f \in FileIds /\ files' = [files EXCEPT ![f] = NoFile])
    BY DEF FdClear
  <2> QED BY <2>1, <2>2
<1>8. \A g \in FileIds : \A i \in Fds \ {fd} : Holds(i, g)' <=> Holds(i, g)
  BY <1>2 DEF Holds
<1>9. \A i \in Fds : fds'[i].kind = "VFS" =>
         fds'[i].file \in FileIds /\ files'[fds'[i].file].used
  <2> SUFFICES ASSUME NEW i \in Fds, fds'[i].kind = "VFS"
               PROVE  fds'[i].file \in FileIds /\ files'[fds'[i].file].used
    OBVIOUS
  <2>1. PICK j \in Fds \ {fd} : Holds(j, fds'[i].file)
    BY <1>2 DEF Holds
  <2>2. fds'[i].file \in FileIds /\ files[fds'[i].file].used
    BY <2>1 DEF Holds, FilesInv
  <2> QED BY <2>1, <2>2, <1>6
<1>10. ASSUME NEW g \in FileIds, files'[g].used
       PROVE  IF files'[g].path = Unlinked THEN \E i \in Fds : Holds(i, g)'
              ELSE /\ files'[g].path \in nodes'
                   /\ \A h \in FileIds :
                         files'[h].used /\ files'[h].path = files'[g].path => h = g
  <2>1. \A h \in FileIds : files'[h].used => files'[h] = files[h]
    BY <1>6, Blank
  <2>2. CASE files'[g].path = Unlinked
    <3>1. \E i \in Fds : Holds(i, g)
      BY <2>1, <2>2, <1>10 DEF FilesInv
    <3>2. g # f => ~ Holds(fd, g)
      BY DEF Holds
    <3>3. \E i \in Fds \ {fd} : Holds(i, g)
      BY <2>1, <2>2, <3>1, <3>2, <1>6, <1>10, Blank
    <3> QED BY <2>2, <3>3, <1>8
  <2>3. CASE files'[g].path # Unlinked
    BY <2>1, <2>3, <1>10 DEF FilesInv
  <2> QED BY <2>2, <2>3
<1>11. NothingBehindTheEnd'
  <2> SUFFICES ASSUME NEW g \in FileIds, NEW b \in Bytes, b >= files'[g].len
               PROVE  files'[g].data[b] = 0
    BY DEF NothingBehindTheEnd
  <2>1. CASE files'[g] = files[g]
    BY <2>1, FilesParts DEF NothingBehindTheEnd
  <2>2. CASE files'[g] = NoFile
    BY <2>2, Blank
  <2> QED BY <1>6, <2>1, <2>2
<1> QED BY <1>2, <1>4, <1>5, <1>7, <1>9, <1>10, <1>11 DEF FilesInv

\* close leaves a free descriptor.
LEMMA CloseStep == ASSUME FilesInv, NEW fd \in Fds, Close(fd) PROVE FilesInv'
<1>1. NoFd \in FdRecs /\ NoFd.kind = "none" /\ "none" \notin PipeEnds
  BY Blank DEF PipeEnds
<1> QED BY <1>1, ReplaceStep DEF Close

\* dup2 leaves a copy of a descriptor that keeps what it has.
LEMMA Dup2Step ==
    ASSUME FilesInv, NEW oldfd \in Fds, NEW newfd \in Fds, Dup2(oldfd, newfd)
    PROVE  FilesInv'
<1>1. fds[oldfd] \in FdRecs /\ oldfd \in Fds \ {newfd}
  BY DEF FilesInv, Dup2
<1>2. /\ fds[oldfd].kind = "VFS" => Holds(oldfd, fds[oldfd].file)
      /\ fds[oldfd].kind \in PipeEnds => HasEnd(oldfd, fds[oldfd].pipe)
  BY DEF Holds, HasEnd
<1>3. FdClear(newfd) \/ (fds[newfd].kind = "none" /\ UNCHANGED <<files, pipes>>)
  BY DEF Dup2, FreeFds
<1>4. fds' = [fds EXCEPT ![newfd] = fds[oldfd]] /\ UNCHANGED nodes
  BY DEF Dup2
<1> QED BY <1>1, <1>2, <1>3, <1>4, ReplaceStep
----------------------------------------------------------------------------
\* A later kernel_entry leaves what the first one did.
LEMMA FilesResetStep == FilesReset => FilesInv'
<1>1. FilesReset => FilesInit'
  BY DEF FilesReset, FilesInit
<1>2. FilesInit' => FilesInv'
  BY FilesInvInit, PTL
<1> QED BY <1>1, <1>2

\* Every call keeps the invariant.
LEMMA FilesInvNext == FilesInv /\ [FilesNext]_filesVars => FilesInv'
<1> SUFFICES ASSUME FilesInv, [FilesNext]_filesVars PROVE FilesInv'
  OBVIOUS
<1>1. CASE UNCHANGED filesVars
  BY <1>1 DEF filesVars, FilesInv, NothingBehindTheEnd, Holds, HasEnd
<1>2. CASE FilesNext
  BY <1>2, MkdirStep, OpenFileStep, OpenNewStep, UnlinkStep, ReadFileStep, WriteFileStep,
     PipeBytesStep, LseekStep, PipeStep, CloseStep, Dup2Step, FilesResetStep DEF FilesNext
<1> QED BY <1>1, <1>2

\* The tables of descriptors, files, paths and pipes agree in every reachable
\* state (syscall.c: open, close, dup2, unlink, pipe, read, write, lseek).
THEOREM FilesInvariant == FilesSpec => []FilesInv
BY FilesInvInit, FilesInvNext, PTL DEF FilesSpec

\* No descriptor is without its file, no path has two files, and no file is
\* leaked, for every number of descriptors, files and paths.
THEOREM FilesAlwaysAgree == FilesSpec => []FilesAgree
BY FilesInvariant, FilesInvMeans, PTL

\* A pipe is in use exactly while a descriptor has an end of it.
THEOREM PipesAlwaysAgree == FilesSpec => []PipesAgree
BY FilesInvariant, FilesInvMeans, PTL

\* The bytes behind the end of a file are zero, so a gap shows none of the bytes
\* of an earlier file.
THEOREM FilesEndInZeros == FilesSpec => []NothingBehindTheEnd
BY FilesInvariant, FilesInvMeans, PTL
----------------------------------------------------------------------------
Kept(f) == files'[f].path \in {files[f].path, Unlinked} /\ files'[f].len >= files[f].len

\* A file that is in use before and after a call keeps its path or loses it, and
\* does not shrink: only write changes a length, and only to a larger one.
LEMMA FileKept ==
    ASSUME FilesInv, FilesNext, NEW f \in FileIds, files[f].used, files'[f].used
    PROVE  Kept(f)
<1>1. files[f] \in FileRecs /\ files[f].len \in Nat
  BY FilesAssumption DEF FilesInv, FileRecs
<1>2. CASE files'[f] = files[f]
  BY <1>1, <1>2 DEF Kept
<1>3. ASSUME NEW path \in Paths, OpenNew(path) PROVE files'[f] = files[f]
  <2> DEFINE g == Min({h \in FileIds : ~ files[h].used})
  <2>1. {h \in FileIds : ~ files[h].used} \subseteq Nat
    BY FilesAssumption DEF FileIds
  <2>2. ~ files[g].used
    BY <2>1, <1>3, MinIn DEF OpenNew
  <2>3. g # f
    BY <2>2
  <2>4. files' = [files EXCEPT ![g] = [NoFile EXCEPT !.used = TRUE, !.path = path]]
    BY <1>3 DEF OpenNew, FileAlloc
  <2> HIDE DEF g
  <2> QED BY <2>3, <2>4 DEF FilesInv
<1>4. ASSUME NEW path \in Paths, Unlink(path) PROVE Kept(f)
  <2> DEFINE cut == [files[f] EXCEPT !.path = Unlinked]
  <2>1. cut.path = Unlinked /\ cut.len = files[f].len
    BY <1>1 DEF FileRecs
  <2>2. files'[f] \in {files[f], cut, NoFile}
    BY <1>4 DEF Unlink, FileUnlinkPath
  <2> HIDE DEF cut
  <2> QED BY <1>1, <2>1, <2>2, Blank DEF Kept
<1>5. ASSUME NEW fd \in Fds, NEW n \in 1 .. Cap, WriteFile(fd, n) PROVE Kept(f)
  <2> DEFINE g == fds[fd].file
             end == Offset(fd) + n
             len == files[g].len
             max == Max({len, end})
             data == Written(files[g].data, Offset(fd), n)
  <2>1. /\ files' = [files EXCEPT ![g] = [files[g] EXCEPT !.len = max, !.data = data]]
        /\ files \in [FileIds -> FileRecs]
    BY <1>5 DEF WriteFile, FilesInv
  <2>2. CASE f # g
    <3>1. files'[f] = files[f]
      <4> HIDE DEF g
      <4> QED BY <2>1, <2>2
    <3> QED BY <3>1, <1>2
  <2>3. CASE f = g
    <3>1. len \in Nat /\ end \in Nat
      BY <1>1, <2>3, OffsetNat
    <3>2. max >= len
      <4> HIDE DEF len, end
      <4> QED BY <3>1 DEF Max
    <3>3. files'[f].path = files[f].path /\ files'[f].len = max
      <4>1. PICK r \in FileRecs : r = files[f]
        BY <1>1
      <4> HIDE DEF max, data, g
      <4>2. PICK q : q = [r EXCEPT !.len = max, !.data = data]
        OBVIOUS
      <4>3. files'[f] = q
        BY <2>1, <2>3, <4>1, <4>2
      <4>4. q.path = r.path /\ q.len = max
        BY <4>2 DEF FileRecs
      <4> QED BY <4>1, <4>3, <4>4
    <3> QED BY <2>3, <3>2, <3>3 DEF Kept
  <2> QED BY <2>2, <2>3
<1>6. ASSUME NEW fd \in Fds, FdClear(fd) PROVE files'[f] = files[f]
  <2>1. PICK g : g = fds[fd].file
    OBVIOUS
  <2>2. files' = files \/ (g \in FileIds /\ files' = [files EXCEPT ![g] = NoFile])
    BY <1>6, <2>1 DEF FdClear
  <2>3. files \in [FileIds -> FileRecs]
    BY FilesParts
  <2> QED BY <2>2, <2>3, Blank
<1>7. ~ FilesReset
  BY Blank DEF FilesReset
<1> QED
  BY <1>2, <1>3, <1>4, <1>5, <1>6, <1>7
  DEF FilesNext, Mkdir, OpenFile, ReadFile, ReadPipe, WritePipe, Lseek, Pipe, Close, Dup2

\* A descriptor keeps its file as long as it is not closed or replaced: the file
\* does not go, change its path or shrink, however the path is unlinked, made
\* again and opened in between (syscall.c: file_unlink_path, fd_clear, open).
THEOREM OpenFilesStay == FilesSpec => OpenFileStays
<1> DEFINE Stays == \A fd \in Fds :
              LET f == fds[fd].file IN
              fds[fd].kind = "VFS" /\ fds'[fd].kind = "VFS" /\ fds'[fd].file = f =>
                 /\ files'[f].used
                 /\ files'[f].path \in {files[f].path, Unlinked}
                 /\ files'[f].len >= files[f].len
<1>1. FilesInv /\ FilesInv' /\ [FilesNext]_filesVars => [Stays]_filesVars
  <2> SUFFICES ASSUME FilesInv, FilesInv', FilesNext, NEW fd \in Fds,
                      fds[fd].kind = "VFS", fds'[fd].kind = "VFS",
                      fds'[fd].file = fds[fd].file
               PROVE  files'[fds[fd].file].used /\ Kept(fds[fd].file)
    BY DEF Kept
  <2>1. fds[fd].file \in FileIds /\ files[fds[fd].file].used /\ files'[fds[fd].file].used
    BY DEF FilesInv
  <2> QED BY <2>1, FileKept
<1>2. FilesInv /\ [FilesNext]_filesVars => FilesInv'
  BY FilesInvNext
<1> QED BY <1>1, <1>2, FilesInvariant, PTL DEF FilesSpec, OpenFileStays
----------------------------------------------------------------------------
Entries == [pid : Pids \cup {0}, ppid : Pids \cup {0},
            exited : BOOLEAN, stopped : BOOLEAN, code : Int,
            handlers : [Sigs -> Handlers],
            blocked : SUBSET Sigs, pending : SUBSET Sigs,
            postmortem : BOOLEAN]

\* What holds of every entry by itself.
Sound(p) ==
    /\ p.blocked \cap Unmaskable = {}
    /\ \A sig \in Sigs \cap Unmaskable : p.handlers[sig] = "DFL"
    /\ p.exited /\ p.stopped => p.postmortem

\* The inductive invariant.  The type of g_count follows from TableAgrees.
ProcInv ==
    /\ procs \in [PSlots -> Entries]
    /\ \A s \in PSlots : Sound(procs[s])
    /\ TableAgrees

\* What it says of one slot.
LEMMA SlotSound ==
    ASSUME ProcInv, NEW s \in PSlots PROVE procs[s] \in Entries /\ Sound(procs[s])
BY DEF ProcInv

\* How an entry may become another one of the same process: a pending SIGKILL
\* is used up by the end of the process.
KillKept(p, q) == SIGKILL \in p.pending /\ SIGKILL \notin q.pending => q.exited

\* The kinds of step.
TakeStep ==
    \E pid \in Pids, p \in Entries : p.pid = pid /\ Sound(p) /\ Take(pid, p)

ReleaseStep == \E s \in Used : Release(s)

UpdateStep ==
    \E s \in Used, p \in Entries :
        /\ p.pid = procs[s].pid
        /\ Sound(p)
        /\ KillKept(procs[s], p) \/ Exec(procs[s].pid)
        /\ Update(s, p)
----------------------------------------------------------------------------
\* The scans for a free slot, a zombie or a signal stop at the least match.
LEMMA MinIsLeast ==
    ASSUME NEW T, T \subseteq Nat, T # {}
    PROVE  Min(T) \in T /\ \A x \in T : Min(T) <= x
BY LeastSlot DEF Min

\* The table is finite.
LEMMA SlotsFinite ==
    /\ IsFiniteSet(PSlots)
    /\ Cardinality(PSlots) = ProcSlots
    /\ PSlots \subseteq Nat
<1>1. ProcSlots \in Nat \ {0} /\ PSlots = 0 .. ProcSlots - 1
  BY ProcAssumption DEF PSlots
<1>2. PSlots \subseteq Nat
  BY <1>1
<1>3. ProcSlots - 1 \in Int /\ 0 \in Int /\ ~ (0 > ProcSlots - 1)
  BY <1>1
<1>4. /\ IsFiniteSet(0 .. ProcSlots - 1)
      /\ Cardinality(0 .. ProcSlots - 1) = ProcSlots - 1 - 0 + 1
  BY <1>3, FS_Interval
<1>5. ProcSlots - 1 - 0 + 1 = ProcSlots
  BY <1>1
<1> QED BY <1>1, <1>2, <1>4, <1>5

\* An empty entry is sound.
LEMMA NewEntry ==
    ASSUME NEW pid \in Pids \cup {0}, NEW ppid \in Pids \cup {0},
           NEW handlers \in [Sigs -> Handlers], NEW blocked \in SUBSET Sigs,
           blocked \cap Unmaskable = {},
           \A sig \in Sigs \cap Unmaskable : handlers[sig] = "DFL"
    PROVE  /\ Entry(pid, ppid, handlers, blocked) \in Entries
           /\ Sound(Entry(pid, ppid, handlers, blocked))
           /\ Entry(pid, ppid, handlers, blocked).pid = pid
BY DEF Entry, Entries, Sound

\* So is the entry of a free slot.
LEMMA NoProcSound == NoProc \in Entries /\ Sound(NoProc) /\ NoProc.pid = 0
<1>1. AllDefault \in [Sigs -> Handlers] /\ \A sig \in Sigs : AllDefault[sig] = "DFL"
  BY DEF AllDefault, Handlers
<1> QED BY <1>1, NewEntry DEF NoProc

\* The state after qos_proc_reset.
LEMMA EmptyTable ==
    ASSUME NEW table, table = [s \in PSlots |-> NoProc]
    PROVE  /\ table \in [PSlots -> Entries]
           /\ \A s \in PSlots : table[s] = NoProc /\ Sound(table[s])
           /\ {s \in PSlots : table[s].pid # 0} = {}
BY NoProcSound
----------------------------------------------------------------------------
\* The table is empty after qos_proc_reset (proc.c:147-173), as at boot.
LEMMA ProcInvInit == ProcInit => ProcInv
<1> SUFFICES ASSUME ProcInit PROVE ProcInv
  OBVIOUS
<1>1. /\ procs \in [PSlots -> Entries]
      /\ \A s \in PSlots : procs[s] = NoProc /\ Sound(procs[s])
      /\ Used = {}
  BY EmptyTable DEF ProcInit, Used
<1>2. TableAgrees
  BY <1>1, FS_EmptySet DEF TableAgrees, ProcInit, Free
<1> QED BY <1>1, <1>2 DEF ProcInv

\* qos_proc_reset.
LEMMA ResetInv == ASSUME Reset PROVE ProcInv'
<1>1. /\ procs' \in [PSlots -> Entries]
      /\ \A s \in PSlots : procs'[s] = NoProc /\ Sound(procs'[s])
      /\ Used' = {}
  BY EmptyTable DEF Reset, Used
<1>2. TableAgrees'
  BY <1>1, FS_EmptySet DEF TableAgrees, Reset, Free
<1> QED BY <1>1, <1>2 DEF ProcInv

\* Taking a slot for a pid that is not in use (proc.c:175-252).
LEMMA TakeInv ==
    ASSUME ProcInv, NEW pid \in Pids, NEW p \in Entries, p.pid = pid, Sound(p),
           Take(pid, p)
    PROVE  ProcInv'
<1> DEFINE n == Min(Free)
<1>1. n \in Free /\ n \in PSlots /\ n \notin Used
  BY MinIsLeast, SlotsFinite DEF Take, Free
<1> HIDE DEF n
<1>2. procs' = [procs EXCEPT ![n] = p] /\ g_count' = g_count + 1 /\ At(pid) = {}
  BY DEF Take, n
<1>3. procs' \in [PSlots -> Entries] /\ \A s \in PSlots : Sound(procs'[s])
  BY <1>1, <1>2 DEF ProcInv
<1>4. pid # 0
  BY ProcAssumption
<1>5. Used' = Used \cup {n}
  BY <1>1, <1>2, <1>3, <1>4 DEF ProcInv, Used
<1>6. Cardinality(Used') = Cardinality(Used) + 1
  <2>1. IsFiniteSet(Used)
    BY SlotsFinite, FS_Subset DEF Used
  <2> QED BY <1>1, <1>5, <2>1, FS_AddElement
<1>7. \A s, t \in Used' : procs'[s].pid = procs'[t].pid => s = t
  BY <1>1, <1>2, <1>5 DEF ProcInv, TableAgrees, At, Used
<1>8. \A s \in Free' : procs'[s] = NoProc
  BY <1>1, <1>2, <1>5 DEF ProcInv, TableAgrees, Free
<1>9. g_count' = Cardinality(Used')
  BY <1>2, <1>6 DEF ProcInv, TableAgrees
<1> QED BY <1>3, <1>7, <1>8, <1>9 DEF ProcInv, TableAgrees

\* Releasing a used slot (proc.c:254-274).
LEMMA ReleaseInv ==
    ASSUME ProcInv, NEW r \in Used, Release(r)
    PROVE  ProcInv'
<1>1. r \in PSlots /\ procs' = [procs EXCEPT ![r] = NoProc] /\ g_count' = g_count - 1
  BY DEF Release, Used
<1>2. procs' \in [PSlots -> Entries] /\ \A s \in PSlots : Sound(procs'[s])
  BY <1>1, NoProcSound DEF ProcInv
<1>3. Used' = Used \ {r}
  BY <1>1, NoProcSound DEF ProcInv, Used
<1>4. Cardinality(Used') = Cardinality(Used) - 1
  <2>1. IsFiniteSet(Used)
    BY SlotsFinite, FS_Subset DEF Used
  <2> QED BY <1>3, <2>1, FS_RemoveElement
<1>5. \A s, t \in Used' : procs'[s].pid = procs'[t].pid => s = t
  BY <1>1, <1>3 DEF ProcInv, TableAgrees, Used
<1>6. \A s \in Free' : procs'[s] = NoProc
  BY <1>1, <1>3 DEF ProcInv, TableAgrees, Free
<1>7. g_count' = Cardinality(Used')
  BY <1>1, <1>4 DEF ProcInv, TableAgrees
<1> QED BY <1>2, <1>5, <1>6, <1>7 DEF ProcInv, TableAgrees

\* Replacing a used entry by a sound one with the same pid.
LEMMA UpdateInv ==
    ASSUME ProcInv, NEW u \in Used, NEW p \in Entries, p.pid = procs[u].pid, Sound(p),
           Update(u, p)
    PROVE  ProcInv'
<1>1. u \in PSlots /\ procs' = [procs EXCEPT ![u] = p] /\ g_count' = g_count
  BY DEF Update, Used
<1>2. procs' \in [PSlots -> Entries] /\ \A s \in PSlots : Sound(procs'[s])
  BY <1>1 DEF ProcInv
<1>3. \A s \in PSlots : procs'[s].pid = procs[s].pid
  BY <1>1 DEF ProcInv
<1>4. Used' = Used
  BY <1>3 DEF Used
<1>5. \A s \in Free' : procs'[s] = NoProc
  <2>1. procs \in [PSlots -> Entries] /\ \A s \in Free : procs[s] = NoProc
    BY DEF ProcInv, TableAgrees
  <2>2. Free' = Free /\ u \notin Free /\ Free \subseteq PSlots
    BY <1>4 DEF Free
  <2> QED BY <1>1, <2>1, <2>2
<1>6. \A s, t \in Used' : procs'[s].pid = procs'[t].pid => s = t
  <2>1. \A s, t \in Used : procs[s].pid = procs[t].pid => s = t
    BY DEF ProcInv, TableAgrees
  <2> QED BY <1>3, <1>4, <2>1 DEF Used
<1>7. g_count' = Cardinality(Used')
  BY <1>1, <1>4 DEF ProcInv, TableAgrees
<1> QED BY <1>2, <1>5, <1>6, <1>7 DEF ProcInv, TableAgrees
----------------------------------------------------------------------------
\* The default action of a signal (proc.c:533-555) keeps an entry sound,
\* clears no pending signal, and SIGKILL ends the process.
LEMMA DefaultEntry ==
    ASSUME NEW p \in Entries, Sound(p), NEW sig \in Sigs
    PROVE  /\ DefaultAction(p, sig) \in Entries
           /\ Sound(DefaultAction(p, sig))
           /\ DefaultAction(p, sig).pid = p.pid
           /\ DefaultAction(p, sig).pending = p.pending
           /\ sig = SIGKILL => DefaultAction(p, sig).exited
<1> DEFINE d == DefaultAction(p, sig)
           post == p.postmortem \/ p.exited
           touched == [p EXCEPT !.postmortem = post]
<1>1. PICK c \in Int : c = 128 + sig
  BY ProcAssumption
<1>2. post \in BOOLEAN /\ (p.exited => post)
  OBVIOUS
<1>3. CASE sig = SIGCHLD
  <2>1. d = p
    BY <1>3 DEF DefaultAction, SIGCHLD, SIGCONT, StopSigs, SIGSTOP
  <2> QED BY <1>3, <2>1 DEF SIGCHLD, SIGKILL
<1>4. CASE sig = SIGCONT \/ sig \in StopSigs
  <2>1. PICK stop \in BOOLEAN : d = [touched EXCEPT !.stopped = stop]
    <3>1. CASE sig = SIGCONT
      <4>1. d = [touched EXCEPT !.stopped = FALSE]
        BY <3>1 DEF DefaultAction, SIGCHLD, SIGCONT, StopSigs, SIGSTOP
      <4> QED BY <4>1, Zenon
    <3>2. CASE sig \in StopSigs
      <4>1. d = [touched EXCEPT !.stopped = TRUE]
        BY <3>2 DEF DefaultAction, SIGCHLD, SIGCONT, StopSigs, SIGSTOP
      <4> QED BY <4>1, Zenon
    <3> QED BY <1>4, <3>1, <3>2
  <2>2. sig # SIGKILL
    BY <1>4 DEF SIGCONT, StopSigs, SIGSTOP, SIGKILL
  <2>3. /\ d \in Entries /\ Sound(d) /\ d.pid = p.pid /\ d.pending = p.pending
        /\ d.exited = p.exited /\ d.code = p.code
    <3> HIDE DEF d, post
    <3>1. PICK q : q = touched
      OBVIOUS
    <3>2. /\ q \in Entries /\ q.pid = p.pid /\ q.pending = p.pending /\ q.code = p.code
          /\ q.exited = p.exited /\ q.stopped = p.stopped /\ q.postmortem = post
          /\ q.blocked = p.blocked /\ q.handlers = p.handlers
      BY <1>2, <3>1 DEF Entries
    <3>3. d = [q EXCEPT !.stopped = stop]
      BY <2>1, <3>1
    <3>4. /\ d \in Entries /\ d.pid = q.pid /\ d.pending = q.pending /\ d.code = q.code
          /\ d.exited = q.exited /\ d.postmortem = q.postmortem
          /\ d.blocked = q.blocked /\ d.handlers = q.handlers
      BY <3>2, <3>3 DEF Entries
    <3>5. Sound(d)
      BY <1>2, <3>2, <3>4 DEF Sound
    <3> QED BY <3>2, <3>4, <3>5
  <2> QED BY <2>2, <2>3, Zenon
<1>5. CASE sig # SIGCHLD /\ sig # SIGCONT /\ sig \notin StopSigs
  <2>1. d = [touched EXCEPT !.stopped = FALSE, !.exited = TRUE, !.code = c]
    BY <1>1, <1>5 DEF DefaultAction
  <2>2. /\ d \in Entries /\ Sound(d) /\ d.pid = p.pid /\ d.pending = p.pending
        /\ d.exited /\ (p.exited => d.postmortem)
    <3> HIDE DEF d, post
    <3>1. PICK q : q = touched
      OBVIOUS
    <3>2. /\ q \in Entries /\ q.pid = p.pid /\ q.pending = p.pending
          /\ q.postmortem = post /\ q.blocked = p.blocked /\ q.handlers = p.handlers
      BY <1>2, <3>1 DEF Entries
    <3>3. d = [q EXCEPT !.stopped = FALSE, !.exited = TRUE, !.code = c]
      BY <2>1, <3>1
    <3>4. /\ d \in Entries /\ d.pid = q.pid /\ d.pending = q.pending
          /\ d.exited /\ ~ d.stopped /\ d.postmortem = q.postmortem
          /\ d.blocked = q.blocked /\ d.handlers = q.handlers
      BY <3>2, <3>3 DEF Entries
    <3>5. Sound(d)
      BY <3>2, <3>4 DEF Sound
    <3> QED BY <1>2, <3>2, <3>4, <3>5
  <2> HIDE DEF d, post
  <2> QED BY <2>2 DEF d
<1> QED BY <1>3, <1>4, <1>5

\* Taking signals out of the pending set changes nothing else.
LEMMA FewerPending ==
    ASSUME NEW p \in Entries, Sound(p), NEW T
    PROVE  LET q == [p EXCEPT !.pending = @ \ T]
           IN  /\ q \in Entries /\ Sound(q) /\ q.pid = p.pid
               /\ q.pending = p.pending \ T
               /\ q.exited = p.exited /\ q.code = p.code
               /\ q.postmortem = p.postmortem
BY DEF Entries, Sound

\* qos_proc_signal_next (proc.c:495-531).  A pending SIGKILL is deliverable and
\* not ignored, so the scan stops at it or before it: it is cleared only when it
\* is the signal delivered.
LEMMA DeliveredEntry ==
    ASSUME NEW p \in Entries, Sound(p)
    PROVE  LET d == Delivered(p)
           IN  /\ d \in Entries
               /\ Sound(d)
               /\ d.pid = p.pid
               /\ KillKept(p, d)
<1> DEFINE deliverable == (p.pending \ p.blocked) \cup (p.pending \cap Unmaskable)
           wanted == {sig \in deliverable : p.handlers[sig] # "IGN"}
           sig == Min(wanted)
           cleared == {t \in deliverable : t <= sig}
           q == [p EXCEPT !.pending = @ \ cleared]
           d == Delivered(p)
<1>1. p.pending \subseteq Sigs /\ Sigs \subseteq Nat
  BY ProcAssumption DEF Entries
<1>2. SIGKILL \in p.pending => SIGKILL \in wanted
  BY <1>1 DEF Sound, Unmaskable
<1>3. CASE wanted = {}
  <2>1. d = [p EXCEPT !.pending = @ \ deliverable]
    BY <1>3 DEF Delivered
  <2> HIDE DEF deliverable
  <2> QED BY <1>2, <1>3, <2>1, FewerPending DEF KillKept
<1>4. CASE wanted # {}
  <2>1. wanted \subseteq Nat
    BY <1>1
  <2>2. sig \in wanted /\ \A x \in wanted : sig <= x
    <3> HIDE DEF wanted
    <3> QED BY <1>4, <2>1, MinIsLeast
  <2>3. sig \in Sigs /\ sig \in Nat
    BY <1>1, <2>2
  <2>4. d = IF p.handlers[sig] = "DFL" THEN DefaultAction(q, sig) ELSE q
    BY <1>4 DEF Delivered
  <2> HIDE DEF sig, d
  <2>5. SIGKILL \in p.pending /\ SIGKILL \in cleared => sig = SIGKILL
    BY <1>2, <2>2, <2>3 DEF SIGKILL
  <2>6. p.handlers[SIGKILL] = "DFL" \/ SIGKILL \notin Sigs
    BY DEF Sound, Unmaskable
  <2> HIDE DEF cleared
  <2>7. /\ q \in Entries /\ Sound(q) /\ q.pid = p.pid
        /\ q.pending = p.pending \ cleared
        /\ q.exited = p.exited /\ q.code = p.code /\ q.postmortem = p.postmortem
    BY FewerPending
  <2> HIDE DEF q, wanted, deliverable
  <2>8. CASE p.handlers[sig] = "DFL"
    <3>1. d = DefaultAction(q, sig)
      BY <2>4, <2>8
    <3>2. d \in Entries /\ Sound(d) /\ d.pid = p.pid /\ d.pending = p.pending \ cleared
      BY <2>3, <2>7, <3>1, DefaultEntry
    <3>3. sig = SIGKILL => d.exited
      BY <2>3, <2>7, <3>1, DefaultEntry
    <3>4. KillKept(p, d)
      BY <2>5, <3>2, <3>3 DEF KillKept
    <3> QED BY <3>2, <3>4 DEF d
  <2>9. CASE p.handlers[sig] # "DFL"
    <3>1. d = q
      BY <2>4, <2>9
    <3>2. sig # SIGKILL
      BY <2>3, <2>6, <2>9
    <3> QED BY <2>5, <2>7, <3>1, <3>2 DEF KillKept, d
  <2> QED BY <2>8, <2>9
<1> QED BY <1>3, <1>4
----------------------------------------------------------------------------
\* A pid that callers use names only used slots.
LEMMA AtUsed ==
    ASSUME NEW pid \in Pids, NEW s \in At(pid)
    PROVE  s \in Used /\ s \in PSlots /\ procs[s].pid = pid
BY ProcAssumption DEF At, Used

\* A step of the third kind, from its parts.
LEMMA UpdateStepIs ==
    ASSUME NEW s \in Used, NEW p \in Entries, p.pid = procs[s].pid, Sound(p),
           KillKept(procs[s], p) \/ Exec(procs[s].pid), Update(s, p)
    PROVE  UpdateStep
BY DEF UpdateStep

\* Creation, fork, reaping and exit (proc.c:175-361,385-401).
LEMMA LifecycleKinds ==
    ASSUME ProcInv, Lifecycle
    PROVE  TakeStep \/ ReleaseStep \/ UpdateStep \/ Reset
<1>1. CASE \E pid \in Pids, ppid \in Ppids : Create(pid, ppid)
  <2>1. PICK pid \in Pids, ppid \in Ppids : Create(pid, ppid)
    BY <1>1
  <2>2. AllDefault \in [Sigs -> Handlers] /\ \A sig \in Sigs : AllDefault[sig] = "DFL"
    BY DEF AllDefault, Handlers
  <2>3. ppid \in Pids \cup {0}
    BY ProcAssumption
  <2>4. /\ Entry(pid, ppid, AllDefault, {}) \in Entries
        /\ Sound(Entry(pid, ppid, AllDefault, {}))
        /\ Entry(pid, ppid, AllDefault, {}).pid = pid
    BY <2>2, <2>3, NewEntry
  <2> QED BY <2>1, <2>4 DEF Create, TakeStep
<1>2. CASE \E parent, pid \in Pids : Fork(parent, pid)
  <2>1. PICK parent \in Pids, pid \in Pids : Fork(parent, pid)
    BY <1>2
  <2>2. PICK s \in At(parent) :
            Take(pid, Entry(pid, parent, procs[s].handlers, procs[s].blocked))
    BY <2>1 DEF Fork
  <2> DEFINE e == Entry(pid, parent, procs[s].handlers, procs[s].blocked)
  <2>3. procs[s] \in Entries /\ Sound(procs[s])
    BY AtUsed DEF ProcInv
  <2>4. /\ procs[s].handlers \in [Sigs -> Handlers]
        /\ procs[s].blocked \in SUBSET Sigs
        /\ procs[s].blocked \cap Unmaskable = {}
        /\ \A sig \in Sigs \cap Unmaskable : procs[s].handlers[sig] = "DFL"
    BY <2>3 DEF Entries, Sound
  <2>5. e \in Entries /\ Sound(e) /\ e.pid = pid
    BY <2>4, NewEntry
  <2> QED BY <2>2, <2>5 DEF TakeStep
<1>3. CASE \E parent, pid \in Pids : WaitPid(parent, pid)
  BY <1>3, AtUsed DEF WaitPid, ReleaseStep
<1>4. CASE \E pid \in Pids : Remove(pid)
  BY <1>4, AtUsed DEF Remove, ReleaseStep
<1>5. CASE \E pid \in Pids : WaitAny(pid)
  <2>1. PICK pid \in Pids : WaitAny(pid)
    BY <1>5
  <2> DEFINE zombies == {s \in Used : procs[s].ppid = pid /\ procs[s].exited}
  <2>2. zombies # {} /\ Release(Min(zombies))
    BY <2>1 DEF WaitAny
  <2>3. zombies \subseteq Used /\ zombies \subseteq Nat
    BY SlotsFinite DEF Used
  <2>4. PICK z : z = zombies
    OBVIOUS
  <2> HIDE DEF zombies
  <2>5. z # {} /\ z \subseteq Nat /\ z \subseteq Used
    BY <2>2, <2>3, <2>4
  <2>6. Min(z) \in Used
    BY <2>5, MinIsLeast
  <2> QED BY <2>2, <2>4, <2>6 DEF ReleaseStep
<1>6. CASE \E pid \in Pids : Exec(pid)
  <2>1. PICK pid \in Pids : Exec(pid)
    BY <1>6
  <2>2. PICK s \in At(pid) :
            Update(s, [procs[s] EXCEPT
                !.handlers = [sig \in Sigs |-> IF @[sig] = "IGN" THEN "IGN" ELSE "DFL"],
                !.pending = {},
                !.blocked = @ \ Unmaskable])
    BY <2>1 DEF Exec
  <2>3. s \in Used /\ s \in PSlots /\ procs[s].pid = pid
    BY AtUsed
  <2>4. PICK p \in Entries : p = procs[s] /\ Sound(p)
    BY <2>3, SlotSound
  <2>5. PICK h : h = [sig \in Sigs |-> IF p.handlers[sig] = "IGN" THEN "IGN" ELSE "DFL"]
    OBVIOUS
  <2>6. PICK b : b = p.blocked \ Unmaskable
    OBVIOUS
  <2>7. PICK e : e = [p EXCEPT !.handlers = h, !.pending = {}, !.blocked = b]
    OBVIOUS
  <2>8. Update(s, e)
    BY <2>2, <2>4, <2>5, <2>6, <2>7
  <2>9. /\ h \in [Sigs -> Handlers] /\ b \in SUBSET Sigs /\ b \cap Unmaskable = {}
        /\ \A sig \in Sigs \cap Unmaskable : h[sig] = "DFL"
    <3>1. h \in [Sigs -> Handlers]
      BY <2>5 DEF Handlers
    <3>2. p.blocked \in SUBSET Sigs
      BY DEF Entries
    <3>3. \A sig \in Sigs \cap Unmaskable : p.handlers[sig] = "DFL"
      BY <2>4 DEF Sound
    <3>4. \A sig \in Sigs \cap Unmaskable : h[sig] = "DFL"
      BY <2>5, <3>3
    <3> QED BY <2>6, <3>1, <3>2, <3>4
  <2>10. /\ e \in Entries /\ e.pid = p.pid /\ e.exited = p.exited /\ e.stopped = p.stopped
         /\ e.postmortem = p.postmortem /\ e.code = p.code
         /\ e.handlers = h /\ e.blocked = b
    <3>1. PICK q : q = [p EXCEPT !.handlers = h]
      OBVIOUS
    <3>2. /\ q \in Entries /\ q.pid = p.pid /\ q.exited = p.exited /\ q.stopped = p.stopped
          /\ q.postmortem = p.postmortem /\ q.code = p.code /\ q.handlers = h
      BY <2>9, <3>1 DEF Entries
    <3>3. e = [q EXCEPT !.pending = {}, !.blocked = b]
      BY <2>7, <3>1
    <3>4. b \in SUBSET Sigs /\ {} \in SUBSET Sigs
      BY <2>9
    <3>5. e \in Entries
      BY <3>2, <3>3, <3>4 DEF Entries
    <3>6. /\ e.pid = q.pid /\ e.exited = q.exited /\ e.stopped = q.stopped
          /\ e.postmortem = q.postmortem /\ e.code = q.code
          /\ e.handlers = q.handlers /\ e.blocked = b
      BY <3>2, <3>3 DEF Entries
    <3> QED BY <3>2, <3>5, <3>6
  <2>11. Sound(e)
    BY <2>4, <2>9, <2>10 DEF Sound
  <2> QED BY <2>1, <2>3, <2>4, <2>8, <2>10, <2>11, UpdateStepIs
<1>7. CASE \E pid \in Pids, code \in Codes : Exit(pid, code)
  <2>1. PICK pid \in Pids, code \in Codes : Exit(pid, code)
    BY <1>7
  <2>2. PICK s \in At(pid) :
            /\ ~procs[s].exited
            /\ Update(s, [procs[s] EXCEPT !.exited = TRUE, !.stopped = FALSE, !.code = code])
    BY <2>1 DEF Exit
  <2>3. s \in Used /\ s \in PSlots /\ code \in Int
    BY AtUsed, ProcAssumption
  <2>4. PICK p \in Entries : p = procs[s] /\ Sound(p)
    BY <2>3, SlotSound
  <2>5. PICK e : e = [p EXCEPT !.exited = TRUE, !.stopped = FALSE, !.code = code]
    OBVIOUS
  <2>6. Update(s, e) /\ ~ p.exited
    BY <2>2, <2>4, <2>5
  <2>7. /\ e \in Entries /\ e.pid = p.pid /\ e.exited /\ ~ e.stopped
        /\ e.handlers = p.handlers /\ e.blocked = p.blocked
    BY <2>3, <2>5 DEF Entries
  <2>8. Sound(e) /\ KillKept(p, e)
    BY <2>4, <2>6, <2>7 DEF Sound, KillKept
  <2> QED BY <2>3, <2>4, <2>6, <2>7, <2>8, UpdateStepIs
<1> QED BY <1>1, <1>2, <1>3, <1>4, <1>5, <1>6, <1>7 DEF Lifecycle

\* A new mask without SIGKILL and SIGSTOP changes nothing else.
LEMMA MaskWritten ==
    ASSUME NEW p \in Entries, Sound(p), NEW mask \in SUBSET Sigs
    PROVE  LET d == [p EXCEPT !.blocked = mask \ Unmaskable]
           IN  /\ d \in Entries /\ Sound(d) /\ d.pid = p.pid
               /\ d.pending = p.pending /\ d.exited = p.exited
               /\ d.code = p.code /\ d.postmortem = p.postmortem
BY DEF Entries, Sound

\* Handlers, masks, sending and delivery (proc.c:436-585, and sigsuspend in
\* syscall.c) replace one entry.
LEMMA SignalKinds == ASSUME ProcInv, Signals PROVE UpdateStep
<1>1. PICK pid \in Pids :
        \/ \E sig \in Sigs, handler \in Installed : SetHandler(pid, sig, handler)
        \/ \E sig \in Sigs : Send(pid, sig)
        \/ \E sig \in Sigs : ApplyDefault(pid, sig)
        \/ \E mask \in Masks : SetMask(pid, mask)
        \/ \E mask \in Masks : SigSuspend(pid, mask)
        \/ SignalNext(pid)
  BY DEF Signals
<1>2. \A s \in At(pid) : s \in Used /\ procs[s] \in Entries /\ Sound(procs[s])
  BY AtUsed DEF ProcInv
<1>3. ASSUME NEW s \in At(pid), NEW e \in Entries, e.pid = procs[s].pid, Sound(e),
             KillKept(procs[s], e), Update(s, e)
      PROVE  UpdateStep
  BY <1>2, <1>3 DEF UpdateStep
<1>4. ASSUME NEW sig \in Sigs, NEW handler \in Installed, SetHandler(pid, sig, handler)
      PROVE  UpdateStep
  <2>1. PICK s \in At(pid) : Update(s, [procs[s] EXCEPT !.handlers[sig] = handler])
    BY <1>4 DEF SetHandler
  <2> DEFINE e == [procs[s] EXCEPT !.handlers[sig] = handler]
  <2>2. handler \in Handlers /\ (sig \in Unmaskable => handler = "DFL")
    BY <1>4, ProcAssumption DEF SetHandler
  <2>3. e \in Entries /\ e.pid = procs[s].pid
    BY <1>2, <2>2 DEF Entries
  <2>4. Sound(e) /\ KillKept(procs[s], e)
    BY <1>2, <2>2 DEF Entries, Sound, KillKept
  <2> HIDE DEF e
  <2>5. Update(s, e)
    BY <2>1 DEF e
  <2> QED BY <1>3, <2>3, <2>4, <2>5
<1>5. ASSUME NEW sig \in Sigs, Send(pid, sig)
      PROVE  UpdateStep
  <2>1. PICK s \in At(pid) : Update(s, [procs[s] EXCEPT !.pending = @ \cup {sig}])
    BY <1>5 DEF Send
  <2> DEFINE e == [procs[s] EXCEPT !.pending = @ \cup {sig}]
  <2>2. e \in Entries /\ e.pid = procs[s].pid
    BY <1>2 DEF Entries
  <2>3. Sound(e) /\ KillKept(procs[s], e)
    BY <1>2 DEF Entries, Sound, KillKept
  <2> HIDE DEF e
  <2>4. Update(s, e)
    BY <2>1 DEF e
  <2> QED BY <1>3, <2>2, <2>3, <2>4
<1>6. ASSUME NEW sig \in Sigs, ApplyDefault(pid, sig)
      PROVE  UpdateStep
  <2>1. PICK s \in At(pid) : Update(s, DefaultAction(procs[s], sig))
    BY <1>6 DEF ApplyDefault
  <2> DEFINE e == DefaultAction(procs[s], sig)
  <2>2. /\ e \in Entries /\ Sound(e) /\ e.pid = procs[s].pid
        /\ e.pending = procs[s].pending
    BY <1>2, DefaultEntry
  <2> HIDE DEF e
  <2>3. KillKept(procs[s], e)
    BY <2>2 DEF KillKept
  <2>4. Update(s, e)
    BY <2>1 DEF e
  <2> QED BY <1>3, <2>2, <2>3, <2>4
<1>7. ASSUME NEW mask \in Masks, SetMask(pid, mask)
      PROVE  UpdateStep
  <2>1. PICK s \in At(pid) : Update(s, [procs[s] EXCEPT !.blocked = mask \ Unmaskable])
    BY <1>7 DEF SetMask
  <2> DEFINE e == [procs[s] EXCEPT !.blocked = mask \ Unmaskable]
  <2>2. mask \in SUBSET Sigs
    BY ProcAssumption
  <2>3. /\ e \in Entries /\ Sound(e) /\ e.pid = procs[s].pid
        /\ e.pending = procs[s].pending /\ e.exited = procs[s].exited
        /\ e.code = procs[s].code
    BY <1>2, <2>2, MaskWritten
  <2> HIDE DEF e
  <2>4. KillKept(procs[s], e)
    BY <2>3 DEF KillKept
  <2>5. Update(s, e)
    BY <2>1 DEF e
  <2> QED BY <1>3, <2>3, <2>4, <2>5
<1>8. ASSUME NEW mask \in Masks, SigSuspend(pid, mask)
      PROVE  UpdateStep
  <2>1. PICK s \in At(pid) :
            LET q == Delivered([procs[s] EXCEPT !.blocked = mask \ Unmaskable])
            IN  Update(s, [q EXCEPT !.blocked = procs[s].blocked \ Unmaskable])
    BY <1>8 DEF SigSuspend
  <2> DEFINE m == [procs[s] EXCEPT !.blocked = mask \ Unmaskable]
             q == Delivered(m)
             e == [q EXCEPT !.blocked = procs[s].blocked \ Unmaskable]
  <2>2. mask \in SUBSET Sigs /\ procs[s].blocked \in SUBSET Sigs
    BY <1>2, ProcAssumption DEF Entries
  <2>3. /\ m \in Entries /\ Sound(m) /\ m.pid = procs[s].pid
        /\ m.pending = procs[s].pending /\ m.exited = procs[s].exited
        /\ m.code = procs[s].code
    BY <1>2, <2>2, MaskWritten
  <2>4. Update(s, e)
    BY <2>1
  <2> HIDE DEF m
  <2>5. q \in Entries /\ Sound(q) /\ q.pid = m.pid /\ KillKept(m, q)
    BY <2>3, DeliveredEntry
  <2> HIDE DEF q
  <2>6. /\ e \in Entries /\ Sound(e) /\ e.pid = q.pid
        /\ e.pending = q.pending /\ e.exited = q.exited
        /\ e.code = q.code /\ e.postmortem = q.postmortem
    BY <2>2, <2>5, MaskWritten
  <2> HIDE DEF e
  <2>7. KillKept(procs[s], e)
    BY <2>3, <2>5, <2>6 DEF KillKept
  <2> QED BY <1>3, <2>3, <2>4, <2>5, <2>6, <2>7
<1>9. ASSUME SignalNext(pid) PROVE UpdateStep
  <2>1. PICK s \in At(pid) : Update(s, Delivered(procs[s]))
    BY <1>9 DEF SignalNext
  <2> QED BY <1>2, <1>3, <2>1, DeliveredEntry
<1> QED BY <1>1, <1>4, <1>5, <1>6, <1>7, <1>8, <1>9
----------------------------------------------------------------------------
\* Every step keeps the invariant.
LEMMA ProcInvNext == ProcInv /\ [Next]_vars => ProcInv'
<1> SUFFICES ASSUME ProcInv, [Next]_vars PROVE ProcInv'
  OBVIOUS
<1>1. CASE TakeStep
  BY <1>1, TakeInv DEF TakeStep
<1>2. CASE ReleaseStep
  BY <1>2, ReleaseInv DEF ReleaseStep
<1>3. CASE UpdateStep
  BY <1>3, UpdateInv DEF UpdateStep
<1>4. CASE Reset
  BY <1>4, ResetInv
<1>5. CASE UNCHANGED vars
  BY <1>5 DEF vars, ProcInv, TableAgrees, Used, Free
<1> QED BY <1>1, <1>2, <1>3, <1>4, <1>5, LifecycleKinds, SignalKinds DEF Next

\* The table and its entries are consistent in every reachable state.
THEOREM ProcInvariant == Spec => []ProcInv
BY ProcInvInit, ProcInvNext, PTL DEF Spec

\* The entries and the count have their types; the count is bounded because it
\* is the number of used slots.
THEOREM ProcTypeCorrect == Spec => []TypeOK
<1>1. ProcInv => TypeOK
  <2> SUFFICES ASSUME ProcInv PROVE TypeOK
    OBVIOUS
  <2>1. Used \subseteq PSlots
    BY DEF Used
  <2>2. /\ Cardinality(Used) \in Nat
        /\ Cardinality(Used) <= ProcSlots
    BY <2>1, SlotsFinite, FS_Subset, FS_CardinalityType
  <2>3. g_count \in 0 .. ProcSlots
    BY <2>2, ProcAssumption DEF ProcInv, TableAgrees
  <2> QED BY <2>3 DEF ProcInv, TypeOK, Entries
<1> QED BY <1>1, ProcInvariant, PTL

\* A pid names one process, the count is the number of used slots and a free
\* slot carries nothing over (proc.c:175-274).
THEOREM ProcTableAgrees == Spec => []TableAgrees
<1>1. ProcInv => TableAgrees
  BY DEF ProcInv
<1> QED BY <1>1, ProcInvariant, PTL

\* SIGKILL and SIGSTOP are never caught, blocked or ignored (proc.c:41-43,
\* 385-401,436-465,577-585), whatever handlers and masks callers pass.
THEOREM ProcUnblockable == Spec => []UnblockableSignals
<1>1. ProcInv => UnblockableSignals
  <2> SUFFICES ASSUME ProcInv, NEW s \in PSlots PROVE Sound(procs[s])
    BY DEF Sound, UnblockableSignals
  <2> QED BY SlotSound
<1> QED BY <1>1, ProcInvariant, PTL

\* An exited process is stopped only if a default action was applied to it
\* after its exit (proc.c:310-319,533-555).
THEOREM ProcZombieNotStopped == Spec => []ZombieNotStopped
<1>1. ProcInv => ZombieNotStopped
  <2> SUFFICES ASSUME ProcInv, NEW s \in Used PROVE Sound(procs[s])
    BY DEF Sound, ZombieNotStopped
  <2> QED BY SlotSound DEF Used
<1> QED BY <1>1, ProcInvariant, PTL
----------------------------------------------------------------------------
\* What one step does to the entry of a used slot: the process goes, stays as it
\* is, or evolves.
LEMMA SlotStep ==
    ASSUME ProcInv, Next, NEW s \in Used
    PROVE  \/ procs'[s].pid = 0
           \/ procs'[s] = procs[s]
           \/ KillKept(procs[s], procs'[s])
           \/ Exec(procs[s].pid)
<1>0. s \in PSlots /\ procs \in [PSlots -> Entries]
  BY DEF Used, ProcInv
<1>1. CASE TakeStep
  <2>1. PICK p \in Entries : Free # {} /\ procs' = [procs EXCEPT ![Min(Free)] = p]
    BY <1>1 DEF TakeStep, Take
  <2>2. Min(Free) # s
    BY <2>1, MinIsLeast, SlotsFinite DEF Free
  <2> QED BY <1>0, <2>1, <2>2
<1>2. CASE ReleaseStep
  <2>1. PICK r \in Used : procs' = [procs EXCEPT ![r] = NoProc]
    BY <1>2 DEF ReleaseStep, Release
  <2> QED BY <1>0, <2>1, NoProcSound
<1>3. CASE UpdateStep
  <2>1. PICK u \in Used, p \in Entries :
            /\ KillKept(procs[u], p) \/ Exec(procs[u].pid)
            /\ procs' = [procs EXCEPT ![u] = p]
    BY <1>3 DEF UpdateStep, Update
  <2>2. CASE u = s
    <3>1. procs'[s] = p
      BY <1>0, <2>1, <2>2
    <3> QED BY <2>1, <2>2, <3>1
  <2>3. CASE u # s
    BY <1>0, <2>1, <2>3
  <2> QED BY <2>2, <2>3
<1>4. CASE Reset
  BY <1>0, <1>4, NoProcSound DEF Reset
<1> QED BY <1>1, <1>2, <1>3, <1>4, LifecycleKinds, SignalKinds DEF Next

\* A pending SIGKILL is used up only by the end of the process or by exec
\* (proc.c:385-401,495-531), for every set of handlers, masks and signals.
THEOREM ProcKillNotLost == Spec => KillNotLost
<1>1. ASSUME ProcInv, Next, NEW s \in Used,
             SIGKILL \in procs[s].pending, SIGKILL \notin procs'[s].pending
      PROVE  procs'[s].exited \/ procs'[s].pid = 0 \/ Exec(procs[s].pid)
  BY <1>1, SlotStep DEF KillKept
<1>2. ProcInv /\ [Next]_vars =>
        [\A s \in Used :
           /\ SIGKILL \in procs[s].pending
           /\ SIGKILL \notin procs'[s].pending
           => \/ procs'[s].exited
              \/ procs'[s].pid = 0
              \/ Exec(procs[s].pid)]_vars
  BY <1>1
<1> QED BY <1>2, ProcInvariant, PTL DEF Spec, KillNotLost
============================================================================
