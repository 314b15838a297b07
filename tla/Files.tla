-------------------------------- MODULE Files --------------------------------
(***************************************************************************)
(* Files and pipes of c-os/kernel/syscall/syscall.c over the path table of  *)
(* c-os/kernel/fs/vfs.c.                                                    *)
(*                                                                         *)
(* A slot of the path table is only searched for its path, so the table is  *)
(* the set of existing paths; paths are valid and not below /proc (others   *)
(* are rejected).  A byte is 0 or a written 1.  Rejected calls, transfers   *)
(* of no bytes, and reads at the end change nothing and are no steps.       *)
(***************************************************************************)
EXTENDS Integers, FiniteSets, FiniteSetsExt

CONSTANTS Paths,
          VfsMaxNodes,    \* QOS_VFS_MAX_NODES
          FdMax,          \* QOS_FD_MAX
          FileMax,        \* QOS_FILE_MAX
          PipeMax,        \* QOS_PIPE_MAX
          Cap,            \* QOS_PIPE_CAP, of a file and of a pipe
          OffsetMod,      \* 2^32: an offset is cut to 32 bits when it is used
          Seeks           \* the offsets lseek is asked for

ASSUME FilesAssumption ==
    /\ {VfsMaxNodes, FdMax, FileMax} \subseteq Nat
    /\ {PipeMax, Cap} \subseteq Nat \ {0}
    /\ OffsetMod \in Nat /\ OffsetMod > Cap
    /\ Seeks \subseteq Nat
    /\ "unlinked" \notin Paths

VARIABLES nodes,          \* g_paths and g_used of vfs.c
          files,          \* the g_file_* arrays
          pipes,          \* the g_pipe_* arrays
          fds             \* the g_fd_* arrays

filesVars == <<nodes, files, pipes, fds>>

Fds == 0 .. FdMax - 1
FileIds == 0 .. FileMax - 1
PipeIds == 0 .. PipeMax - 1
Bytes == 0 .. Cap - 1

Unlinked == "unlinked"                    \* the empty path
NoFileId == FileMax                       \* UINT16_MAX
PipeEnds == {"PIPE_R", "PIPE_W"}

NoFile == [used |-> FALSE, path |-> Unlinked, len |-> 0, data |-> [b \in Bytes |-> 0]]
NoPipe == [used |-> FALSE, len |-> 0]
NoFd == [kind |-> "none", file |-> NoFileId, pipe |-> 0, offset |-> 0]

FreeFds == {fd \in Fds : fds[fd].kind = "none"}

FilesInit ==
    /\ nodes = {}
    /\ files = [f \in FileIds |-> NoFile]
    /\ pipes = [p \in PipeIds |-> NoPipe]
    /\ fds = [fd \in Fds |-> NoFd]
----------------------------------------------------------------------------
\* file_find
FileOf(path) == {f \in FileIds : files[f].used /\ files[f].path = path}

\* file_has_refs and pipe_in_use, fd aside
FileHasRefs(fd, f) == \E i \in Fds \ {fd} : fds[i].kind = "VFS" /\ fds[i].file = f
PipeInUse(fd, p) == \E i \in Fds \ {fd} : fds[i].kind \in PipeEnds /\ fds[i].pipe = p

\* file_alloc
FileAlloc(path) ==
    [files EXCEPT ![Min({f \in FileIds : ~ files[f].used})] =
        [NoFile EXCEPT !.used = TRUE, !.path = path]]

\* mkdir creates the path of a file, too
Mkdir(path) ==
    /\ path \notin nodes /\ Cardinality(nodes) < VfsMaxNodes
    /\ nodes' = nodes \cup {path}
    /\ UNCHANGED <<files, pipes, fds>>

\* open of a path that has a file
OpenFile(path) ==
    /\ path \in nodes /\ FreeFds # {} /\ FileOf(path) # {}
    /\ fds' = [fds EXCEPT ![Min(FreeFds)] =
                  [NoFd EXCEPT !.kind = "VFS", !.file = Min(FileOf(path))]]
    /\ UNCHANGED <<nodes, files, pipes>>

\* open of a path that has none yet
OpenNew(path) ==
    /\ path \in nodes /\ FreeFds # {} /\ FileOf(path) = {}
    /\ \E f \in FileIds : ~ files[f].used
    /\ files' = FileAlloc(path)
    /\ fds' = [fds EXCEPT ![Min(FreeFds)] =
                  [NoFd EXCEPT !.kind = "VFS",
                               !.file = Min({f \in FileIds : ~ files[f].used})]]
    /\ UNCHANGED <<nodes, pipes>>

\* Mutant: the file goes with its path, whoever has it open.
FileUnlinkPathAlways(path) ==
    [f \in FileIds |-> IF f \in FileOf(path) THEN NoFile ELSE files[f]]

\* file_unlink_path: a file that is open only loses its path
FileUnlinkPath(path) ==
    [f \in FileIds |->
        IF f \notin FileOf(path) THEN files[f]
        ELSE IF FileHasRefs(-1, f) THEN [files[f] EXCEPT !.path = Unlinked]
        ELSE NoFile]

\* unlink
Unlink(path) ==
    /\ path \in nodes
    /\ nodes' = nodes \ {path}
    /\ files' = FileUnlinkPath(path)
    /\ UNCHANGED <<pipes, fds>>
----------------------------------------------------------------------------
\* Where a read or a write starts
Offset(fd) == fds[fd].offset % OffsetMod

Written(data, at, n) == [b \in Bytes |-> IF b \in at .. at + n - 1 THEN 1 ELSE data[b]]

ReadFile(fd, n) ==
    /\ fds[fd].kind = "VFS" /\ files[fds[fd].file].used
    /\ n \in 1 .. files[fds[fd].file].len - Offset(fd)
    /\ fds' = [fds EXCEPT ![fd].offset = Offset(fd) + n]
    /\ UNCHANGED <<nodes, files, pipes>>

\* Mutant: the length grows by what is written, wherever it goes.
WriteFileLenByCount(fd, n) ==
    /\ fds[fd].kind = "VFS" /\ files[fds[fd].file].used
    /\ n \in 1 .. Cap - Offset(fd)
    /\ LET file == files[fds[fd].file] IN
       files' = [files EXCEPT ![fds[fd].file] = [file EXCEPT
          !.len = Min({file.len + n, Cap}),
          !.data = Written(@, Offset(fd), n)]]
    /\ fds' = [fds EXCEPT ![fd].offset = Offset(fd) + n]
    /\ UNCHANGED <<nodes, pipes>>

\* A write past the end leaves a gap of what is in the slot.
WriteFile(fd, n) ==
    /\ fds[fd].kind = "VFS" /\ files[fds[fd].file].used
    /\ n \in 1 .. Cap - Offset(fd)
    /\ LET file == files[fds[fd].file] IN
       files' = [files EXCEPT ![fds[fd].file] = [file EXCEPT
          !.len = Max({file.len, Offset(fd) + n}),
          !.data = Written(@, Offset(fd), n)]]
    /\ fds' = [fds EXCEPT ![fd].offset = Offset(fd) + n]
    /\ UNCHANGED <<nodes, pipes>>

\* lseek, whatever it counts from; it keeps all of the offset
Lseek(fd, offset) ==
    /\ fds[fd].kind = "VFS"
    /\ fds' = [fds EXCEPT ![fd].offset = offset]
    /\ UNCHANGED <<nodes, files, pipes>>

\* pipe; when there is one free descriptor it is taken and given back
Pipe ==
    /\ Cardinality(FreeFds) >= 2 /\ \E p \in PipeIds : ~ pipes[p].used
    /\ LET p == Min({q \in PipeIds : ~ pipes[q].used})
           rfd == Min(FreeFds)
           wfd == Min(FreeFds \ {rfd})
       IN  /\ pipes' = [pipes EXCEPT ![p] = [used |-> TRUE, len |-> 0]]
           /\ fds' = [fds EXCEPT ![rfd] = [NoFd EXCEPT !.kind = "PIPE_R", !.pipe = p],
                                 ![wfd] = [NoFd EXCEPT !.kind = "PIPE_W", !.pipe = p]]
    /\ UNCHANGED <<nodes, files>>

ReadPipe(fd, n) ==
    /\ fds[fd].kind = "PIPE_R" /\ pipes[fds[fd].pipe].used
    /\ n \in 1 .. pipes[fds[fd].pipe].len
    /\ pipes' = [pipes EXCEPT ![fds[fd].pipe].len = @ - n]
    /\ UNCHANGED <<nodes, files, fds>>

WritePipe(fd, n) ==
    /\ fds[fd].kind = "PIPE_W" /\ pipes[fds[fd].pipe].used
    /\ n \in 1 .. Cap - pipes[fds[fd].pipe].len
    /\ pipes' = [pipes EXCEPT ![fds[fd].pipe].len = @ + n]
    /\ UNCHANGED <<nodes, files, fds>>
----------------------------------------------------------------------------
\* Mutant: a pipe goes with either of its ends.
FdClearEitherEnd(fd) ==
    /\ pipes' = [pipes EXCEPT ![fds[fd].pipe] = NoPipe]
    /\ UNCHANGED files

\* Mutant: an unlinked file is never dropped.
FdClearLeak(fd) ==
    /\ pipes' = IF PipeInUse(fd, fds[fd].pipe) THEN pipes
                ELSE [pipes EXCEPT ![fds[fd].pipe] = NoPipe]
    /\ UNCHANGED files

\* fd_clear: the pipe of the descriptor (number 0 when it is no pipe) goes when
\* no other descriptor has an end of it, an unlinked file with its last descriptor
FdClear(fd) ==
    LET f == fds[fd].file
        p == fds[fd].pipe
    IN  /\ pipes' = IF PipeInUse(fd, p) THEN pipes ELSE [pipes EXCEPT ![p] = NoPipe]
        /\ files' = IF /\ f \in FileIds /\ files[f].used /\ files[f].path = Unlinked
                       /\ ~ FileHasRefs(fd, f)
                    THEN [files EXCEPT ![f] = NoFile]
                    ELSE files

\* close
Close(fd) ==
    /\ fd \notin FreeFds
    /\ FdClear(fd)
    /\ fds' = [fds EXCEPT ![fd] = NoFd]
    /\ UNCHANGED nodes

\* dup2: the copy has an offset of its own
Dup2(oldfd, newfd) ==
    /\ oldfd \notin FreeFds /\ oldfd # newfd
    /\ IF newfd \in FreeFds THEN UNCHANGED <<files, pipes>> ELSE FdClear(newfd)
    /\ fds' = [fds EXCEPT ![newfd] = fds[oldfd]]
    /\ UNCHANGED nodes

\* A later kernel_entry: qos_syscall_reset and vfs_init
FilesReset ==
    /\ nodes' = {}
    /\ files' = [f \in FileIds |-> NoFile]
    /\ pipes' = [p \in PipeIds |-> NoPipe]
    /\ fds' = [fd \in Fds |-> NoFd]
----------------------------------------------------------------------------
FilesNext ==
    \/ \E path \in Paths : Mkdir(path) \/ OpenFile(path) \/ OpenNew(path) \/ Unlink(path)
    \/ \E fd \in Fds, n \in 1 .. Cap :
          ReadFile(fd, n) \/ WriteFile(fd, n) \/ ReadPipe(fd, n) \/ WritePipe(fd, n)
    \/ \E fd \in Fds, offset \in Seeks : Lseek(fd, offset)
    \/ Pipe
    \/ \E fd \in Fds : Close(fd)
    \/ \E oldfd, newfd \in Fds : Dup2(oldfd, newfd)
    \/ FilesReset

FilesSpec == FilesInit /\ [][FilesNext]_filesVars
----------------------------------------------------------------------------
FilesTypeOK ==
    /\ nodes \subseteq Paths
    /\ files \in [FileIds -> [used : BOOLEAN, path : Paths \cup {Unlinked}, len : 0 .. Cap,
                              data : [Bytes -> {0, 1}]]]
    /\ pipes \in [PipeIds -> [used : BOOLEAN, len : 0 .. Cap]]
    /\ fds \in [Fds -> [kind : {"none", "VFS"} \cup PipeEnds, file : FileIds \cup {NoFileId},
                        pipe : PipeIds, offset : Nat]]

\* Descriptors, files and paths agree whatever was opened, copied, unlinked and
\* closed: a descriptor has a live file; a file that has a path is the only one
\* with that path and the path exists; a file that has lost its path lives only
\* as long as a descriptor of it (fd_clear and file_unlink_path neither drop a
\* file in use nor leak one).
FilesAgree ==
    /\ FilesTypeOK
    /\ \A fd \in Fds : fds[fd].kind = "VFS" =>
          fds[fd].file \in FileIds /\ files[fds[fd].file].used
    /\ \A f \in FileIds : files[f].used =>
          IF files[f].path = Unlinked
          THEN \E fd \in Fds : fds[fd].kind = "VFS" /\ fds[fd].file = f
          ELSE files[f].path \in nodes /\ FileOf(files[f].path) = {f}

\* A pipe is in use exactly while a descriptor has an end of it, so closing one
\* end, or a descriptor that is no pipe and carries pipe number 0, takes it from
\* nobody, and closing the last end leaks nothing.
PipesAgree ==
    \A p \in PipeIds :
       pipes[p].used <=> \E fd \in Fds : fds[fd].kind \in PipeEnds /\ fds[fd].pipe = p

\* No file has anything but zeros behind its end: a path that is unlinked and
\* made again, and a gap left by a write past the end, show no bytes of an
\* earlier file that had the slot.
NothingBehindTheEnd ==
    \A f \in FileIds : \A b \in Bytes : b >= files[f].len => files[f].data[b] = 0

\* While a descriptor stays, its file stays the same file: it never shrinks and
\* never gets another path, also when its path is unlinked and made again.
OpenFileStays ==
    [][\A fd \in Fds :
          LET f == fds[fd].file IN
          fds[fd].kind = "VFS" /\ fds'[fd].kind = "VFS" /\ fds'[fd].file = f =>
             /\ files'[f].used
             /\ files'[f].path \in {files[f].path, Unlinked}
             /\ files'[f].len >= files[f].len]_filesVars
============================================================================
