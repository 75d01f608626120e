------------------------------ MODULE LinuxFiles ------------------------------
(***************************************************************************)
(* The POSIX half of the Linux system calls (src/src/x86sim-support/       *)
(* syscall-linux-posix.cpp): descriptors, files, pipes, sockets, time.     *)
(*                                                                         *)
(* The host kernel is external.  Of it the model keeps which host          *)
(* descriptors are open and which of them are the ends of which pipe; what *)
(* a host call answers (an errno, a count, a short count) is any answer it *)
(* may give.  Data is not modelled: a transfer is the number of units it   *)
(* moved.                                                                  *)
(***************************************************************************)
EXTENDS LinuxMemory

CONSTANTS HostFd,      \* host descriptors the process may have (RLIMIT_NOFILE)
          GuestFd,     \* guest descriptor numbers in use
          Pipe,        \* identities of host pipes
          MaxPath,     \* max_path_length, in units
          MayCloseAll  \* whether guests close their last descriptor

ASSUME DescriptorAssumption ==
  /\ HostFd \subseteq Nat /\ 0 .. 2 \subseteq HostFd
  /\ GuestFd \subseteq Nat /\ 0 .. 2 \subseteq GuestFd

VARIABLES fds,         \* fd_tables[1]: guest descriptor -> host descriptor
          host,        \* open host descriptors -> what they are
          pipe_map,    \* pipe_read_fd_for_write_fd
          io           \* the write or pwrite64 whose loop is running

fileVars == <<fds, host, pipe_map, io>>

Stdio == [g \in 0 .. 2 |-> g]

NoIo == [op |-> "none", fd |-> 0, address |-> 0, count |-> 0, total |-> 0, moved |-> 0]

FilesInit ==
  /\ fds = [g \in {} |-> 0]
  /\ host = [h \in 0 .. 2 |-> [kind |-> "tty", pipe |-> 0]]
  /\ pipe_map = [h \in {} |-> 0]
  /\ io = NoIo

(* fd_table: an empty table of process 1 gets the standard descriptors. *)
fd_table == IF DOMAIN fds = {} THEN Stdio ELSE fds

(* The lowest free numbers: dup, open, pipe and socket of the host, and    *)
(* next_guest_fd of the code.                                              *)
HostFree == HostFd \ DOMAIN host

NextHostFd == Lowest(HostFree)

NextGuestFd(minimum) == Lowest({g \in GuestFd : g >= minimum} \ DOMAIN fd_table)

HasGuestFd(minimum) == {g \in GuestFd : g >= minimum} \ DOMAIN fd_table # {}

ForgetWriteEnd(map, h) == Restrict(map, DOMAIN map \ {h})

(* forget_fd_wait_state: as the write end, and as the read end of others. *)
forget_fd_wait_state(map, h) == Restrict(map, {w \in DOMAIN map : w # h /\ map[w] # h})

copy_pipe_write_mapping(map, old, new) ==
  IF old \in DOMAIN map THEN With(map, new, map[old]) ELSE map

Without(f, x) == Restrict(f, DOMAIN f \ {x})

(* host_dirfd_for: AT_FDCWD or a descriptor of the table. *)
AtFdcwd == -100

DirOk(dir) == dir = AtFdcwd \/ dir \in DOMAIN fd_table

(* A call on descriptors that leaves the guest memory and its mappings. *)
FdCall(op, ret) == Returns(op, ret) /\ UNCHANGED memoryVars

(* The table is consulted, and so filled, but nothing is opened. *)
FdUnchanged == fds' = fd_table /\ UNCHANGED <<host, pipe_map, io>>

(* The host refuses with an errno of its own. *)
HostErrno == {"EIO"}

KeepReplaced(after, g) == after

(* install_fd closes what the guest descriptor g stood for. *)
CloseReplaced(after, g) ==
  IF g \in DOMAIN fd_table THEN Without(after, fd_table[g]) ELSE after

(* install_fd of a host descriptor that was just opened as what. *)
Install(op, new, what, g, map) ==
  LET closes == g \in DOMAIN fd_table
      after == With(host, new, what)
  IN  /\ FdCall(op, Value(g))
      /\ fds' = With(fd_table, g, new)
      /\ host' = CloseReplaced(after, g)
      /\ pipe_map' = IF closes THEN forget_fd_wait_state(map, fd_table[g]) ELSE map
      /\ UNCHANGED io

(* read_c_string copies the rest of each page and then looks for the end. *)
PathResult(address) ==
  LET chunkEnd(a) == IF (PageOf(a) + 1) * PageSize < address + MaxPath
                       THEN (PageOf(a) + 1) * PageSize ELSE address + MaxPath
      ends == {a \in DOMAIN as.mem : /\ address <= a /\ a < address + MaxPath
                                     /\ as.mem[a] = 0
                                     /\ address .. chunkEnd(a) - 1 \subseteq DOMAIN as.mem}
  IN  IF address = 0 THEN "EFAULT"
      ELSE IF ends # {} THEN "ok"
      ELSE IF AccessError(as, address, MaxPath) # "none" THEN "EFAULT"
      ELSE "ENAMETOOLONG"

(* SysRead and the read half of SysPreadPwrite: the host read comes first, *)
(* the copy to the guest after it, so an EFAULT loses what was read.       *)
SysRead(g, address, count, answer) ==
  /\ IF g \notin DOMAIN fd_table THEN FdCall("read", Error("EBADF"))
     ELSE IF range_overflows(address, count) THEN FdCall("read", Error("EFAULT"))
     ELSE IF answer \in HostErrno THEN FdCall("read", Error(answer))
     ELSE \E n \in 0 .. count :
            IF n = 0 THEN FdCall("read", Value(0))
            ELSE WritesGuest("read", address, n, 1, Value(n)) /\ UNCHANGED memoryVars
  /\ FdUnchanged

(* SysWrite, and SysPreadPwrite for pwrite64, up to the loop. *)
SysWrite(op, g, address, count) ==
  IF g \in DOMAIN fd_table /\ ~range_overflows(address, count) /\ count # 0
    THEN /\ io' = [op |-> op, fd |-> fd_table[g], address |-> address,
                   count |-> count, total |-> 0, moved |-> 0]
         /\ fds' = fd_table
         /\ current # NoSpace /\ total < MaxInsns
         /\ UNCHANGED <<host, pipe_map, memoryVars, machineVars>>
    ELSE /\ FdCall(op, IF g \notin DOMAIN fd_table THEN Error("EBADF")
                       ELSE IF range_overflows(address, count) THEN Error("EFAULT")
                       ELSE Value(0))
         /\ FdUnchanged

ErrorAnyway(e) == Error(e)

(* An error after the first chunk is reported as a short count. *)
ErrorOrShort(e) == IF io.total = 0 THEN Error(e) ELSE Value(io.total)

(* One turn of the loop: the part of the buffer on one page is read from   *)
(* the guest and offered to the host, which takes n units of it or fails.  *)
WriteChunk(n, answer) ==
  LET address == io.address + io.total
      left == io.count - io.total
      chunk == IF left < PageSize - (address % PageSize) THEN left
               ELSE PageSize - (address % PageSize)
      failure == AccessError(as, address, chunk)
      Ends(ret, m) == /\ SyscallReturns(as, {}, ret, Done(io.op, {}, m))
                      /\ io' = NoIo
      Stops(e) == Ends(ErrorOrShort(e), io.moved)
      written == io.total + n
  IN  /\ io.op # "none"
      /\ n <= chunk
      /\ IF failure # "none" THEN Stops(memory_error_to_linux(failure))
         ELSE IF answer \in HostErrno THEN Stops(answer)
         ELSE IF n < chunk \/ written = io.count THEN Ends(Value(written), io.moved + n)
         ELSE /\ io' = [io EXCEPT !.total = written, !.moved = @ + n]
              /\ UNCHANGED machineVars
      /\ UNCHANGED <<fds, host, pipe_map, memoryVars>>

(* SysReadlink: like read, of a path. *)
SysReadlink(dir, path, address, size, answer) ==
  /\ IF range_overflows(address, size) THEN FdCall("readlink", Error("EFAULT"))
     ELSE IF PathResult(path) # "ok" THEN FdCall("readlink", Error(PathResult(path)))
     ELSE IF ~DirOk(dir) THEN FdCall("readlink", Error("EBADF"))
     ELSE IF answer \in HostErrno THEN FdCall("readlink", Error(answer))
     ELSE \E n \in 0 .. size :
            WritesGuest("readlink", address, n, 1, Value(n)) /\ UNCHANGED memoryVars
  /\ FdUnchanged

(* SysOpen: path, flags and directory are tested before the host opens. *)
SysOpen(dir, path, flagsOk, answer) ==
  LET failure == IF PathResult(path) # "ok" THEN PathResult(path)
                 ELSE IF ~flagsOk THEN "EINVAL"
                 ELSE IF ~DirOk(dir) THEN "EBADF"
                 ELSE IF HostFree = {} THEN "EMFILE"
                 ELSE answer
  IN  IF failure # "ok" THEN FdCall("open", Error(failure)) /\ FdUnchanged
      ELSE /\ HasGuestFd(0)
           /\ Install("open", NextHostFd, [kind |-> "file", pipe |-> 0], NextGuestFd(0), pipe_map)

(* SysSocket: the domain and type are tested, and the new descriptor is    *)
(* closed again when its flags cannot be set.                              *)
SysSocket(typeOk, domainOk, answer) ==
  LET failure == IF ~typeOk THEN "EINVAL" ELSE IF ~domainOk THEN "EAFNOSUPPORT"
                 ELSE IF HostFree = {} THEN "EMFILE" ELSE answer
  IN  IF failure # "ok" THEN FdCall("socket", Error(failure)) /\ FdUnchanged
      ELSE /\ HasGuestFd(0)
           /\ Install("socket", NextHostFd, [kind |-> "socket", pipe |-> 0], NextGuestFd(0), pipe_map)

(* SysClose and close_guest_fd: the entry goes, whatever the host says. *)
SysClose(g, answer) ==
  IF g \notin DOMAIN fd_table THEN FdCall("close", Error("EBADF")) /\ FdUnchanged
  ELSE /\ MayCloseAll \/ DOMAIN fd_table # {g}
       /\ FdCall("close", IF answer \in HostErrno THEN Error(answer) ELSE Value(0))
       /\ fds' = Without(fd_table, g)
       /\ host' = Without(host, fd_table[g])
       /\ pipe_map' = forget_fd_wait_state(pipe_map, fd_table[g])
       /\ UNCHANGED io

(* SysPipe: both ends are installed, then their numbers are written to the *)
(* guest; if that fails both are closed again.                             *)
SysPipe(address, p) ==
  LET r == NextHostFd
      w == Lowest(HostFree \ {r})
      gr == NextGuestFd(0)
      gw == Lowest(GuestFd \ (DOMAIN fd_table \cup {gr}))
      failure == AccessError(as, address, 2)
  IN  IF address = 0 \/ range_overflows(address, 2)
        THEN FdCall("pipe", Error("EFAULT")) /\ FdUnchanged
      ELSE IF Cardinality(HostFree) < 2
        THEN FdCall("pipe", Error("EMFILE")) /\ FdUnchanged
      ELSE /\ Cardinality(GuestFd \ DOMAIN fd_table) >= 2
           /\ \A h \in DOMAIN host : host[h].pipe # p
           /\ WritesGuest("pipe", address, 2, 1, Value(0)) /\ UNCHANGED memoryVars
           /\ IF failure # "none" THEN FdUnchanged
              ELSE /\ fds' = With(With(fd_table, gw, w), gr, r)
                   /\ host' = With(With(host, w, [kind |-> "write_end", pipe |-> p]),
                                  r, [kind |-> "read_end", pipe |-> p])
                   /\ pipe_map' = With(pipe_map, w, r)
                   /\ UNCHANGED io

(* dup, dup2, dup3 and F_DUPFD of SysFcntl: the host duplicates first, the *)
(* duplicate is installed (closing what was there), and the pipe mapping   *)
(* of the original is copied last.                                         *)
Duplicate(op, g, target) ==
  LET h == fd_table[g]
      new == NextHostFd
      closes == target \in DOMAIN fd_table
      kept == IF closes THEN forget_fd_wait_state(pipe_map, fd_table[target]) ELSE pipe_map
      after == With(host, new, host[h])
  IN  /\ FdCall(op, Value(target))
      /\ fds' = With(fd_table, target, new)
      /\ host' = CloseReplaced(after, target)
      /\ pipe_map' = copy_pipe_write_mapping(kept, h, new)
      /\ UNCHANGED io

SysDup(op, g, arg, answer) ==
  IF g \notin DOMAIN fd_table THEN FdCall(op, Error("EBADF")) /\ FdUnchanged
  ELSE IF op = "dup3" /\ g = arg THEN FdCall(op, Error("EINVAL")) /\ FdUnchanged
  ELSE IF op = "dup2" /\ g = arg THEN FdCall(op, Value(arg)) /\ FdUnchanged
  ELSE IF HostFree = {} \/ fd_table[g] \notin DOMAIN host
    THEN FdCall(op, Error(IF HostFree = {} THEN "EMFILE" ELSE "EBADF")) /\ FdUnchanged
  ELSE IF op \in {"dup3", "dupfd"} /\ answer \in HostErrno   \* F_SETFD fails: closed again
    THEN FdCall(op, Error(answer)) /\ FdUnchanged
  ELSE CASE op = "dup" -> HasGuestFd(0) /\ Duplicate(op, g, NextGuestFd(0))
         [] op = "dupfd" -> HasGuestFd(arg) /\ Duplicate(op, g, NextGuestFd(arg))
         [] OTHER -> Duplicate(op, g, arg)

(* The calls that only pass a descriptor on: lseek, ioctl, fchdir,         *)
(* ftruncate, fchmod, and fcntl with F_GETFD, F_SETFD, F_GETFL, F_SETFL.   *)
SysOnFd(op, g, argOk, answer) ==
  /\ FdCall(op, IF g \notin DOMAIN fd_table THEN Error("EBADF")
                ELSE IF op = "ioctl" THEN Error("ENOTTY")
                ELSE IF ~argOk THEN Error("EINVAL")
                ELSE IF answer \in HostErrno THEN Error(answer)
                ELSE Value(0))
  /\ FdUnchanged

(* SysFcntl with F_GETLK, F_SETLK, F_SETLKW: the lock is read from the     *)
(* guest, and F_GETLK writes it back.                                      *)
SysLock(command, g, address, typeOk, answer) ==
  LET failure == IF g \notin DOMAIN fd_table THEN "EBADF"
                 ELSE IF address = 0 \/ AccessError(as, address, 2) # "none" THEN "EFAULT"
                 ELSE IF ~typeOk THEN "EINVAL"
                 ELSE IF answer \in HostErrno THEN answer ELSE "ok"
  IN  /\ IF failure # "ok" THEN FdCall(command, Error(failure))
         ELSE IF command = "getlk"
           THEN WritesGuest(command, address, 2, 1, Value(0)) /\ UNCHANGED memoryVars
         ELSE FdCall(command, Value(0))
      /\ FdUnchanged

(* SysFstat, and SysStat with a path: the host's answer is written out. *)
SysStat(op, g, path, address, flagsOk, answer) ==
  LET byPath == op = "stat"
      failure == IF ~flagsOk THEN "EINVAL"
                 ELSE IF byPath /\ PathResult(path) # "ok" THEN PathResult(path)
                 ELSE IF g \notin DOMAIN fd_table THEN "EBADF"
                 ELSE IF answer \in HostErrno THEN answer ELSE "ok"
  IN  /\ IF failure # "ok" THEN FdCall(op, Error(failure))
         ELSE WritesGuest(op, address, PageSize, 1, Value(0)) /\ UNCHANGED memoryVars
      /\ FdUnchanged

(* SysFileSystem: the calls on one path, and rename on two. *)
SysFileSystem(op, path1, path2, answer) ==
  LET failure == IF PathResult(path1) # "ok" THEN PathResult(path1)
                 ELSE IF op = "rename" /\ PathResult(path2) # "ok" THEN PathResult(path2)
                 ELSE answer
  IN  /\ FdCall(op, IF failure = "ok" THEN Value(0) ELSE Error(failure))
      /\ FdUnchanged

(* Its ...at calls look at the directory before the path, flags last. *)
SysFileSystemAt(op, dir, path1, path2, flagsOk, answer) ==
  LET failure == IF ~DirOk(dir) THEN "EBADF"
                 ELSE IF PathResult(path1) # "ok" THEN PathResult(path1)
                 ELSE IF op = "renameat" /\ PathResult(path2) # "ok" THEN PathResult(path2)
                 ELSE IF ~flagsOk THEN "EINVAL"
                 ELSE answer
  IN  /\ FdCall(op, IF failure = "ok" THEN Value(0) ELSE Error(failure))
      /\ FdUnchanged

(* SysGetdents64 duplicates the descriptor, opens the duplicate as a       *)
(* directory and closes it on every way out.                               *)
SysGetdents64(g, address, count, answer) ==
  LET failure == IF g \notin DOMAIN fd_table THEN "EBADF"
                 ELSE IF address = 0 \/ range_overflows(address, count) THEN "EFAULT"
                 ELSE IF HostFree = {} THEN "EMFILE"
                 ELSE answer
  IN  /\ IF failure # "ok" THEN FdCall("getdents64", Error(failure))
         ELSE \E n \in 0 .. count :
                IF n = 0 THEN FdCall("getdents64", Value(0))
                ELSE WritesGuest("getdents64", address, n, 1, Value(n)) /\ UNCHANGED memoryVars
      /\ FdUnchanged

(* SysConnect reads the address; a family it does not know is refused. *)
SysConnect(g, address, length, familyOk, answer) ==
  LET failure == IF g \notin DOMAIN fd_table THEN "EBADF"
                 ELSE IF address = 0 \/ length < 1 \/ AccessError(as, address, length) # "none"
                   THEN "EFAULT"
                 ELSE IF ~familyOk THEN "EAFNOSUPPORT"
                 ELSE answer
  IN  /\ FdCall("connect", IF failure = "ok" THEN Value(0) ELSE Error(failure))
      /\ FdUnchanged

(* SysSelect sleeps for the timeout and reports nothing ready; nanosleep   *)
(* does the same and insists on its argument.                              *)
SysSleep(op, address, valueOk) ==
  LET absent == address = 0
      failure == IF absent THEN IF op = "nanosleep" THEN "EFAULT" ELSE "ok"
                 ELSE IF AccessError(as, address, 2) # "none" THEN "EFAULT"
                 ELSE IF ~valueOk THEN "EINVAL" ELSE "ok"
  IN  /\ FdCall(op, IF failure = "ok" THEN Value(0) ELSE Error(failure))
      /\ UNCHANGED fileVars

(* gettimeofday and clock_gettime write their result if there is a place   *)
(* for it; getrusage ignores that the write failed.                        *)
SysTime(op, address) ==
  /\ IF address = 0
       THEN FdCall(op, IF op = "clock_gettime" THEN Error("EFAULT") ELSE Value(0))
     ELSE IF op = "getrusage" /\ AccessError(as, address, 2) # "none"
       THEN /\ BufferAllowed(address, 2)
            /\ SyscallReturns(write(as, address, 2, 0), {}, Value(0),
                              Done(op, {PageOf(a) : a \in Written(as, address, 2)}, 0))
            /\ UNCHANGED memoryVars
     ELSE WritesGuest(op, address, 2, 1, Value(0)) /\ UNCHANGED memoryVars
  /\ UNCHANGED fileVars
=============================================================================
