----------------------------- MODULE DeviceFiles -----------------------------
(***************************************************************************)
(* The pool of file descriptors of the Nios II HAL, with exclusive access: *)
(* alt_open.c, alt_close.c, alt_ioctl.c, alt_fcntl.c, alt_io_redirect.c    *)
(* and what they call.  The application's threads share the pool.  The     *)
(* search for a free descriptor and the granting of a lock each hold the   *)
(* semaphore alt_fd_list_lock; nothing else does, so an open proceeds in   *)
(* steps: claim a descriptor, set its flags, look at one descriptor after  *)
(* the other for a lock, call the driver.                                  *)
(*                                                                         *)
(* A name that no device or file system bears, and a full pool, make open  *)
(* return without having changed anything; such calls are not actions.     *)
(* This board's own build, direct drivers and one thread, compiles the     *)
(* pool away; Threads of one element is the HAL without an RTOS.           *)
(***************************************************************************)
EXTENDS Integers

CONSTANTS
    MAX_FD,                 \* ALT_MAX_FD
    Threads,
    Devices, FileSystems,   \* what is registered, /dev/null apart
    NullDevice, NoDevice    \* /dev/null; the null pointer

ASSUME PoolAssumption ==
    /\ MAX_FD \in Nat /\ MAX_FD > 3
    /\ Devices \cap FileSystems = {}
    /\ NullDevice \notin Devices \cup FileSystems
    /\ NoDevice \notin Devices \cup FileSystems \cup {NullDevice}

VARIABLES
    alt_fd_list,            \* the pool
    alt_max_fd,             \* its high-water mark
    boot,                   \* how many standard streams alt_main has redirected
    opened,                 \* the descriptors the application holds
    call,                   \* where each thread is inside open or close
    met                     \* history: the locks an open was met by when it
                            \* claimed, those given back since left out

vars == <<alt_fd_list, alt_max_fd, boot, opened, call, met>>

Fds == 0..MAX_FD - 1
Std == 0..2                 \* standard input, output and error

(* A descriptor: its device and, of its flags, ALT_FD_EXCL and ALT_FD_DEV. *)
(* The others, those of fcntl and the access mode, decide what read and    *)
(* write return and nothing here.                                          *)
Entry == [dev : Devices \cup FileSystems \cup {NullDevice, NoDevice},
          excl : BOOLEAN, isdev : BOOLEAN]
Unflagged(dev) == [dev |-> dev, excl |-> FALSE, isdev |-> FALSE]

(* next is the descriptor that alt_file_locked looks at.                   *)
Call == [at : {"idle", "flags", "scan", "device", "release"}, fd : Fds, next : Nat]
Idle == [at |-> "idle", fd |-> 0, next |-> 0]

TypeOK ==
    /\ alt_fd_list \in [Fds -> Entry]
    /\ alt_max_fd \in -1..MAX_FD - 1
    /\ boot \in 0..3
    /\ opened \subseteq Fds \ Std
    /\ call \in [Threads -> Call]
    /\ met \in [Threads -> SUBSET Fds]

Init ==
    /\ alt_fd_list = [i \in Fds |-> Unflagged(IF i \in Std THEN NullDevice ELSE NoDevice)]
    /\ alt_max_fd = -1
    /\ boot = 0
    /\ opened = {}
    /\ call = [t \in Threads |-> Idle]
    /\ met = [t \in Threads |-> {}]

-----------------------------------------------------------------------------
Free(i) == alt_fd_list[i].dev = NoDevice

FirstFree(i) == Free(i) /\ \A j \in Fds : j < i => ~Free(j)

Raised(i) == IF i > alt_max_fd THEN i ELSE alt_max_fd

(* alt_io_redirect, before main: each standard stream opens its device, is *)
(* made a copy of the descriptor it got, and gives that one back.  If the  *)
(* device is missing, or its open fails, the stream stays on /dev/null.    *)
StdOrder == [n \in 0..2 |-> CASE n = 0 -> 1 [] n = 1 -> 0 [] n = 2 -> 2]

RedirectTo(dev, ok) ==
    /\ boot < 3
    /\ boot' = boot + 1
    /\ \E i \in Fds : FirstFree(i) /\ alt_max_fd' = Raised(i)
    /\ LET std == StdOrder[boot]
       IN  alt_fd_list' =
             IF ok THEN [alt_fd_list EXCEPT ![std] =
                            [Unflagged(dev) EXCEPT !.isdev = dev \notin FileSystems]]
                   ELSE alt_fd_list
    /\ UNCHANGED <<opened, call, met>>

RedirectMissing ==
    /\ boot < 3
    /\ boot' = boot + 1
    /\ UNCHANGED <<alt_fd_list, alt_max_fd, opened, call, met>>

-----------------------------------------------------------------------------
(* open: claim the first free descriptor for the device.                   *)
OpenClaim(t, dev) ==
    /\ boot = 3 /\ call[t].at = "idle"
    /\ \E i \in Fds :
         /\ FirstFree(i)
         /\ alt_fd_list' = [alt_fd_list EXCEPT ![i].dev = dev]
         /\ alt_max_fd' = Raised(i)
         /\ call' = [call EXCEPT ![t] = [at |-> "flags", fd |-> i, next |-> 0]]
    /\ met' = [met EXCEPT ![t] =
                 {j \in Fds : alt_fd_list[j].excl /\ alt_fd_list[j].dev = dev}]
    /\ UNCHANGED <<boot, opened>>

(* open: set the flags; a file system's open needs no search for a lock.   *)
OpenFlags(t) ==
    /\ call[t].at = "flags"
    /\ LET i == call[t].fd
           isdev == alt_fd_list[i].dev \notin FileSystems
       IN  /\ alt_fd_list' = [alt_fd_list EXCEPT
                                ![i] = [dev |-> @.dev, excl |-> FALSE, isdev |-> isdev]]
           /\ call' = [call EXCEPT ![t].at = IF isdev THEN "scan" ELSE "device"]
    /\ UNCHANGED <<alt_max_fd, boot, opened, met>>

(* Mutant: the search stops short of the high-water mark.                  *)
OpenScanShort(t) ==
    /\ call[t].at = "scan"
    /\ LET i == call[t].fd
           j == call[t].next
       IN  IF j >= alt_max_fd
             THEN call' = [call EXCEPT ![t].at = "device", ![t].next = 0]
           ELSE IF j # i /\ alt_fd_list[j].excl /\ alt_fd_list[j].dev = alt_fd_list[i].dev
             THEN call' = [call EXCEPT ![t].at = "release", ![t].next = 0]
           ELSE call' = [call EXCEPT ![t].next = j + 1]
    /\ UNCHANGED <<alt_fd_list, alt_max_fd, boot, opened, met>>

(* open: alt_file_locked looks at one more descriptor, without semaphore;  *)
(* one locked on the same device makes the open fail.                      *)
OpenScan(t) ==
    /\ call[t].at = "scan"
    /\ LET i == call[t].fd
           j == call[t].next
       IN  IF j > alt_max_fd
             THEN call' = [call EXCEPT ![t].at = "device", ![t].next = 0]
           ELSE IF j # i /\ alt_fd_list[j].excl /\ alt_fd_list[j].dev = alt_fd_list[i].dev
             THEN call' = [call EXCEPT ![t].at = "release", ![t].next = 0]
           ELSE call' = [call EXCEPT ![t].next = j + 1]
    /\ UNCHANGED <<alt_fd_list, alt_max_fd, boot, opened, met>>

(* Mutant: a driver that refuses is not cleaned up after.                  *)
OpenDeviceLeaks(t) ==
    /\ call[t].at = "device"
    /\ \/ opened' = opened \cup {call[t].fd}
       \/ UNCHANGED opened
    /\ call' = [call EXCEPT ![t] = Idle]
    /\ met' = [met EXCEPT ![t] = {}]
    /\ UNCHANGED <<alt_fd_list, alt_max_fd, boot>>

(* open: the driver's own open, which may refuse.                          *)
OpenDevice(t) ==
    /\ call[t].at = "device"
    /\ \/ opened' = opened \cup {call[t].fd} /\ call' = [call EXCEPT ![t] = Idle]
       \/ call' = [call EXCEPT ![t].at = "release"] /\ UNCHANGED opened
    /\ met' = [met EXCEPT ![t] = {}]
    /\ UNCHANGED <<alt_fd_list, alt_max_fd, boot>>

(* close: the driver's own close, whose refusal is reported but changes    *)
(* nothing here.                                                           *)
Close(t, fd) ==
    /\ boot = 3 /\ call[t].at = "idle" /\ fd \in opened \cup Std
    /\ opened' = opened \ {fd}
    /\ call' = [call EXCEPT ![t].at = "release", ![t].fd = fd]
    /\ UNCHANGED <<alt_fd_list, alt_max_fd, boot, met>>

(* No open is met any longer by a lock that is given back.                 *)
Forget(fd) == met' = [t \in Threads |-> met[t] \ {fd}]

(* Mutant: the flags stay for whoever gets the descriptor next.            *)
ReleaseKeepsFlags(t) ==
    /\ call[t].at = "release"
    /\ IF call[t].fd \in Std
         THEN UNCHANGED <<alt_fd_list, met>>
         ELSE /\ alt_fd_list' = [alt_fd_list EXCEPT ![call[t].fd].dev = NoDevice]
              /\ Forget(call[t].fd)
    /\ call' = [call EXCEPT ![t] = Idle]
    /\ UNCHANGED <<alt_max_fd, boot, opened>>

(* alt_release_fd, at the end of close and of an open that failed.  The    *)
(* standard streams are never released: they keep device, flags and lock.  *)
Release(t) ==
    /\ call[t].at = "release"
    /\ IF call[t].fd \in Std
         THEN UNCHANGED <<alt_fd_list, met>>
         ELSE /\ alt_fd_list' = [alt_fd_list EXCEPT ![call[t].fd] = Unflagged(NoDevice)]
              /\ Forget(call[t].fd)
    /\ call' = [call EXCEPT ![t] = Idle]
    /\ UNCHANGED <<alt_max_fd, boot, opened>>

-----------------------------------------------------------------------------
(* Descriptors a thread may pass to a call.                                *)
Usable(t, fd) == boot = 3 /\ call[t].at = "idle" /\ fd \in opened \cup Std

(* ioctl TIOCEXCL: granted unless alt_fd_lock finds another descriptor of  *)
(* the device below the high-water mark.  Files go to their file system.   *)
LockGranted(fd) ==
    \A i \in 0..alt_max_fd - 1 : i # fd => alt_fd_list[i].dev # alt_fd_list[fd].dev

(* Mutant: the lock is granted whoever has the device open.                *)
LockUnseen(t, fd) ==
    /\ Usable(t, fd) /\ alt_fd_list[fd].isdev
    /\ alt_fd_list' = [alt_fd_list EXCEPT ![fd].excl = TRUE]
    /\ UNCHANGED <<alt_max_fd, boot, opened, call, met>>

Lock(t, fd) ==
    /\ Usable(t, fd) /\ alt_fd_list[fd].isdev
    /\ LockGranted(fd)
    /\ alt_fd_list' = [alt_fd_list EXCEPT ![fd].excl = TRUE]
    /\ UNCHANGED <<alt_max_fd, boot, opened, call, met>>

(* ioctl TIOCNXCL.                                                         *)
Unlock(t, fd) ==
    /\ Usable(t, fd) /\ alt_fd_list[fd].isdev
    /\ alt_fd_list' = [alt_fd_list EXCEPT ![fd].excl = FALSE]
    /\ Forget(fd)
    /\ UNCHANGED <<alt_max_fd, boot, opened, call>>

Next ==
    \/ RedirectMissing
    \/ \E dev \in Devices, ok \in BOOLEAN : RedirectTo(dev, ok)
    \/ \E t \in Threads :
         \/ \E dev \in Devices \cup FileSystems \cup {NullDevice} : OpenClaim(t, dev)
         \/ OpenFlags(t) \/ OpenScan(t)
         \/ OpenDevice(t)
         \/ Release(t)
         \/ \E fd \in opened \cup Std : Close(t, fd) \/ Lock(t, fd) \/ Unlock(t, fd)

Spec == Init /\ [][Next]_vars

-----------------------------------------------------------------------------
Inside(t) == call[t].at # "idle"
InUse == {fd \in Fds \ Std : ~Free(fd)}

(* Every search of the pool stops at the high-water mark, so a descriptor  *)
(* above it would be locked, or opened against a lock, unseen.             *)
WatermarkCovers == \A fd \in InUse : fd <= alt_max_fd

(* No open that fails at any of its steps keeps a descriptor, no two       *)
(* threads hold one between them, and none of those the application holds  *)
(* is given away: each descriptor in use has one owner.  The standard      *)
(* streams are everybody's.                                                *)
EachHasOneOwner ==
    /\ InUse = opened \cup ({call[t].fd : t \in {u \in Threads : Inside(u)}} \ Std)
    /\ \A t, u \in Threads :
          Inside(t) /\ Inside(u) /\ call[t].fd = call[u].fd /\ call[t].fd \notin Std => t = u
    /\ \A t \in Threads : Inside(t) => call[t].fd \notin opened

(* A lock can always be given back: only a descriptor that somebody still  *)
(* holds, or is just closing, locks its device; a descriptor that goes     *)
(* back to the pool takes no lock along to its next owner.                 *)
LocksHaveHolders ==
    \A fd \in Fds : alt_fd_list[fd].excl =>
        \/ fd \in opened \cup Std
        \/ \E t \in Threads : call[t].at = "release" /\ call[t].fd = fd

(* alt_fd_lock.c: once a lock is granted, "further calls to open() for     *)
(* this device will fail until the lock is released".  An open that found  *)
(* its device locked when it claimed a descriptor never gets past the      *)
(* search while that lock lasts, whatever is claimed, locked and closed    *)
(* between the steps of the search.                                        *)
LockedOpensFail ==
    [][\A t \in Threads :
          call[t].at = "scan" /\ call'[t].at = "device" => met[t] = {}]_vars

(* Two descriptors never hold a device exclusively at a time, although the *)
(* grant overlooks the descriptor at the mark and an open that was under   *)
(* way may have got past its search before the first lock was granted.     *)
OneLockPerDevice ==
    \A i, j \in Fds :
        (/\ alt_fd_list[i].excl /\ alt_fd_list[j].excl
         /\ alt_fd_list[i].dev = alt_fd_list[j].dev) => i = j
=============================================================================
