-------------------------- MODULE DeviceFiles_proof --------------------------
(***************************************************************************)
(* Theorems about DeviceFiles, for a pool of any size, any devices and any *)
(* number of threads.  The inductive invariant adds to the properties that *)
(* threads wait for the end of the boot, that a standard stream is never   *)
(* free, and what the flags of a descriptor say of its device.  What an    *)
(* open meets in its search is a second invariant, on top of it.           *)
(***************************************************************************)
EXTENDS DeviceFiles, TLAPS

BootAlone == boot < 3 =>
    /\ opened = {} /\ \A t \in Threads : ~Inside(t)
    /\ \A i \in Fds : ~alt_fd_list[i].excl

StdNeverFree == \A i \in Std : ~Free(i)

(* A stream that is a device was redirected, through a descriptor above.   *)
StdDevicesCovered == \A i \in Std : alt_fd_list[i].isdev => 3 <= alt_max_fd

DevicesOnlyLocked ==
    \A i \in Fds : /\ alt_fd_list[i].excl => alt_fd_list[i].isdev
                   /\ alt_fd_list[i].isdev => alt_fd_list[i].dev \notin FileSystems \cup {NoDevice}

Opening(t) == call[t].at \in {"flags", "scan", "device"}

OpensNotStd == \A t \in Threads : Opening(t) => call[t].fd \notin Std

IInv == /\ TypeOK /\ BootAlone /\ StdNeverFree /\ StdDevicesCovered
        /\ DevicesOnlyLocked /\ OpensNotStd
        /\ WatermarkCovers /\ EachHasOneOwner /\ LocksHaveHolders

LEMMA InitIInv == Init => IInv
  <1> SUFFICES ASSUME Init PROVE IInv  OBVIOUS
  <1> USE PoolAssumption DEF Init, Fds, Std, Unflagged, Idle
  <1>1. TypeOK  BY DEF TypeOK, Entry, Call
  <1>2. BootAlone /\ StdNeverFree /\ StdDevicesCovered /\ DevicesOnlyLocked /\ OpensNotStd
    BY DEF BootAlone, Inside, StdNeverFree, Free, StdDevicesCovered, DevicesOnlyLocked,
           OpensNotStd, Opening
  <1>3. InUse = {} /\ \A t \in Threads : ~Inside(t)  BY DEF InUse, Free, Inside
  <1>4. WatermarkCovers /\ EachHasOneOwner
    BY <1>3 DEF WatermarkCovers, EachHasOneOwner
  <1>5. LocksHaveHolders  BY DEF LocksHaveHolders
  <1>q. QED  BY <1>1, <1>2, <1>4, <1>5 DEF IInv

(* The first free descriptor is no standard stream, and the mark covers it *)
(* once it is raised.                                                      *)
LEMMA Claimed ==
    ASSUME IInv, NEW i \in Fds, FirstFree(i)
    PROVE  /\ i \notin Std /\ i \notin InUse /\ i \in 3..MAX_FD - 1
           /\ Raised(i) \in -1..MAX_FD - 1 /\ i <= Raised(i) /\ alt_max_fd <= Raised(i)
  BY PoolAssumption DEF IInv, TypeOK, StdNeverFree, FirstFree, Free, InUse, Fds, Std, Raised

LEMMA RedirectStep ==
    ASSUME IInv, NEW dev \in Devices, NEW ok \in BOOLEAN, RedirectTo(dev, ok)
    PROVE  IInv'
  <1> USE DEF IInv
  <1>1. PICK i \in Fds : FirstFree(i) /\ alt_max_fd' = Raised(i)
    BY DEF RedirectTo
  <1>2. /\ alt_max_fd' \in -1..MAX_FD - 1 /\ alt_max_fd' >= 3 /\ alt_max_fd' >= alt_max_fd
        /\ alt_max_fd \in -1..MAX_FD - 1
    BY <1>1, Claimed, PoolAssumption DEF TypeOK
  <1>3. /\ opened = {} /\ opened' = {} /\ call' = call /\ met' = met /\ boot' \in 0..3
        /\ \A t \in Threads : ~Inside(t)
        /\ \A j \in Fds : ~alt_fd_list[j].excl
    BY DEF RedirectTo, BootAlone, TypeOK
  <1>4. PICK std \in Std, e \in Entry :
          /\ e.dev # NoDevice /\ ~e.excl /\ (e.isdev => e.dev \notin FileSystems)
          /\ \/ alt_fd_list' = [alt_fd_list EXCEPT ![std] = e]
             \/ alt_fd_list' = alt_fd_list
    <2>1. StdOrder[boot] \in Std  BY DEF RedirectTo, TypeOK, StdOrder, Std
    <2>2. [Unflagged(dev) EXCEPT !.isdev = dev \notin FileSystems] \in Entry
      BY DEF Unflagged, Entry
    <2>q. QED  BY <2>1, <2>2, PoolAssumption DEF RedirectTo, Unflagged
  <1>5. Std \subseteq Fds  BY PoolAssumption DEF Fds, Std
  <1>6. TypeOK'
    <2>1. alt_fd_list' \in [Fds -> Entry]  BY <1>4, <1>5 DEF TypeOK
    <2>q. QED  BY <1>2, <1>3, <2>1 DEF TypeOK
  <1>7. \A j \in Fds : ~alt_fd_list'[j].excl  BY <1>3, <1>4, <1>5 DEF TypeOK
  <1>8. BootAlone' /\ OpensNotStd'
    BY <1>3, <1>7 DEF BootAlone, Inside, OpensNotStd, Opening
  <1>9. StdNeverFree' /\ StdDevicesCovered' /\ DevicesOnlyLocked'
    <2>1. StdNeverFree'  BY <1>4, <1>5 DEF StdNeverFree, Free, TypeOK
    <2>2. StdDevicesCovered'  BY <1>2 DEF StdDevicesCovered
    <2>3. DevicesOnlyLocked'  BY <1>4, <1>5, <1>7 DEF DevicesOnlyLocked, TypeOK
    <2>q. QED  BY <2>1, <2>2, <2>3
  <1>10. InUse' = InUse  BY <1>4, <1>5 DEF InUse, Free, TypeOK
  <1>11. WatermarkCovers'  BY <1>2, <1>10 DEF WatermarkCovers, InUse, Fds
  <1>12. EachHasOneOwner'  BY <1>3, <1>10 DEF EachHasOneOwner, Inside
  <1>13. LocksHaveHolders'  BY <1>7 DEF LocksHaveHolders
  <1>q. QED  BY <1>6, <1>8, <1>9, <1>11, <1>12, <1>13

LEMMA MissingStep ==
    ASSUME IInv, RedirectMissing
    PROVE  IInv'
  BY DEF IInv, RedirectMissing, TypeOK, BootAlone, Inside, StdNeverFree, Free,
         StdDevicesCovered, DevicesOnlyLocked, OpensNotStd, Opening,
         WatermarkCovers, InUse, EachHasOneOwner, LocksHaveHolders

LEMMA ClaimStep ==
    ASSUME IInv, NEW t \in Threads,
           NEW dev \in Devices \cup FileSystems \cup {NullDevice}, OpenClaim(t, dev)
    PROVE  IInv'
  <1> USE DEF IInv
  <1>1. PICK i \in Fds :
          /\ FirstFree(i)
          /\ alt_fd_list' = [alt_fd_list EXCEPT ![i].dev = dev]
          /\ alt_max_fd' = Raised(i)
          /\ call' = [call EXCEPT ![t] = [at |-> "flags", fd |-> i, next |-> 0]]
    BY DEF OpenClaim
  <1>2. /\ i \notin Std /\ i \notin InUse /\ i <= alt_max_fd' /\ alt_max_fd <= alt_max_fd'
        /\ alt_max_fd' \in -1..MAX_FD - 1 /\ alt_max_fd \in -1..MAX_FD - 1 /\ MAX_FD \in Nat
    BY <1>1, Claimed, PoolAssumption DEF TypeOK
  <1>3. boot = 3 /\ boot' = 3 /\ opened' = opened /\ ~Inside(t)
    BY DEF OpenClaim, Inside
  <1>4. dev # NoDevice  BY PoolAssumption
  <1>5. /\ alt_fd_list'[i] = [alt_fd_list[i] EXCEPT !.dev = dev]
        /\ \A j \in Fds \ {i} : alt_fd_list'[j] = alt_fd_list[j]
    BY <1>1 DEF TypeOK
  <1>6. TypeOK'
    <2>1. [alt_fd_list[i] EXCEPT !.dev = dev] \in Entry  BY DEF TypeOK, Entry
    <2>2. alt_fd_list' \in [Fds -> Entry]  BY <1>1, <2>1 DEF TypeOK
    <2>3. call' \in [Threads -> Call]  BY <1>1 DEF TypeOK, Call
    <2>4. met' \in [Threads -> SUBSET Fds]  BY DEF OpenClaim, TypeOK
    <2>q. QED  BY <1>2, <1>3, <2>2, <2>3, <2>4 DEF TypeOK
  <1>7. BootAlone' /\ OpensNotStd'
    BY <1>1, <1>2, <1>3 DEF BootAlone, OpensNotStd, Opening, TypeOK
  <1>8. StdNeverFree'  BY <1>2, <1>5, PoolAssumption DEF StdNeverFree, Free, Std, Fds
  <1>9. StdDevicesCovered' /\ DevicesOnlyLocked'
    <2>1. \A j \in Std : alt_fd_list'[j] = alt_fd_list[j]
      BY <1>2, <1>5, PoolAssumption DEF Std, Fds
    <2>2. StdDevicesCovered'  BY <1>2, <2>1 DEF StdDevicesCovered
    <2>3. ~alt_fd_list[i].isdev /\ ~alt_fd_list[i].excl
      BY <1>1 DEF DevicesOnlyLocked, FirstFree, Free
    <2>4. ~alt_fd_list'[i].isdev /\ ~alt_fd_list'[i].excl
      BY <1>5, <2>3 DEF TypeOK, Entry
    <2>5. DevicesOnlyLocked'  BY <1>5, <2>4 DEF DevicesOnlyLocked
    <2>q. QED  BY <2>2, <2>5
  <1>10. InUse' = InUse \cup {i}
    <2>1. ~Free(i)'  BY <1>4, <1>5 DEF Free, TypeOK, Entry
    <2>2. \A j \in Fds \ {i} : Free(j)' <=> Free(j)  BY <1>5 DEF Free
    <2>q. QED  BY <1>2, <2>1, <2>2 DEF InUse
  <1>11. WatermarkCovers'  BY <1>2, <1>10 DEF WatermarkCovers, InUse, Fds
  <1>12. EachHasOneOwner'
    <2>1. /\ Inside(t)' /\ call'[t].fd = i
          /\ \A u \in Threads \ {t} : call'[u] = call[u]
      BY <1>1 DEF Inside, TypeOK
    <2>2. /\ \A u \in Threads : Inside(u) => call[u].fd \in InUse \cup Std
          /\ opened \subseteq InUse
      BY DEF EachHasOneOwner
    <2>3. \A u \in Threads \ {t} : Inside(u)' <=> Inside(u)  BY <2>1 DEF Inside
    <2>q. QED  BY <1>2, <1>3, <1>10, <2>1, <2>2, <2>3 DEF EachHasOneOwner
  <1>13. LocksHaveHolders'
    <2> SUFFICES ASSUME NEW fd \in Fds, alt_fd_list'[fd].excl
                 PROVE  \/ fd \in opened' \cup Std
                        \/ \E u \in Threads : call'[u].at = "release" /\ call'[u].fd = fd
      BY DEF LocksHaveHolders
    <2>1. alt_fd_list[fd].excl  BY <1>5 DEF TypeOK, Entry
    <2>2. CASE fd \in opened \cup Std  BY <1>3, <2>2
    <2>3. CASE \E u \in Threads : call[u].at = "release" /\ call[u].fd = fd
      <3>1. PICK u \in Threads : call[u].at = "release" /\ call[u].fd = fd  BY <2>3
      <3>2. u # t  BY <1>3, <3>1 DEF Inside
      <3>q. QED  BY <1>1, <3>1, <3>2 DEF TypeOK
    <2>q. QED  BY <2>1, <2>2, <2>3 DEF LocksHaveHolders
  <1>q. QED  BY <1>6, <1>7, <1>8, <1>9, <1>11, <1>12, <1>13

(* What a step keeps when it changes neither who holds a descriptor nor    *)
(* which are free.                                                         *)
LEMMA SameOwners ==
    ASSUME IInv, opened' = opened, alt_max_fd' = alt_max_fd, boot' = boot,
           \A u \in Threads : call'[u].fd = call[u].fd /\ (Inside(u)' <=> Inside(u)),
           \A i \in Fds : alt_fd_list'[i].dev = alt_fd_list[i].dev,
           boot = 3
    PROVE  BootAlone' /\ StdNeverFree' /\ WatermarkCovers' /\ EachHasOneOwner'
  <1> USE DEF IInv
  <1>1. \A i \in Fds : Free(i)' <=> Free(i)  BY DEF Free
  <1>2. InUse' = InUse  BY <1>1 DEF InUse
  <1>3. BootAlone'  BY DEF BootAlone
  <1>4. StdNeverFree'  BY <1>1, PoolAssumption DEF StdNeverFree, Std, Fds
  <1>5. WatermarkCovers'  BY <1>2 DEF WatermarkCovers
  <1>6. EachHasOneOwner'  BY <1>2 DEF EachHasOneOwner
  <1>q. QED  BY <1>3, <1>4, <1>5, <1>6

LEMMA InsideBooted ==
    ASSUME IInv, NEW t \in Threads, Inside(t)
    PROVE  boot = 3
  BY DEF IInv, BootAlone, TypeOK

LEMMA FlagsStep ==
    ASSUME IInv, NEW t \in Threads, OpenFlags(t)
    PROVE  IInv'
  <1> USE DEF IInv
  <1> DEFINE i == call[t].fd
             isdev == alt_fd_list[i].dev \notin FileSystems
  <1>1. PICK at \in {"scan", "device"} : call' = [call EXCEPT ![t].at = at]
    BY DEF OpenFlags
  <1>2. /\ call[t].at = "flags" /\ i \in Fds /\ i \notin Std /\ Inside(t)
        /\ opened' = opened /\ alt_max_fd' = alt_max_fd /\ boot' = boot /\ met' = met
    BY DEF OpenFlags, TypeOK, OpensNotStd, Opening, Inside, Call
  <1>3. i \in InUse /\ boot = 3  BY <1>2, InsideBooted DEF EachHasOneOwner
  <1>4. /\ alt_fd_list'[i] = [dev |-> alt_fd_list[i].dev, excl |-> FALSE, isdev |-> isdev]
        /\ \A j \in Fds \ {i} : alt_fd_list'[j] = alt_fd_list[j]
    BY <1>2 DEF OpenFlags, TypeOK
  <1>5. TypeOK'
    <2>1. [dev |-> alt_fd_list[i].dev, excl |-> FALSE, isdev |-> isdev] \in Entry
      BY <1>2 DEF TypeOK, Entry
    <2>2. alt_fd_list' \in [Fds -> Entry]  BY <1>2, <2>1 DEF TypeOK, OpenFlags
    <2>3. call' \in [Threads -> Call]  BY <1>1 DEF TypeOK, Call
    <2>q. QED  BY <1>2, <2>2, <2>3 DEF TypeOK
  <1>6. /\ call'[t].at = at /\ call'[t].fd = call[t].fd
        /\ \A u \in Threads \ {t} : call'[u] = call[u]
    BY <1>1 DEF TypeOK, Call
  <1>7. \A u \in Threads : call'[u].fd = call[u].fd /\ (Inside(u)' <=> Inside(u))
    BY <1>2, <1>6 DEF Inside
  <1>8. /\ \A j \in Fds : alt_fd_list'[j].dev = alt_fd_list[j].dev
        /\ ~alt_fd_list'[i].excl /\ alt_fd_list'[i].isdev = isdev
    BY <1>2, <1>4 DEF TypeOK, Entry
  <1>9. BootAlone' /\ StdNeverFree' /\ WatermarkCovers' /\ EachHasOneOwner'
    BY <1>2, <1>3, <1>7, <1>8, SameOwners
  <1>10. StdDevicesCovered' /\ DevicesOnlyLocked' /\ OpensNotStd'
    <2>1. \A j \in Std : alt_fd_list'[j] = alt_fd_list[j]
      BY <1>2, <1>4, PoolAssumption DEF Std, Fds
    <2>2. StdDevicesCovered'  BY <1>2, <2>1 DEF StdDevicesCovered
    <2>3. alt_fd_list[i].dev # NoDevice  BY <1>3 DEF InUse, Free
    <2>4. DevicesOnlyLocked'  BY <1>4, <1>8, <2>3 DEF DevicesOnlyLocked
    <2>5. OpensNotStd'  BY <1>2, <1>6 DEF OpensNotStd, Opening
    <2>q. QED  BY <2>2, <2>4, <2>5
  <1>11. LocksHaveHolders'
    <2> SUFFICES ASSUME NEW fd \in Fds, alt_fd_list'[fd].excl
                 PROVE  \/ fd \in opened' \cup Std
                        \/ \E u \in Threads : call'[u].at = "release" /\ call'[u].fd = fd
      BY DEF LocksHaveHolders
    <2>1. fd # i /\ alt_fd_list[fd].excl  BY <1>4, <1>8
    <2>2. CASE fd \in opened \cup Std  BY <1>2, <2>2
    <2>3. CASE \E u \in Threads : call[u].at = "release" /\ call[u].fd = fd
      BY <1>6, <2>1, <2>3
    <2>q. QED  BY <2>1, <2>2, <2>3 DEF LocksHaveHolders
  <1>q. QED  BY <1>5, <1>9, <1>10, <1>11

(* One step of the search moves the thread and nothing else.               *)
LEMMA ScanStep ==
    ASSUME IInv, NEW t \in Threads, OpenScan(t)
    PROVE  IInv'
  <1> USE DEF IInv
  <1>1. /\ call[t].at = "scan" /\ call[t].fd \in Fds /\ call[t].fd \notin Std
        /\ call[t].next \in Nat
        /\ Inside(t)
        /\ opened' = opened /\ alt_max_fd' = alt_max_fd /\ boot' = boot /\ met' = met
        /\ alt_fd_list' = alt_fd_list
    BY DEF OpenScan, TypeOK, Call, Inside, OpensNotStd, Opening
  <1>2. PICK at \in {"scan", "device", "release"}, n \in Nat :
          call' = [call EXCEPT ![t].at = at, ![t].next = n]
    <2>1. CASE call[t].next > alt_max_fd  BY <2>1 DEF OpenScan
    <2>2. CASE call' = [call EXCEPT ![t].at = "release", ![t].next = 0]  BY <2>2
    <2>3. CASE call' = [call EXCEPT ![t].next = call[t].next + 1]
      <3>1. call' = [call EXCEPT ![t].at = "scan", ![t].next = call[t].next + 1]
        BY <1>1, <2>3 DEF TypeOK, Call
      <3>2. call[t].next + 1 \in Nat /\ "scan" \in {"scan", "device", "release"}  BY <1>1
      <3>q. QED  BY <3>1, <3>2
    <2>q. QED  BY <2>1, <2>2, <2>3 DEF OpenScan
  <1>3. call'[t] \in Call /\ call' \in [Threads -> Call]  BY <1>1, <1>2 DEF TypeOK, Call
  <1>4. /\ call'[t].at = at /\ call'[t].fd = call[t].fd
        /\ \A u \in Threads \ {t} : call'[u] = call[u]
    BY <1>2 DEF TypeOK, Call
  <1>5. TypeOK'  BY <1>1, <1>3 DEF TypeOK
  <1>6. \A u \in Threads : call'[u].fd = call[u].fd /\ (Inside(u)' <=> Inside(u))
    BY <1>1, <1>4 DEF Inside
  <1>7. BootAlone' /\ StdNeverFree' /\ WatermarkCovers' /\ EachHasOneOwner'
    BY <1>1, <1>6, SameOwners, InsideBooted
  <1>8. StdDevicesCovered' /\ DevicesOnlyLocked'
    BY <1>1 DEF StdDevicesCovered, DevicesOnlyLocked
  <1>9. OpensNotStd'  BY <1>1, <1>4 DEF OpensNotStd, Opening
  <1>10. LocksHaveHolders'  BY <1>1, <1>4 DEF LocksHaveHolders
  <1>q. QED  BY <1>5, <1>7, <1>8, <1>9, <1>10

(* The driver's answer: the thread's descriptor becomes the application's, *)
(* or goes back.                                                           *)
LEMMA DeviceStep ==
    ASSUME IInv, NEW t \in Threads, OpenDevice(t)
    PROVE  IInv'
  <1> USE DEF IInv
  <1> DEFINE i == call[t].fd
  <1>1. /\ call[t].at = "device" /\ i \notin Std /\ i \in InUse /\ Inside(t) /\ i \in Fds
        /\ alt_fd_list' = alt_fd_list /\ alt_max_fd' = alt_max_fd /\ boot' = boot
        /\ met' \in [Threads -> SUBSET Fds]
    BY DEF OpenDevice, EachHasOneOwner, Inside, InUse, OpensNotStd, Opening, TypeOK
  <1>2. boot = 3  BY <1>1, InsideBooted
  <1>3. /\ StdNeverFree' /\ StdDevicesCovered' /\ DevicesOnlyLocked' /\ WatermarkCovers'
        /\ InUse' = InUse
    BY <1>1 DEF StdNeverFree, Free, StdDevicesCovered, DevicesOnlyLocked, WatermarkCovers,
         InUse
  <1>4. BootAlone'  BY <1>1, <1>2 DEF BootAlone
  <1>5. CASE opened' = opened \cup {i} /\ call' = [call EXCEPT ![t] = Idle]
    <2>1. call'[t] = Idle /\ \A u \in Threads \ {t} : call'[u] = call[u]
      BY <1>5 DEF TypeOK
    <2>2. TypeOK'
      <3>1. Idle \in Call  BY PoolAssumption DEF Idle, Fds, Call
      <3>2. call' \in [Threads -> Call]  BY <1>5, <3>1 DEF TypeOK
      <3>q. QED  BY <1>1, <1>5, <3>2 DEF TypeOK, InUse
    <2>3. ~Inside(t)' /\ \A u \in Threads \ {t} : Inside(u)' <=> Inside(u)
      BY <2>1 DEF Inside, Idle
    <2>4. EachHasOneOwner'  BY <1>1, <1>3, <1>5, <2>1, <2>3 DEF EachHasOneOwner
    <2>5. LocksHaveHolders'
      BY <1>1, <1>5, <2>1 DEF LocksHaveHolders
    <2>6. OpensNotStd'  BY <2>1 DEF OpensNotStd, Opening, Idle
    <2>q. QED  BY <1>3, <1>4, <2>2, <2>4, <2>5, <2>6
  <1>6. CASE call' = [call EXCEPT ![t].at = "release"] /\ opened' = opened
    <2>1. /\ call'[t].at = "release" /\ call'[t].fd = i
          /\ \A u \in Threads \ {t} : call'[u] = call[u]
      BY <1>6 DEF TypeOK, Call
    <2>2. TypeOK'
      <3>1. call' \in [Threads -> Call]  BY <1>6 DEF TypeOK, Call
      <3>q. QED  BY <1>1, <1>6, <3>1 DEF TypeOK
    <2>3. \A u \in Threads : call'[u].fd = call[u].fd /\ (Inside(u)' <=> Inside(u))
      BY <1>1, <2>1 DEF Inside
    <2>4. EachHasOneOwner'  BY <1>1, <1>2, <1>6, <2>3, SameOwners
    <2>5. LocksHaveHolders'
      BY <1>1, <1>6, <2>1 DEF LocksHaveHolders
    <2>6. OpensNotStd'  BY <2>1 DEF OpensNotStd, Opening
    <2>q. QED  BY <1>3, <1>4, <2>2, <2>4, <2>5, <2>6
  <1>q. QED  BY <1>5, <1>6 DEF OpenDevice

LEMMA CloseStep ==
    ASSUME IInv, NEW t \in Threads, NEW fd \in opened \cup Std, Close(t, fd)
    PROVE  IInv'
  <1> USE DEF IInv
  <1>1. /\ ~Inside(t) /\ boot = 3 /\ fd \in Fds /\ (fd \in Std <=> fd \notin opened)
        /\ opened' = opened \ {fd}
        /\ alt_fd_list' = alt_fd_list /\ alt_max_fd' = alt_max_fd /\ boot' = boot /\ met' = met
    BY PoolAssumption DEF Close, Inside, TypeOK, Fds, Std
  <1>2. /\ call'[t].at = "release" /\ call'[t].fd = fd
        /\ \A u \in Threads \ {t} : call'[u] = call[u]
    BY DEF Close, TypeOK, Call
  <1>3. TypeOK'
    <2>1. call' \in [Threads -> Call]  BY <1>1 DEF Close, TypeOK, Call
    <2>q. QED  BY <1>1, <2>1 DEF TypeOK
  <1>4. BootAlone'  BY <1>1 DEF BootAlone
  <1>5. /\ StdNeverFree' /\ StdDevicesCovered' /\ DevicesOnlyLocked' /\ WatermarkCovers'
        /\ InUse' = InUse
    BY <1>1 DEF StdNeverFree, Free, StdDevicesCovered, DevicesOnlyLocked, WatermarkCovers,
         InUse
  <1>6. Inside(t)' /\ \A u \in Threads \ {t} : Inside(u)' <=> Inside(u)
    BY <1>2 DEF Inside
  <1>7. EachHasOneOwner'
    <2>1. opened \cap Std = {}  BY DEF TypeOK
    <2>q. QED  BY <1>1, <1>2, <1>5, <1>6, <2>1 DEF EachHasOneOwner
  <1>8. LocksHaveHolders'
    BY <1>1, <1>2 DEF LocksHaveHolders, Inside
  <1>9. OpensNotStd'  BY <1>2 DEF OpensNotStd, Opening
  <1>q. QED  BY <1>3, <1>4, <1>5, <1>7, <1>8, <1>9

(* What a release leaves: a standard stream as it was, another one free.   *)
LEMMA Released ==
    ASSUME IInv, NEW t \in Threads, Release(t)
    PROVE  LET i == call[t].fd
           IN  /\ call[t].at = "release" /\ Inside(t) /\ boot = 3
               /\ i \in Fds /\ i \notin opened /\ (i \notin Std => i \in InUse)
               /\ opened' = opened /\ alt_max_fd' = alt_max_fd /\ boot' = boot
               /\ IF i \in Std THEN alt_fd_list' = alt_fd_list /\ met' = met
                  ELSE /\ alt_fd_list'[i] = Unflagged(NoDevice)
                       /\ met' = [u \in Threads |-> met[u] \ {i}]
               /\ \A j \in Fds \ {i} : alt_fd_list'[j] = alt_fd_list[j]
               /\ alt_fd_list' \in [Fds -> Entry]
               /\ call'[t] = Idle /\ \A u \in Threads \ {t} : call'[u] = call[u]
               /\ call' \in [Threads -> Call]
  <1> USE DEF IInv
  <1> DEFINE i == call[t].fd
  <1>1. call[t].at = "release" /\ Inside(t) /\ i \in Fds
    BY DEF Release, Inside, TypeOK, Call
  <1>2. i \notin opened /\ (i \notin Std => i \in InUse)  BY <1>1 DEF EachHasOneOwner
  <1>3. boot = 3  BY <1>1, InsideBooted
  <1>4. /\ IF i \in Std THEN alt_fd_list' = alt_fd_list /\ met' = met
           ELSE /\ alt_fd_list'[i] = Unflagged(NoDevice)
                /\ met' = [u \in Threads |-> met[u] \ {i}]
        /\ \A j \in Fds \ {i} : alt_fd_list'[j] = alt_fd_list[j]
    BY <1>1 DEF Release, Forget, TypeOK
  <1>5. alt_fd_list' \in [Fds -> Entry]
    <2>1. Unflagged(NoDevice) \in Entry  BY DEF Unflagged, Entry
    <2>q. QED  BY <2>1 DEF Release, TypeOK
  <1>6. call'[t] = Idle /\ \A u \in Threads \ {t} : call'[u] = call[u]
    BY DEF Release, TypeOK
  <1>7. call' \in [Threads -> Call]
    <2>1. Idle \in Call  BY PoolAssumption DEF Idle, Fds, Call
    <2>q. QED  BY <2>1 DEF Release, TypeOK
  <1>q. QED  BY <1>1, <1>2, <1>3, <1>4, <1>5, <1>6, <1>7 DEF Release

LEMMA ReleaseStep ==
    ASSUME IInv, NEW t \in Threads, Release(t)
    PROVE  IInv'
  <1> USE DEF IInv
  <1> DEFINE i == call[t].fd
  <1>1. /\ call[t].at = "release" /\ Inside(t) /\ boot = 3
        /\ i \in Fds /\ i \notin opened /\ (i \notin Std => i \in InUse)
        /\ opened' = opened /\ alt_max_fd' = alt_max_fd /\ boot' = boot
        /\ \A j \in Fds \ {i} : alt_fd_list'[j] = alt_fd_list[j]
        /\ alt_fd_list' \in [Fds -> Entry] /\ call' \in [Threads -> Call]
    BY Released
  <1>2. call'[t] = Idle /\ \A u \in Threads \ {t} : call'[u] = call[u]
    BY Released
  <1>3. CASE i \in Std
    <2>1. alt_fd_list' = alt_fd_list /\ met' = met  BY <1>3, Released
    <2>2. TypeOK' /\ BootAlone'  BY <1>1, <2>1 DEF TypeOK, BootAlone
    <2>3. /\ StdNeverFree' /\ StdDevicesCovered' /\ DevicesOnlyLocked' /\ WatermarkCovers'
          /\ InUse' = InUse
      BY <1>1, <2>1 DEF StdNeverFree, Free, StdDevicesCovered, DevicesOnlyLocked,
           WatermarkCovers, InUse
    <2>4. ~Inside(t)' /\ \A u \in Threads \ {t} : Inside(u)' <=> Inside(u)
      BY <1>2 DEF Inside, Idle
    <2>5. EachHasOneOwner'  BY <1>1, <1>2, <1>3, <2>3, <2>4 DEF EachHasOneOwner
    <2>6. LocksHaveHolders'  BY <1>1, <1>2, <1>3, <2>1 DEF LocksHaveHolders
    <2>7. OpensNotStd'  BY <1>2 DEF OpensNotStd, Opening, Idle
    <2>q. QED  BY <2>2, <2>3, <2>5, <2>6, <2>7
  <1>4. CASE i \notin Std
    <2>1. /\ alt_fd_list'[i] = Unflagged(NoDevice)
          /\ met' = [u \in Threads |-> met[u] \ {i}] /\ i \in InUse
      BY <1>4, Released
    <2>2. TypeOK'
      <3>1. met' \in [Threads -> SUBSET Fds]  BY <2>1 DEF TypeOK
      <3>q. QED  BY <1>1, <3>1 DEF TypeOK
    <2>3. BootAlone'  BY <1>1 DEF BootAlone
    <2>4. \A j \in Std : alt_fd_list'[j] = alt_fd_list[j]
      BY <1>1, <1>4, PoolAssumption DEF Std, Fds
    <2>5. StdNeverFree' /\ StdDevicesCovered'
      BY <1>1, <2>4 DEF StdNeverFree, Free, StdDevicesCovered
    <2>6. DevicesOnlyLocked'  BY <1>1, <2>1 DEF DevicesOnlyLocked, Unflagged
    <2>7. InUse' = InUse \ {i}
      <3>1. alt_fd_list'[i].dev = NoDevice  BY <2>1 DEF Unflagged
      <3>2. \A j \in Fds \ Std : ~Free(j)' <=> ~Free(j) /\ j # i  BY <1>1, <3>1 DEF Free
      <3>q. QED  BY <3>2 DEF InUse
    <2>8. WatermarkCovers'  BY <1>1, <2>7 DEF WatermarkCovers
    <2>9. ~Inside(t)' /\ \A u \in Threads \ {t} : Inside(u)' <=> Inside(u)
      BY <1>2 DEF Inside, Idle
    <2>10. EachHasOneOwner'  BY <1>1, <1>2, <1>4, <2>7, <2>9 DEF EachHasOneOwner
    <2>11. LocksHaveHolders'
      <3> SUFFICES ASSUME NEW fd \in Fds, alt_fd_list'[fd].excl
                   PROVE  \/ fd \in opened' \cup Std
                          \/ \E u \in Threads : call'[u].at = "release" /\ call'[u].fd = fd
        BY DEF LocksHaveHolders
      <3>1. fd # i /\ alt_fd_list[fd].excl  BY <1>1, <2>1 DEF Unflagged
      <3>q. QED  BY <1>1, <1>2, <3>1 DEF LocksHaveHolders
    <2>12. OpensNotStd'  BY <1>2 DEF OpensNotStd, Opening, Idle
    <2>q. QED  BY <2>2, <2>3, <2>5, <2>6, <2>8, <2>10, <2>11, <2>12
  <1>q. QED  BY <1>3, <1>4

(* A lock is set on, or taken off, a descriptor that is held.              *)
LEMMA LockStep ==
    ASSUME IInv, NEW t \in Threads, NEW fd \in opened \cup Std,
           Lock(t, fd) \/ Unlock(t, fd)
    PROVE  IInv'
  <1> USE DEF IInv
  <1>1. PICK excl \in BOOLEAN : alt_fd_list' = [alt_fd_list EXCEPT ![fd].excl = excl]
    BY DEF Lock, Unlock
  <1>2. /\ fd \in Fds /\ alt_fd_list[fd].isdev /\ boot = 3
        /\ opened' = opened /\ alt_max_fd' = alt_max_fd /\ boot' = boot /\ call' = call
        /\ met' \in [Threads -> SUBSET Fds]
    BY PoolAssumption DEF Lock, Unlock, Usable, Forget, TypeOK, Fds, Std
  <1>3. /\ alt_fd_list'[fd] = [alt_fd_list[fd] EXCEPT !.excl = excl]
        /\ \A j \in Fds \ {fd} : alt_fd_list'[j] = alt_fd_list[j]
    BY <1>1, <1>2 DEF TypeOK
  <1>4. [alt_fd_list[fd] EXCEPT !.excl = excl] \in Entry
    BY <1>2 DEF TypeOK, Entry
  <1>5. TypeOK'
    <2>1. alt_fd_list' \in [Fds -> Entry]  BY <1>1, <1>4 DEF TypeOK
    <2>q. QED  BY <1>2, <2>1 DEF TypeOK
  <1>6. \A j \in Fds : /\ alt_fd_list'[j].dev = alt_fd_list[j].dev
                       /\ alt_fd_list'[j].isdev = alt_fd_list[j].isdev
    BY <1>2, <1>3 DEF TypeOK, Entry
  <1>7. BootAlone' /\ StdNeverFree' /\ WatermarkCovers' /\ EachHasOneOwner'
    BY <1>2, <1>6, SameOwners DEF Inside
  <1>8. StdDevicesCovered' /\ OpensNotStd'
    <2>1. Std \subseteq Fds  BY PoolAssumption DEF Std, Fds
    <2>q. QED  BY <1>2, <1>6, <2>1 DEF StdDevicesCovered, OpensNotStd, Opening
  <1>9. DevicesOnlyLocked'  BY <1>2, <1>3, <1>6 DEF DevicesOnlyLocked
  <1>10. LocksHaveHolders'
    BY <1>2, <1>3 DEF LocksHaveHolders
  <1>q. QED  BY <1>5, <1>7, <1>8, <1>9, <1>10

LEMMA StutterStep ==
    ASSUME IInv, UNCHANGED vars
    PROVE  IInv'
  BY DEF IInv, vars, TypeOK, BootAlone, Inside, StdNeverFree, Free,
         StdDevicesCovered, DevicesOnlyLocked, OpensNotStd, Opening,
         WatermarkCovers, InUse, EachHasOneOwner, LocksHaveHolders

LEMMA NextIInv == IInv /\ [Next]_vars => IInv'
  <1> SUFFICES ASSUME IInv, [Next]_vars PROVE IInv'  OBVIOUS
  <1>1. CASE RedirectMissing  BY <1>1, MissingStep
  <1>2. CASE \E dev \in Devices, ok \in BOOLEAN : RedirectTo(dev, ok)
    BY <1>2, RedirectStep
  <1>3. ASSUME NEW t \in Threads,
               \/ \E dev \in Devices \cup FileSystems \cup {NullDevice} : OpenClaim(t, dev)
               \/ OpenFlags(t) \/ OpenScan(t) \/ OpenDevice(t) \/ Release(t)
               \/ \E fd \in opened \cup Std : Close(t, fd) \/ Lock(t, fd) \/ Unlock(t, fd)
        PROVE  IInv'
    BY <1>3, ClaimStep, FlagsStep, ScanStep, DeviceStep, ReleaseStep, CloseStep, LockStep
  <1>4. CASE UNCHANGED vars  BY <1>4, StutterStep
  <1>q. QED  BY <1>1, <1>2, <1>3, <1>4 DEF Next

LEMMA IInvHolds == Spec => []IInv
  BY InitIInv, NextIInv, PTL DEF Spec

(* The pool, the mark and the threads keep their types.                    *)
THEOREM PoolTypes == Spec => []TypeOK
  <1>1. IInv => TypeOK  BY DEF IInv
  <1>q. QED  BY <1>1, IInvHolds, PTL

(* No descriptor in use lies above the high-water mark.                    *)
THEOREM WatermarkAlwaysCovers == Spec => []WatermarkCovers
  <1>1. IInv => WatermarkCovers  BY DEF IInv
  <1>q. QED  BY <1>1, IInvHolds, PTL

(* Each descriptor in use has one owner, so none leaks and none is shared. *)
THEOREM AlwaysOneOwner == Spec => []EachHasOneOwner
  <1>1. IInv => EachHasOneOwner  BY DEF IInv
  <1>q. QED  BY <1>1, IInvHolds, PTL

(* No lock outlives the descriptor that took it.                           *)
THEOREM LocksAlwaysHeld == Spec => []LocksHaveHolders
  <1>1. IInv => LocksHaveHolders  BY DEF IInv
  <1>q. QED  BY <1>1, IInvHolds, PTL

-----------------------------------------------------------------------------
(* What the search of an open has not come to yet: the locks it was met by *)
(* are still there, and lie ahead of it.                                   *)
StillMet ==
    \A t \in Threads : call[t].at \in {"flags", "scan"} =>
        \A j \in met[t] : /\ alt_fd_list[j].excl
                          /\ alt_fd_list[j].dev = alt_fd_list[call[t].fd].dev
                          /\ call[t].next <= j

(* The grant overlooks the descriptor at the mark.  If that one is locked, *)
(* no other descriptor of its device can ask for a lock, now or later.     *)
MarkGuarded ==
    \A i \in Fds : alt_fd_list[i].excl /\ i = alt_max_fd =>
        /\ \A j \in opened \cup Std : j # i => alt_fd_list[j].dev # alt_fd_list[i].dev
        /\ \A t \in Threads :
             alt_fd_list[call[t].fd].dev = alt_fd_list[i].dev =>
                 /\ call[t].at \in {"flags", "scan"} => i \in met[t]
                 /\ call[t].at # "device"

LInv == StillMet /\ MarkGuarded /\ OneLockPerDevice

(* Locks lie within the mark, and the descriptor of an open has none.      *)
LEMMA LocksCovered ==
    ASSUME IInv, NEW i \in Fds, alt_fd_list[i].excl
    PROVE  /\ i <= alt_max_fd /\ alt_fd_list[i].isdev
           /\ alt_fd_list[i].dev \notin FileSystems \cup {NoDevice}
           /\ \A t \in Threads : Opening(t) => call[t].fd # i
  <1> USE DEF IInv
  <1>1. /\ alt_fd_list[i].isdev /\ alt_fd_list[i].dev \notin FileSystems \cup {NoDevice}
    BY DEF DevicesOnlyLocked
  <1>2. i <= alt_max_fd
    <2>1. CASE i \in Std
      <3>1. 3 <= alt_max_fd /\ alt_max_fd \in -1..MAX_FD - 1
        BY <1>1, <2>1 DEF StdDevicesCovered, TypeOK
      <3>q. QED  BY <2>1, <3>1, PoolAssumption DEF Std
    <2>2. CASE i \notin Std
      <3>1. i \in InUse  BY <1>1, <2>2 DEF InUse, Free
      <3>q. QED  BY <3>1 DEF WatermarkCovers
    <2>q. QED  BY <2>1, <2>2
  <1>3. ASSUME NEW t \in Threads, Opening(t)
        PROVE  call[t].fd # i
    <2>1. call[t].fd \notin Std /\ call[t].fd \notin opened /\ call[t].at # "release" /\ Inside(t)
      BY <1>3 DEF OpensNotStd, EachHasOneOwner, Opening, Inside
    <2>2. \A u \in Threads : Inside(u) /\ call[u].fd = call[t].fd => u = t
      BY <2>1 DEF EachHasOneOwner
    <2>q. QED  BY <2>1, <2>2 DEF LocksHaveHolders, Inside
  <1>q. QED  BY <1>1, <1>2, <1>3

LEMMA InitLInv == Init => LInv
  <1> SUFFICES ASSUME Init PROVE LInv  OBVIOUS
  <1>1. \A i \in Fds : ~alt_fd_list[i].excl  BY DEF Init, Unflagged
  <1>2. \A t \in Threads : call[t].at = "idle"  BY DEF Init, Idle
  <1>q. QED  BY <1>1, <1>2 DEF LInv, StillMet, MarkGuarded, OneLockPerDevice

LEMMA BootLocks ==
    ASSUME IInv, IInv', boot < 3, alt_fd_list' \in [Fds -> Entry],
           call' = call, opened' = opened,
           \A i \in Fds : ~alt_fd_list'[i].excl
    PROVE  LInv'
  BY DEF IInv, BootAlone, Inside, LInv, StillMet, MarkGuarded, OneLockPerDevice

LEMMA RedirectLocks ==
    ASSUME IInv, IInv', \/ RedirectMissing
                        \/ \E dev \in Devices, ok \in BOOLEAN : RedirectTo(dev, ok)
    PROVE  LInv'
  <1> USE DEF IInv
  <1>1. /\ boot < 3 /\ call' = call /\ opened' = opened /\ alt_fd_list' \in [Fds -> Entry]
    BY DEF RedirectMissing, RedirectTo, TypeOK
  <1>2. \A i \in Fds : ~alt_fd_list[i].excl  BY <1>1 DEF BootAlone
  <1>3. \A i \in Fds : ~alt_fd_list'[i].excl
    <2>1. CASE alt_fd_list' = alt_fd_list  BY <1>2, <2>1
    <2>2. ASSUME NEW dev \in Devices,
                 alt_fd_list' = [alt_fd_list EXCEPT ![StdOrder[boot]] =
                                   [Unflagged(dev) EXCEPT !.isdev = dev \notin FileSystems]]
          PROVE  \A i \in Fds : ~alt_fd_list'[i].excl
      <3>1. ~[Unflagged(dev) EXCEPT !.isdev = dev \notin FileSystems].excl  BY DEF Unflagged
      <3>q. QED  BY <1>2, <2>2, <3>1 DEF TypeOK
    <2>q. QED  BY <2>1, <2>2 DEF RedirectMissing, RedirectTo
  <1>q. QED  BY <1>1, <1>3, BootLocks

LEMMA ClaimLocks ==
    ASSUME IInv, LInv, NEW t \in Threads,
           NEW dev \in Devices \cup FileSystems \cup {NullDevice}, OpenClaim(t, dev)
    PROVE  LInv'
  <1> USE DEF IInv, LInv
  <1>1. PICK i \in Fds :
          /\ FirstFree(i)
          /\ alt_fd_list' = [alt_fd_list EXCEPT ![i].dev = dev]
          /\ alt_max_fd' = Raised(i)
          /\ call' = [call EXCEPT ![t] = [at |-> "flags", fd |-> i, next |-> 0]]
    BY DEF OpenClaim
  <1>2. /\ i \notin Std /\ i \notin InUse /\ alt_max_fd' \in {i, alt_max_fd}
        /\ opened' = opened /\ Fds \subseteq Nat
    BY <1>1, Claimed DEF Raised, OpenClaim, Fds
  <1>3. /\ alt_fd_list'[i] = [alt_fd_list[i] EXCEPT !.dev = dev]
        /\ \A j \in Fds \ {i} : alt_fd_list'[j] = alt_fd_list[j]
    BY <1>1 DEF TypeOK
  <1>4. ~alt_fd_list[i].excl /\ ~alt_fd_list'[i].excl /\ alt_fd_list'[i].dev = dev
    <2>1. ~alt_fd_list[i].excl  BY <1>1 DEF DevicesOnlyLocked, FirstFree, Free
    <2>q. QED  BY <1>3, <2>1 DEF TypeOK, Entry
  <1>5. /\ call'[t] = [at |-> "flags", fd |-> i, next |-> 0]
        /\ met'[t] = {j \in Fds : alt_fd_list[j].excl /\ alt_fd_list[j].dev = dev}
        /\ \A u \in Threads \ {t} : call'[u] = call[u] /\ met'[u] = met[u]
    BY <1>1 DEF OpenClaim, TypeOK
  <1>6. i \notin opened /\ opened \cup Std \subseteq Fds
        /\ \A u \in Threads \ {t} : Inside(u) => call[u].fd # i
    BY <1>2, PoolAssumption DEF EachHasOneOwner, TypeOK, Fds, Std
  <1>7. \A u \in Threads : call[u].fd \in Fds /\ met[u] \subseteq Fds
    BY DEF TypeOK, Call
  <1>8. StillMet'
    <2> SUFFICES ASSUME NEW u \in Threads, call'[u].at \in {"flags", "scan"},
                        NEW j \in met'[u]
                 PROVE  /\ alt_fd_list'[j].excl
                        /\ alt_fd_list'[j].dev = alt_fd_list'[call'[u].fd].dev
                        /\ call'[u].next <= j
      BY DEF StillMet
    <2>1. CASE u = t
      <3>1. j \in Fds /\ alt_fd_list[j].excl /\ alt_fd_list[j].dev = dev  BY <1>5, <2>1
      <3>2. j # i  BY <1>4, <3>1
      <3>3. call'[u].fd = i /\ call'[u].next = 0  BY <1>5, <2>1
      <3>4. alt_fd_list'[j] = alt_fd_list[j]  BY <1>3, <3>1, <3>2
      <3>5. alt_fd_list'[call'[u].fd].dev = dev  BY <1>4, <3>3
      <3>6. call'[u].next <= j
        <4>1. j \in Nat  BY <1>2, <3>1
        <4>2. 0 <= j  BY <4>1
        <4>q. QED  BY <3>3, <4>2
      <3>q. QED  BY <3>1, <3>4, <3>5, <3>6
    <2>2. CASE u # t
      <3>1. /\ call'[u] = call[u] /\ j \in met[u] /\ j \in Fds /\ Inside(u)
        BY <1>5, <1>7, <2>2 DEF Inside
      <3>2. /\ alt_fd_list[j].excl /\ alt_fd_list[j].dev = alt_fd_list[call[u].fd].dev
            /\ call[u].next <= j
        BY <3>1 DEF StillMet
      <3>3. j # i /\ call[u].fd # i /\ call[u].fd \in Fds
        BY <1>4, <1>6, <1>7, <2>2, <3>1, <3>2
      <3>q. QED  BY <1>3, <3>1, <3>2, <3>3
    <2>q. QED  BY <2>1, <2>2
  <1>9. MarkGuarded'
    <2> SUFFICES ASSUME NEW k \in Fds, alt_fd_list'[k].excl, k = alt_max_fd'
                 PROVE  /\ \A j \in opened' \cup Std :
                             j # k => alt_fd_list'[j].dev # alt_fd_list'[k].dev
                        /\ \A u \in Threads :
                             alt_fd_list'[call'[u].fd].dev = alt_fd_list'[k].dev =>
                                 /\ call'[u].at \in {"flags", "scan"} => k \in met'[u]
                                 /\ call'[u].at # "device"
      BY DEF MarkGuarded
    <2>1. k # i /\ alt_fd_list'[k] = alt_fd_list[k] /\ k = alt_max_fd
      BY <1>2, <1>3, <1>4
    <2>2. \A j \in opened' \cup Std : j # k => alt_fd_list'[j].dev # alt_fd_list'[k].dev
      BY <1>2, <1>3, <1>6, <2>1 DEF MarkGuarded
    <2>3. ASSUME NEW u \in Threads, alt_fd_list'[call'[u].fd].dev = alt_fd_list'[k].dev
          PROVE  /\ call'[u].at \in {"flags", "scan"} => k \in met'[u]
                 /\ call'[u].at # "device"
      <3>1. CASE u = t
        <4>1. call'[u].fd = i /\ call'[u].at = "flags"  BY <1>5, <3>1
        <4>2. alt_fd_list[k].excl /\ alt_fd_list[k].dev = dev  BY <1>4, <2>1, <2>3, <4>1
        <4>q. QED  BY <1>5, <3>1, <4>1, <4>2
      <3>2. CASE u # t /\ Inside(u)
        <4>1. call'[u] = call[u] /\ met'[u] = met[u] /\ call[u].fd \in Fds \ {i}
          BY <1>5, <1>6, <1>7, <3>2
        <4>q. QED  BY <1>3, <2>1, <2>3, <4>1 DEF MarkGuarded
      <3>3. CASE u # t /\ ~Inside(u)  BY <1>5, <3>3 DEF Inside
      <3>q. QED  BY <3>1, <3>2, <3>3
    <2>q. QED  BY <2>2, <2>3
  <1>10. OneLockPerDevice'  BY <1>3, <1>4 DEF OneLockPerDevice
  <1>q. QED  BY <1>8, <1>9, <1>10

(* A step that moves one thread and no device or lock.                     *)
LEMMA FlagsLocks ==
    ASSUME IInv, LInv, NEW t \in Threads, OpenFlags(t)
    PROVE  LInv'
  <1> USE DEF IInv, LInv
  <1> DEFINE i == call[t].fd
             isdev == alt_fd_list[i].dev \notin FileSystems
  <1>1. /\ i \in Fds /\ i \notin Std /\ Opening(t) /\ call[t].at = "flags"
        /\ opened' = opened /\ alt_max_fd' = alt_max_fd /\ met' = met
    BY DEF OpenFlags, TypeOK, OpensNotStd, Opening, Call
  <1>2. /\ alt_fd_list'[i] = [dev |-> alt_fd_list[i].dev, excl |-> FALSE, isdev |-> isdev]
        /\ \A j \in Fds \ {i} : alt_fd_list'[j] = alt_fd_list[j]
    BY <1>1 DEF OpenFlags, TypeOK
  <1>3. ~alt_fd_list[i].excl  BY <1>1, LocksCovered
  <1>4. /\ \A j \in Fds : alt_fd_list'[j].dev = alt_fd_list[j].dev
        /\ \A j \in Fds : alt_fd_list'[j].excl <=> alt_fd_list[j].excl
    BY <1>2, <1>3 DEF TypeOK, Entry
  <1>5. /\ call'[t].at = (IF isdev THEN "scan" ELSE "device")
        /\ call'[t].fd = call[t].fd /\ call'[t].next = call[t].next
        /\ \A u \in Threads \ {t} : call'[u] = call[u]
    BY DEF OpenFlags, TypeOK, Call
  <1>6. \A u \in Threads : call[u].fd \in Fds /\ met[u] \subseteq Fds
    BY DEF TypeOK, Call
  <1>7. opened \cup Std \subseteq Fds  BY PoolAssumption DEF TypeOK, Fds, Std
  <1>8. StillMet'
    <2>1. ASSUME NEW u \in Threads, call'[u].at \in {"flags", "scan"}
          PROVE  /\ call[u].at \in {"flags", "scan"}
                 /\ call'[u].fd = call[u].fd /\ call'[u].next = call[u].next
      BY <1>1, <1>5, <2>1
    <2>q. QED  BY <1>1, <1>4, <1>6, <2>1 DEF StillMet
  <1>9. MarkGuarded'
    <2> SUFFICES ASSUME NEW k \in Fds, alt_fd_list'[k].excl, k = alt_max_fd'
                 PROVE  /\ \A j \in opened' \cup Std :
                             j # k => alt_fd_list'[j].dev # alt_fd_list'[k].dev
                        /\ \A u \in Threads :
                             alt_fd_list'[call'[u].fd].dev = alt_fd_list'[k].dev =>
                                 /\ call'[u].at \in {"flags", "scan"} => k \in met'[u]
                                 /\ call'[u].at # "device"
      BY DEF MarkGuarded
    <2>1. alt_fd_list[k].excl /\ k = alt_max_fd  BY <1>1, <1>4
    <2>2. \A j \in opened' \cup Std : j # k => alt_fd_list'[j].dev # alt_fd_list'[k].dev
      BY <1>1, <1>4, <1>7, <2>1 DEF MarkGuarded
    <2>3. ASSUME NEW u \in Threads, alt_fd_list'[call'[u].fd].dev = alt_fd_list'[k].dev
          PROVE  /\ call'[u].at \in {"flags", "scan"} => k \in met'[u]
                 /\ call'[u].at # "device"
      <3>1. /\ alt_fd_list[call[u].fd].dev = alt_fd_list[k].dev
        BY <1>4, <1>5, <1>6, <2>3
      <3>2. CASE u = t
        <4>1. k \in met[t]  BY <1>1, <2>1, <3>1, <3>2 DEF MarkGuarded
        <4>2. isdev  BY <2>1, <3>1, <3>2, LocksCovered
        <4>q. QED  BY <1>1, <1>5, <3>2, <4>1, <4>2
      <3>3. CASE u # t
        <4>1. call'[u] = call[u]  BY <1>5, <3>3
        <4>q. QED  BY <1>1, <2>1, <3>1, <4>1 DEF MarkGuarded
      <3>q. QED  BY <3>2, <3>3
    <2>q. QED  BY <2>2, <2>3
  <1>10. OneLockPerDevice'  BY <1>4 DEF OneLockPerDevice
  <1>q. QED  BY <1>8, <1>9, <1>10

(* A search that ends has passed every lock it was met by, so there is     *)
(* none; one that goes on has looked at its descriptor and found no lock.  *)
LEMMA ScanLocks ==
    ASSUME IInv, LInv, NEW t \in Threads, OpenScan(t)
    PROVE  /\ LInv'
           /\ call'[t].at = "device" => met[t] = {}
  <1> USE DEF IInv, LInv
  <1> DEFINE i == call[t].fd
             n == call[t].next
  <1>1. /\ call[t].at = "scan" /\ i \in Fds /\ Opening(t) /\ n \in Nat
        /\ opened' = opened /\ alt_max_fd' = alt_max_fd /\ met' = met
        /\ alt_fd_list' = alt_fd_list /\ alt_max_fd \in -1..MAX_FD - 1
        /\ Fds \subseteq Nat /\ met[t] \subseteq Fds
    BY DEF OpenScan, TypeOK, Opening, Call, Fds
  <1>2. \A u \in Threads \ {t} : call'[u] = call[u]
    BY DEF OpenScan, TypeOK, Call
  <1>3. \A j \in met[t] : /\ alt_fd_list[j].excl /\ alt_fd_list[j].dev = alt_fd_list[i].dev
                          /\ n <= j /\ j <= alt_max_fd /\ j # i
    <2> SUFFICES ASSUME NEW j \in met[t]
                 PROVE  /\ alt_fd_list[j].excl /\ alt_fd_list[j].dev = alt_fd_list[i].dev
                        /\ n <= j /\ j <= alt_max_fd /\ j # i
      OBVIOUS
    <2>1. /\ alt_fd_list[j].excl /\ alt_fd_list[j].dev = alt_fd_list[i].dev /\ n <= j
      BY <1>1 DEF StillMet
    <2>q. QED  BY <1>1, <2>1, LocksCovered
  <1>4. CASE n > alt_max_fd
    <2>1. met[t] = {}
      <3> SUFFICES ASSUME NEW j \in met[t] PROVE FALSE  OBVIOUS
      <3>1. n <= j /\ j <= alt_max_fd /\ j \in Nat  BY <1>1, <1>3
      <3>q. QED  BY <1>1, <1>4, <3>1
    <2>2. call'[t].at = "device" /\ call'[t].fd = i
      BY <1>4 DEF OpenScan, TypeOK, Call
    <2>3. StillMet'  BY <1>1, <1>2, <2>2 DEF StillMet
    <2>4. MarkGuarded'
      <3>1. ASSUME NEW k \in Fds, alt_fd_list[k].excl, k = alt_max_fd
            PROVE  alt_fd_list[i].dev # alt_fd_list[k].dev
        BY <1>1, <2>1, <3>1 DEF MarkGuarded
      <3>q. QED  BY <1>1, <1>2, <2>2, <3>1 DEF MarkGuarded
    <2>q. QED  BY <1>1, <2>1, <2>3, <2>4 DEF OneLockPerDevice
  <1>5. CASE /\ n <= alt_max_fd
             /\ n # i /\ alt_fd_list[n].excl /\ alt_fd_list[n].dev = alt_fd_list[i].dev
    <2>1. call'[t].at = "release" /\ call'[t].fd = i
      BY <1>1, <1>5 DEF OpenScan, TypeOK, Call
    <2>2. StillMet'  BY <1>1, <1>2, <2>1 DEF StillMet
    <2>3. MarkGuarded'  BY <1>1, <1>2, <2>1 DEF MarkGuarded
    <2>q. QED  BY <1>1, <2>1, <2>2, <2>3 DEF OneLockPerDevice
  <1>6. CASE /\ n <= alt_max_fd
             /\ ~(n # i /\ alt_fd_list[n].excl /\ alt_fd_list[n].dev = alt_fd_list[i].dev)
    <2>1. call'[t].at = "scan" /\ call'[t].fd = i /\ call'[t].next = n + 1
      BY <1>1, <1>6 DEF OpenScan, TypeOK, Call
    <2>2. \A j \in met[t] : n + 1 <= j
      <3> SUFFICES ASSUME NEW j \in met[t] PROVE n + 1 <= j  OBVIOUS
      <3>1. j # n  BY <1>3, <1>6
      <3>2. n <= j /\ j \in Nat  BY <1>1, <1>3
      <3>q. QED  BY <1>1, <3>1, <3>2
    <2>3. StillMet'
      <3> SUFFICES ASSUME NEW u \in Threads, call'[u].at \in {"flags", "scan"},
                          NEW j \in met[u]
                   PROVE  /\ alt_fd_list[j].excl
                          /\ alt_fd_list[j].dev = alt_fd_list[call'[u].fd].dev
                          /\ call'[u].next <= j
        BY <1>1 DEF StillMet
      <3>1. CASE u = t  BY <1>3, <2>1, <2>2, <3>1
      <3>2. CASE u # t
        <4>1. call'[u] = call[u]  BY <1>2, <3>2
        <4>q. QED  BY <4>1 DEF StillMet
      <3>q. QED  BY <3>1, <3>2
    <2>4. MarkGuarded'  BY <1>1, <1>2, <2>1 DEF MarkGuarded
    <2>q. QED  BY <1>1, <2>1, <2>3, <2>4 DEF OneLockPerDevice
  <1>q. QED  BY <1>1, <1>4, <1>5, <1>6

(* The driver is called only for a device that the mark has not locked.    *)
LEMMA DeviceLocks ==
    ASSUME IInv, LInv, NEW t \in Threads, OpenDevice(t)
    PROVE  LInv'
  <1> USE DEF IInv, LInv
  <1> DEFINE i == call[t].fd
  <1>1. /\ call[t].at = "device" /\ i \in Fds
        /\ alt_fd_list' = alt_fd_list /\ alt_max_fd' = alt_max_fd
        /\ opened' \subseteq opened \cup {i}
        /\ call'[t].at \in {"idle", "release"}
        /\ \A u \in Threads \ {t} : call'[u] = call[u] /\ met'[u] = met[u]
    BY DEF OpenDevice, TypeOK, Call, Idle
  <1>2. StillMet'  BY <1>1 DEF StillMet
  <1>3. MarkGuarded'
    <2> SUFFICES ASSUME NEW k \in Fds, alt_fd_list[k].excl, k = alt_max_fd
                 PROVE  /\ \A j \in opened' \cup Std :
                             j # k => alt_fd_list[j].dev # alt_fd_list[k].dev
                        /\ \A u \in Threads :
                             alt_fd_list[call'[u].fd].dev = alt_fd_list[k].dev =>
                                 /\ call'[u].at \in {"flags", "scan"} => k \in met'[u]
                                 /\ call'[u].at # "device"
      BY <1>1 DEF MarkGuarded
    <2>1. alt_fd_list[i].dev # alt_fd_list[k].dev  BY <1>1 DEF MarkGuarded
    <2>2. \A j \in opened' \cup Std : j # k => alt_fd_list[j].dev # alt_fd_list[k].dev
      BY <1>1, <2>1 DEF MarkGuarded
    <2>3. ASSUME NEW u \in Threads, alt_fd_list[call'[u].fd].dev = alt_fd_list[k].dev
          PROVE  /\ call'[u].at \in {"flags", "scan"} => k \in met'[u]
                 /\ call'[u].at # "device"
      <3>1. CASE u = t  BY <1>1, <3>1
      <3>2. CASE u # t
        <4>1. call'[u] = call[u] /\ met'[u] = met[u]  BY <1>1, <3>2
        <4>q. QED  BY <2>3, <4>1 DEF MarkGuarded
      <3>q. QED  BY <3>1, <3>2
    <2>q. QED  BY <2>2, <2>3
  <1>4. OneLockPerDevice'  BY <1>1 DEF OneLockPerDevice
  <1>q. QED  BY <1>2, <1>3, <1>4

LEMMA CloseLocks ==
    ASSUME IInv, LInv, NEW t \in Threads, NEW fd \in opened \cup Std, Close(t, fd)
    PROVE  LInv'
  <1> USE DEF IInv, LInv
  <1>1. /\ alt_fd_list' = alt_fd_list /\ alt_max_fd' = alt_max_fd /\ met' = met
        /\ opened' \subseteq opened
        /\ call'[t].at = "release" /\ \A u \in Threads \ {t} : call'[u] = call[u]
    BY DEF Close, TypeOK, Call
  <1>2. StillMet'  BY <1>1 DEF StillMet
  <1>3. MarkGuarded'
    <2> SUFFICES ASSUME NEW k \in Fds, alt_fd_list[k].excl, k = alt_max_fd, NEW u \in Threads,
                        alt_fd_list[call'[u].fd].dev = alt_fd_list[k].dev
                 PROVE  /\ call'[u].at \in {"flags", "scan"} => k \in met[u]
                        /\ call'[u].at # "device"
      BY <1>1 DEF MarkGuarded
    <2>1. CASE u = t  BY <1>1, <2>1
    <2>2. CASE u # t
      <3>1. call'[u] = call[u]  BY <1>1, <2>2
      <3>q. QED  BY <3>1 DEF MarkGuarded
    <2>q. QED  BY <2>1, <2>2
  <1>4. OneLockPerDevice'  BY <1>1 DEF OneLockPerDevice
  <1>q. QED  BY <1>2, <1>3, <1>4

(* A descriptor that goes back to the pool is in nobody's way any more.    *)
LEMMA ReleaseLocks ==
    ASSUME IInv, LInv, NEW t \in Threads, Release(t)
    PROVE  LInv'
  <1> USE DEF IInv, LInv
  <1> DEFINE i == call[t].fd
  <1>1. /\ call[t].at = "release" /\ Inside(t) /\ i \in Fds /\ i \notin opened
        /\ opened' = opened /\ alt_max_fd' = alt_max_fd
        /\ \A j \in Fds \ {i} : alt_fd_list'[j] = alt_fd_list[j]
    BY Released
  <1>2. call'[t].at = "idle" /\ \A u \in Threads \ {t} : call'[u] = call[u]
    <2>1. call'[t] = Idle /\ \A u \in Threads \ {t} : call'[u] = call[u]  BY Released
    <2>q. QED  BY <2>1 DEF Idle
  <1>3. \A u \in Threads : call[u].fd \in Fds /\ met[u] \subseteq Fds
    BY DEF TypeOK, Call
  <1>4. CASE i \in Std
    <2>1. alt_fd_list' = alt_fd_list /\ met' = met  BY <1>4, Released
    <2>2. StillMet'  BY <1>2, <2>1 DEF StillMet
    <2>3. MarkGuarded'
      <3> SUFFICES ASSUME NEW k \in Fds, alt_fd_list[k].excl, k = alt_max_fd,
                          NEW u \in Threads,
                          alt_fd_list[call'[u].fd].dev = alt_fd_list[k].dev
                   PROVE  /\ call'[u].at \in {"flags", "scan"} => k \in met[u]
                          /\ call'[u].at # "device"
        BY <1>1, <2>1 DEF MarkGuarded
      <3>1. CASE u = t  BY <1>2, <3>1
      <3>2. CASE u # t
        <4>1. call'[u] = call[u]  BY <1>2, <3>2
        <4>q. QED  BY <4>1 DEF MarkGuarded
      <3>q. QED  BY <3>1, <3>2
    <2>4. OneLockPerDevice'  BY <2>1 DEF OneLockPerDevice
    <2>q. QED  BY <2>2, <2>3, <2>4
  <1>5. CASE i \notin Std
    <2>1. /\ ~alt_fd_list'[i].excl
          /\ met' = [u \in Threads |-> met[u] \ {i}]
      <3>1. alt_fd_list'[i] = Unflagged(NoDevice) /\ met' = [u \in Threads |-> met[u] \ {i}]
        BY <1>5, Released
      <3>q. QED  BY <3>1 DEF Unflagged
    <2>2. \A u \in Threads \ {t} : Inside(u) => call[u].fd # i
      BY <1>1, <1>5 DEF EachHasOneOwner
    <2>3. \A j \in opened \cup Std : j \in Fds \ {i}
      BY <1>1, <1>5, PoolAssumption DEF TypeOK, Fds, Std
    <2>4. ASSUME NEW u \in Threads, call'[u].at \in {"flags", "scan", "device"}
          PROVE  /\ u # t /\ call'[u] = call[u] /\ Inside(u) /\ call[u].fd \in Fds \ {i}
                 /\ alt_fd_list'[call'[u].fd] = alt_fd_list[call[u].fd]
      <3>1. u # t /\ call'[u] = call[u]  BY <1>2, <2>4
      <3>2. Inside(u)  BY <2>4, <3>1 DEF Inside
      <3>3. call[u].fd \in Fds \ {i}  BY <1>3, <2>2, <3>1, <3>2
      <3>q. QED  BY <1>1, <3>1, <3>2, <3>3
    <2>5. StillMet'
      <3> SUFFICES ASSUME NEW u \in Threads, call'[u].at \in {"flags", "scan"},
                          NEW j \in met'[u]
                   PROVE  /\ alt_fd_list'[j].excl
                          /\ alt_fd_list'[j].dev = alt_fd_list'[call'[u].fd].dev
                          /\ call'[u].next <= j
        BY DEF StillMet
      <3>1. j \in met[u] /\ j # i /\ j \in Fds  BY <1>3, <2>1
      <3>2. call'[u] = call[u] /\ alt_fd_list'[call'[u].fd] = alt_fd_list[call[u].fd]
        BY <2>4
      <3>q. QED  BY <1>1, <3>1, <3>2 DEF StillMet
    <2>6. MarkGuarded'
      <3> SUFFICES ASSUME NEW k \in Fds, alt_fd_list'[k].excl, k = alt_max_fd'
                   PROVE  /\ \A j \in opened' \cup Std :
                               j # k => alt_fd_list'[j].dev # alt_fd_list'[k].dev
                          /\ \A u \in Threads :
                               alt_fd_list'[call'[u].fd].dev = alt_fd_list'[k].dev =>
                                   /\ call'[u].at \in {"flags", "scan"} => k \in met'[u]
                                   /\ call'[u].at # "device"
        BY DEF MarkGuarded
      <3>1. k # i /\ alt_fd_list'[k] = alt_fd_list[k] /\ k = alt_max_fd
        BY <1>1, <2>1
      <3>2. \A j \in opened' \cup Std : j # k => alt_fd_list'[j].dev # alt_fd_list'[k].dev
        BY <1>1, <2>3, <3>1 DEF MarkGuarded
      <3>3. ASSUME NEW u \in Threads, alt_fd_list'[call'[u].fd].dev = alt_fd_list'[k].dev,
                   call'[u].at \in {"flags", "scan", "device"}
            PROVE  /\ call'[u].at \in {"flags", "scan"} => k \in met'[u]
                   /\ call'[u].at # "device"
        <4>1. call'[u] = call[u] /\ alt_fd_list'[call'[u].fd] = alt_fd_list[call[u].fd]
          BY <2>4, <3>3
        <4>q. QED  BY <2>1, <3>1, <3>3, <4>1 DEF MarkGuarded
      <3>q. QED  BY <3>2, <3>3
    <2>7. OneLockPerDevice'  BY <1>1, <2>1 DEF OneLockPerDevice
    <2>q. QED  BY <2>5, <2>6, <2>7
  <1>q. QED  BY <1>4, <1>5

(* A lock that is granted finds the device open elsewhere only if that is  *)
(* the descriptor at the mark, and then that one holds no lock.            *)
LEMMA LockLocks ==
    ASSUME IInv, LInv, NEW t \in Threads, NEW fd \in opened \cup Std, Lock(t, fd)
    PROVE  LInv'
  <1> USE DEF IInv, LInv
  <1>1. /\ fd \in Fds /\ alt_fd_list[fd].isdev /\ LockGranted(fd)
        /\ opened' = opened /\ alt_max_fd' = alt_max_fd /\ call' = call /\ met' = met
    BY PoolAssumption DEF Lock, TypeOK, Fds, Std
  <1>2. /\ alt_fd_list'[fd] = [alt_fd_list[fd] EXCEPT !.excl = TRUE]
        /\ \A j \in Fds \ {fd} : alt_fd_list'[j] = alt_fd_list[j]
    BY <1>1 DEF Lock, TypeOK
  <1>3. /\ \A j \in Fds : alt_fd_list'[j].dev = alt_fd_list[j].dev
        /\ \A j \in Fds : alt_fd_list'[j].excl <=> alt_fd_list[j].excl \/ j = fd
    BY <1>1, <1>2 DEF TypeOK, Entry
  <1>4. \A u \in Threads : call[u].fd \in Fds /\ met[u] \subseteq Fds
    BY DEF TypeOK, Call
  <1>5. opened \cup Std \subseteq Fds /\ Fds \subseteq Nat /\ alt_max_fd \in -1..MAX_FD - 1
    BY PoolAssumption DEF TypeOK, Fds, Std
  <1>6. StillMet'  BY <1>1, <1>3, <1>4 DEF StillMet
  <1>7. ASSUME NEW j \in Fds, j # fd, alt_fd_list[j].dev = alt_fd_list[fd].dev
        PROVE  j = alt_max_fd
    <2>1. alt_fd_list[fd].dev # NoDevice  BY <1>1 DEF DevicesOnlyLocked
    <2>2. j <= alt_max_fd
      <3>1. CASE j \notin Std
        <4>1. j \in InUse  BY <1>7, <2>1, <3>1 DEF InUse, Free
        <4>q. QED  BY <4>1 DEF WatermarkCovers
      <3>2. CASE j \in Std
        <4>1. 3 <= alt_max_fd
          <5>1. CASE fd \in Std  BY <1>1, <5>1 DEF StdDevicesCovered
          <5>2. CASE fd \notin Std
            <6>1. fd \in InUse  BY <1>1, <2>1, <5>2 DEF InUse, Free
            <6>2. fd <= alt_max_fd  BY <6>1 DEF WatermarkCovers
            <6>3. fd >= 3  BY <1>1, <5>2, PoolAssumption DEF Fds, Std
            <6>q. QED  BY <1>5, <1>1, <6>2, <6>3
          <5>q. QED  BY <5>1, <5>2
        <4>q. QED  BY <1>5, <3>2, <4>1 DEF Std
      <3>q. QED  BY <3>1, <3>2
    <2>3. ~(j \in 0..alt_max_fd - 1)  BY <1>1, <1>7 DEF LockGranted
    <2>q. QED  BY <1>5, <2>2, <2>3
  <1>8. ASSUME NEW j \in Fds, j # fd, alt_fd_list[j].excl
        PROVE  alt_fd_list[j].dev # alt_fd_list[fd].dev
    <2>1. CASE j = alt_max_fd  BY <1>8, <2>1 DEF MarkGuarded
    <2>2. CASE j # alt_max_fd  BY <1>7, <1>8, <2>2
    <2>q. QED  BY <2>1, <2>2
  <1>9. OneLockPerDevice'
    <2> SUFFICES ASSUME NEW j \in Fds, NEW k \in Fds, alt_fd_list'[j].excl, alt_fd_list'[k].excl,
                        alt_fd_list'[j].dev = alt_fd_list'[k].dev
                 PROVE  j = k
      BY DEF OneLockPerDevice
    <2>1. CASE j # fd /\ k # fd  BY <1>3, <2>1 DEF OneLockPerDevice
    <2>2. CASE j = fd /\ k # fd  BY <1>3, <1>8, <2>2
    <2>3. CASE j # fd /\ k = fd  BY <1>3, <1>8, <2>3
    <2>q. QED  BY <2>1, <2>2, <2>3
  <1>10. MarkGuarded'
    <2> SUFFICES ASSUME NEW k \in Fds, alt_fd_list'[k].excl, k = alt_max_fd
                 PROVE  /\ \A j \in opened \cup Std :
                             j # k => alt_fd_list'[j].dev # alt_fd_list'[k].dev
                        /\ \A u \in Threads :
                             alt_fd_list'[call[u].fd].dev = alt_fd_list'[k].dev =>
                                 /\ call[u].at \in {"flags", "scan"} => k \in met[u]
                                 /\ call[u].at # "device"
      BY <1>1 DEF MarkGuarded
    <2>1. CASE k # fd  BY <1>3, <1>4, <1>5, <2>1 DEF MarkGuarded
    <2>2. CASE k = fd
      <3>1. \A j \in Fds : j # fd => alt_fd_list[j].dev # alt_fd_list[fd].dev
        BY <1>7, <2>2
      <3>2. ASSUME NEW u \in Threads, Opening(u) PROVE call[u].fd # fd
        BY <3>2 DEF Opening, OpensNotStd, EachHasOneOwner, Inside
      <3>q. QED  BY <1>3, <1>4, <1>5, <2>2, <3>1, <3>2 DEF Opening
    <2>q. QED  BY <2>1, <2>2
  <1>q. QED  BY <1>6, <1>9, <1>10

LEMMA UnlockLocks ==
    ASSUME IInv, LInv, NEW t \in Threads, NEW fd \in opened \cup Std, Unlock(t, fd)
    PROVE  LInv'
  <1> USE DEF IInv, LInv
  <1>1. /\ fd \in Fds /\ opened' = opened /\ alt_max_fd' = alt_max_fd /\ call' = call
        /\ \A u \in Threads : met'[u] = met[u] \ {fd}
    BY PoolAssumption DEF Unlock, Forget, TypeOK, Fds, Std
  <1>2. /\ alt_fd_list'[fd] = [alt_fd_list[fd] EXCEPT !.excl = FALSE]
        /\ \A j \in Fds \ {fd} : alt_fd_list'[j] = alt_fd_list[j]
    BY <1>1 DEF Unlock, TypeOK
  <1>3. /\ \A j \in Fds : alt_fd_list'[j].dev = alt_fd_list[j].dev
        /\ \A j \in Fds : alt_fd_list'[j].excl <=> alt_fd_list[j].excl /\ j # fd
    BY <1>1, <1>2 DEF TypeOK, Entry
  <1>4. \A u \in Threads : call[u].fd \in Fds /\ met[u] \subseteq Fds
    BY DEF TypeOK, Call
  <1>5. opened \cup Std \subseteq Fds  BY PoolAssumption DEF TypeOK, Fds, Std
  <1>6. StillMet'  BY <1>1, <1>3, <1>4 DEF StillMet
  <1>7. MarkGuarded'  BY <1>1, <1>3, <1>4, <1>5 DEF MarkGuarded
  <1>8. OneLockPerDevice'  BY <1>3 DEF OneLockPerDevice
  <1>q. QED  BY <1>6, <1>7, <1>8

LEMMA NextLInv == IInv /\ IInv' /\ LInv /\ [Next]_vars => LInv'
  <1> SUFFICES ASSUME IInv, IInv', LInv, [Next]_vars PROVE LInv'  OBVIOUS
  <1>1. CASE \/ RedirectMissing
             \/ \E dev \in Devices, ok \in BOOLEAN : RedirectTo(dev, ok)
    BY <1>1, RedirectLocks
  <1>2. ASSUME NEW t \in Threads,
               \/ \E dev \in Devices \cup FileSystems \cup {NullDevice} : OpenClaim(t, dev)
               \/ OpenFlags(t) \/ OpenScan(t) \/ OpenDevice(t) \/ Release(t)
               \/ \E fd \in opened \cup Std : Close(t, fd) \/ Lock(t, fd) \/ Unlock(t, fd)
        PROVE  LInv'
    BY <1>2, ClaimLocks, FlagsLocks, ScanLocks, DeviceLocks, ReleaseLocks, CloseLocks,
       LockLocks, UnlockLocks
  <1>3. CASE UNCHANGED vars
    BY <1>3 DEF vars, LInv, StillMet, MarkGuarded, OneLockPerDevice
  <1>q. QED  BY <1>1, <1>2, <1>3 DEF Next

LEMMA LInvHolds == Spec => []LInv
  BY IInvHolds, InitLInv, NextLInv, PTL DEF Spec

(* Never two locks on one device: the grant, which leaves out the          *)
(* descriptor at the mark, is made up for by the search of every open.     *)
THEOREM AlwaysOneLock == Spec => []OneLockPerDevice
  <1>1. LInv => OneLockPerDevice  BY DEF LInv
  <1>q. QED  BY <1>1, LInvHolds, PTL

(* An open that a lock met at its claim fails while the lock lasts, because*)
(* the search goes upwards and the lock stays ahead of it, below the mark. *)
THEOREM LockedOpensAlwaysFail == Spec => LockedOpensFail
  <1>1. IInv /\ LInv /\ [Next]_vars =>
          [\A t \in Threads :
             call[t].at = "scan" /\ call'[t].at = "device" => met[t] = {}]_vars
    <2> SUFFICES ASSUME IInv, LInv, Next, NEW t \in Threads,
                        call[t].at = "scan", call'[t].at = "device"
                 PROVE  met[t] = {}
      OBVIOUS
    <2>1. OpenScan(t)
      BY DEF IInv, Next, RedirectMissing, RedirectTo, OpenClaim, OpenFlags, OpenScan,
             OpenDevice, Release, Close, Lock, Unlock, TypeOK, Idle
    <2>q. QED  BY <2>1, ScanLocks
  <1>q. QED  BY <1>1, IInvHolds, LInvHolds, PTL DEF Spec, LockedOpensFail
=============================================================================
