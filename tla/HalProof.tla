------------------------------- MODULE HalProof -------------------------------
(***************************************************************************)
(* Theorems about two parts of the hardware abstraction layer.             *)
(*                                                                         *)
(* For every ALT_MAX_FD and every set of devices: the descriptor table     *)
(* keeps its types, no open descriptor lies above the high-water mark, and *)
(* no two descriptors of one device hold the lock, although alt_fd_lock    *)
(* leaves one entry out of its search.                                     *)
(*                                                                         *)
(* For words of any width and any number of alarms: alt_tick() rings every *)
(* alarm in the tick it was asked for.                                     *)
(***************************************************************************)
EXTENDS FileTable, Alarms, TLAPS

(* Why the entry alt_fd_lock skips does no harm to the locks: a locked     *)
(* descriptor at the mark was granted its lock after a search of all the   *)
(* lower ones, and since then open has refused the device.                 *)
TopLockIsAlone ==
    \A g \in excl : g >= alt_max_fd =>
        \A i \in Fd : i < g => fdev[i] # fdev[g]

(* Only open descriptors opened by the program are ever locked. *)
LocksAreOpen == \A g \in excl : Open(g) /\ g \in isdev

NoLockAtBoot == stage # "main" => excl = {}

(* The standard descriptors are never free; one that has been redirected   *)
(* is the console in its direction, and the boot redirects all three.      *)
StdOpen == \A i \in Std : Open(i)

Redirected(i) == fdev[i] = Stdio /\ mode[i] = IF i = 0 THEN "rdonly" ELSE "wronly"

StdRedirected ==
    /\ \A i \in Std : i \in isdev => Redirected(i)
    /\ stage # "drivers" => registered = Device
    /\ stage = "stdin" => 1 \in isdev
    /\ stage = "stderr" => 0 \in isdev /\ 1 \in isdev
    /\ stage = "main" => \A i \in Std : i \in isdev
    /\ stage \in {"stdin", "stderr", "main"} => alt_max_fd >= 3

(* With three descriptors sharing it, the console is never locked. *)
ConsoleUnlocked == \A g \in excl : fdev[g] # Stdio

TableInv ==
    /\ TableTypeOK /\ HighWater /\ OneLockPerDevice /\ TopLockIsAlone
    /\ LocksAreOpen /\ NoLockAtBoot /\ StdOpen /\ StdRedirected /\ ConsoleUnlocked

LEMMA FdFacts ==
    /\ Std \subseteq Fd /\ Fd \subseteq Int
    /\ \A i \in Fd : i \notin Std => i >= 3
BY TableAssumption DEF Std, Fd

(* The initial table. *)
LEMMA TableStarts == TableInit => TableInv
<1> SUFFICES ASSUME TableInit
             PROVE  TableInv
  OBVIOUS
<1> USE TableAssumption, FdFacts DEF TableInit
<1>1. TableTypeOK
  BY DEF TableTypeOK, Modes
<1>2. HighWater /\ StdOpen
  BY DEF HighWater, StdOpen, Open
<1>3. OneLockPerDevice /\ TopLockIsAlone /\ LocksAreOpen /\ NoLockAtBoot /\ ConsoleUnlocked
  BY DEF OneLockPerDevice, TopLockIsAlone, LocksAreOpen, NoLockAtBoot, ConsoleUnlocked
<1>4. StdRedirected
  BY DEF StdRedirected
<1> QED
  BY <1>1, <1>2, <1>3, <1>4 DEF TableInv

(* The high-water mark rises to what open takes, and never falls. *)
LEMMA HigherFacts ==
    ASSUME TableInv, NEW i \in Fd
    PROVE  Higher(i) \in Int /\ Higher(i) >= i /\ Higher(i) >= alt_max_fd
           /\ (Higher(i) = i \/ Higher(i) = alt_max_fd)
           /\ -1 <= Higher(i) /\ Higher(i) < MaxFd
BY TableAssumption, FdFacts DEF Higher, Fd, TableInv, TableTypeOK

LEMMA FreeIsPrograms ==
    ASSUME TableInv, NEW i \in Fd, Free(i)
    PROVE  i \notin Std /\ i >= 3 /\ ~Open(i) /\ i \notin excl
BY FdFacts DEF TableInv, StdOpen, LocksAreOpen, Free

-----------------------------------------------------------------------------
(* Every call of the program keeps the invariant. *)
LEMMA OpenKeeps ==
    ASSUME TableInv, stage = "main", UNCHANGED <<stage, registered>>,
           NEW i \in Fd, NEW dev \in Device, NEW m \in Modes, NEW nb \in BOOLEAN,
           OpenWorks(i, dev, m, nb)
    PROVE  TableInv'
<1>1. /\ fdev' = [fdev EXCEPT ![i] = dev] /\ mode' = [mode EXCEPT ![i] = m]
      /\ isdev' = isdev \cup {i} /\ excl' = excl \ {i}
      /\ alt_max_fd' = Higher(i) /\ nonblock' \subseteq Fd
  BY DEF OpenWorks, Taken, TableInv, TableTypeOK
<1>2. /\ i \notin Std /\ i >= 3 /\ ~Open(i) /\ excl' = excl
      /\ i \notin excl
  BY <1>1, FreeIsPrograms DEF OpenWorks
<1>3. TableTypeOK'
  BY <1>1, <1>2, HigherFacts DEF TableInv, TableTypeOK
<1>4. \A k \in Fd : k # i => fdev'[k] = fdev[k] /\ mode'[k] = mode[k]
  BY <1>1 DEF TableInv, TableTypeOK
<1>5. fdev'[i] = dev
  BY <1>1 DEF TableInv, TableTypeOK
<1>6. HighWater'
  <2> SUFFICES ASSUME NEW k \in Fd, fdev'[k] # "none", k \notin Std
               PROVE  k <= alt_max_fd'
    BY DEF HighWater, Open
  <2>1. CASE k = i
    BY <2>1, <1>1, HigherFacts, FdFacts
  <2>2. CASE k # i
    <3>1. k <= alt_max_fd
      BY <2>2, <1>4 DEF TableInv, HighWater, Open
    <3> QED
      BY <3>1, <1>1, HigherFacts, FdFacts DEF TableInv, TableTypeOK
  <2> QED
    BY <2>1, <2>2
<1>7. OneLockPerDevice'
  BY <1>2, <1>4 DEF TableInv, OneLockPerDevice, TableTypeOK
<1>8. \A g \in excl : g \notin Std /\ g <= alt_max_fd /\ fdev[g] # dev
  <2> TAKE g \in excl
  <2>1. g \in Fd /\ g # i /\ Open(g)
    BY <1>2 DEF TableInv, TableTypeOK, LocksAreOpen
  <2>2. g \notin Std
    BY <2>1 DEF TableInv, ConsoleUnlocked, StdRedirected, Redirected
  <2>3. g <= alt_max_fd
    BY <2>1, <2>2 DEF TableInv, HighWater
  <2>4. g <= Higher(i)
    BY <2>1, <2>3, HigherFacts, FdFacts DEF TableInv, TableTypeOK
  <2> QED
    BY <2>1, <2>2, <2>3, <2>4 DEF OpenWorks, alt_file_locked
<1>9. TopLockIsAlone'
  <2> SUFFICES ASSUME NEW g \in excl, g >= alt_max_fd', NEW k \in Fd, k < g
               PROVE  fdev'[k] # fdev'[g]
    BY <1>2 DEF TopLockIsAlone
  <2>1. g \in Fd /\ g # i
    BY <1>2 DEF TableInv, TableTypeOK
  <2>2. g >= alt_max_fd
    BY <2>1, <1>1, HigherFacts, FdFacts DEF TableInv, TableTypeOK
  <2>3. fdev'[g] = fdev[g]
    BY <2>1, <1>4
  <2>4. CASE k = i
    BY <2>4, <2>3, <1>5, <1>8
  <2>5. CASE k # i
    BY <2>5, <2>3, <2>2, <1>4 DEF TableInv, TopLockIsAlone
  <2> QED
    BY <2>4, <2>5
<1>10. LocksAreOpen' /\ NoLockAtBoot' /\ StdOpen'
  BY <1>1, <1>2, <1>4, FdFacts DEF TableInv, TableTypeOK, LocksAreOpen, NoLockAtBoot, StdOpen, Open
<1>11. ConsoleUnlocked'
  BY <1>2, <1>4 DEF TableInv, TableTypeOK, ConsoleUnlocked
<1>12. alt_max_fd' >= 3
  BY <1>1, HigherFacts DEF TableInv, TableTypeOK, StdRedirected
<1>13. StdRedirected'
  BY <1>1, <1>2, <1>4, <1>12, FdFacts DEF TableInv, StdRedirected, Redirected
<1> QED
  BY <1>3, <1>6, <1>7, <1>9, <1>10, <1>11, <1>13 DEF TableInv


(* A failed open, a close: descriptor i, not a standard one, is cleared.   *)
LEMMA ClearedKeeps ==
    ASSUME TableInv, stage = "main", UNCHANGED <<stage, registered>>,
           NEW i \in Fd, i \notin Std, TakenBack(i),
           alt_max_fd' \in Int, alt_max_fd' >= alt_max_fd, alt_max_fd' < MaxFd
    PROVE  TableInv'
<1>1. /\ fdev' = [fdev EXCEPT ![i] = "none"] /\ mode' = [mode EXCEPT ![i] = "rdonly"]
      /\ isdev' = isdev \ {i} /\ excl' = excl \ {i} /\ nonblock' \subseteq Fd
  BY DEF TakenBack, TableInv, TableTypeOK
<1>2. \A k \in Fd : k # i => fdev'[k] = fdev[k] /\ mode'[k] = mode[k]
  BY <1>1 DEF TableInv, TableTypeOK
<1>3. fdev'[i] = "none"
  BY <1>1 DEF TableInv, TableTypeOK
<1>4. TableTypeOK'
  BY <1>1, TableAssumption DEF TableInv, TableTypeOK, Modes
<1>5. HighWater'
  <2> SUFFICES ASSUME NEW k \in Fd, fdev'[k] # "none", k \notin Std
               PROVE  k <= alt_max_fd'
    BY DEF HighWater, Open
  <2>1. k # i
    BY <1>3
  <2>2. k <= alt_max_fd
    BY <2>1, <1>2 DEF TableInv, HighWater, Open
  <2> QED
    BY <2>2, FdFacts DEF TableInv, TableTypeOK
<1>6. OneLockPerDevice'
  BY <1>1, <1>2 DEF TableInv, OneLockPerDevice, TableTypeOK
<1>7. TopLockIsAlone'
  <2> SUFFICES ASSUME NEW g \in excl', g >= alt_max_fd', NEW k \in Fd, k < g
               PROVE  fdev'[k] # fdev'[g]
    BY DEF TopLockIsAlone
  <2>1. g \in Fd /\ g # i /\ g \in excl
    BY <1>1 DEF TableInv, TableTypeOK
  <2>2. g >= alt_max_fd
    BY <2>1, FdFacts DEF TableInv, TableTypeOK
  <2>3. fdev'[g] = fdev[g] /\ fdev[g] # "none"
    BY <2>1, <1>2 DEF TableInv, LocksAreOpen, Open
  <2>4. CASE k = i
    BY <2>4, <2>3, <1>3
  <2>5. CASE k # i
    BY <2>5, <2>3, <2>2, <2>1, <1>2 DEF TableInv, TopLockIsAlone
  <2> QED
    BY <2>4, <2>5
<1>8. LocksAreOpen' /\ NoLockAtBoot' /\ StdOpen' /\ ConsoleUnlocked'
  BY <1>1, <1>2, FdFacts
     DEF TableInv, TableTypeOK, LocksAreOpen, NoLockAtBoot, StdOpen, Open, ConsoleUnlocked
<1>9. alt_max_fd' >= 3
  BY DEF TableInv, TableTypeOK, StdRedirected
<1>10. StdRedirected'
  BY <1>1, <1>2, <1>9, FdFacts DEF TableInv, StdRedirected, Redirected
<1> QED
  BY <1>4, <1>5, <1>6, <1>7, <1>8, <1>10 DEF TableInv

LEMMA OpenLockedKeeps ==
    ASSUME TableInv, stage = "main", UNCHANGED <<stage, registered>>,
           NEW i \in Fd, NEW dev, OpenLocked(i, dev)
    PROVE  TableInv'
BY ClearedKeeps, HigherFacts, FreeIsPrograms DEF OpenLocked

(* Calls that leave the devices alone: the table is the same for all that  *)
(* the invariant says of devices, modes and the high-water mark.           *)
LEMMA LockKeeps ==
    ASSUME TableInv, stage = "main", UNCHANGED <<stage, registered>>,
           NEW i \in Fd, Lock(i)
    PROVE  TableInv'
<1>1. UNCHANGED <<fdev, mode, nonblock, isdev, alt_max_fd>>
  BY DEF Lock
<1>2. CASE UNCHANGED excl
  BY <1>1, <1>2
     DEF TableInv, TableTypeOK, HighWater, OneLockPerDevice, TopLockIsAlone, LocksAreOpen,
         NoLockAtBoot, StdOpen, StdRedirected, Redirected, ConsoleUnlocked, Open
<1>3. CASE i \in isdev /\ ~SharedBelow(i, alt_max_fd) /\ excl' = excl \cup {i}
  <2>1. \A k \in Fd : k < alt_max_fd /\ k # i => fdev[k] # fdev[i]
    BY <1>3 DEF SharedBelow
  <2>2. Open(i)
    BY DEF Lock
  <2>3. fdev[i] # Stdio
    <3>1. PICK k \in Std : k # i /\ k \in Fd /\ k < 3
      BY FdFacts DEF Std
    <3>2. fdev[k] = Stdio /\ k < alt_max_fd
      BY <3>1, FdFacts DEF TableInv, TableTypeOK, StdRedirected, Redirected
    <3> QED
      BY <3>1, <3>2, <2>1
  <2>4. i \notin Std
    BY <2>3 DEF TableInv, StdRedirected, Redirected
  <2>5. i <= alt_max_fd
    BY <2>2, <2>4 DEF TableInv, HighWater
  <2>6. OneLockPerDevice'
    <3>1. ASSUME NEW g \in excl, g # i
          PROVE  fdev[g] # fdev[i]
      <4>1. g \in Fd /\ Open(g) /\ g \notin Std
        BY DEF TableInv, TableTypeOK, LocksAreOpen, ConsoleUnlocked, StdRedirected, Redirected
      <4>2. g <= alt_max_fd
        BY <4>1 DEF TableInv, HighWater
      <4>3. CASE g < alt_max_fd
        BY <4>3, <4>1, <3>1, <2>1
      <4>4. CASE g = alt_max_fd
        BY <4>4, <4>1, <3>1, <2>5, FdFacts DEF TableInv, TableTypeOK, TopLockIsAlone
      <4> QED
        BY <4>2, <4>3, <4>4, <4>1, FdFacts DEF TableInv, TableTypeOK
    <3> QED
      BY <3>1, <1>1, <1>3 DEF TableInv, OneLockPerDevice
  <2>7. TopLockIsAlone'
    <3> SUFFICES ASSUME NEW g \in excl', g >= alt_max_fd, NEW k \in Fd, k < g
                 PROVE  fdev[k] # fdev[g]
      BY <1>1 DEF TopLockIsAlone
    <3>1. CASE g = i
      BY <3>1, <2>1, <2>5, FdFacts DEF TableInv, TableTypeOK
    <3>2. CASE g # i
      BY <3>2, <1>3 DEF TableInv, TopLockIsAlone
    <3> QED
      BY <3>1, <3>2
  <2>8. TableTypeOK' /\ HighWater' /\ StdOpen' /\ NoLockAtBoot'
    BY <1>1, <1>3 DEF TableInv, TableTypeOK, HighWater, StdOpen, NoLockAtBoot, Open
  <2>9. LocksAreOpen' /\ StdRedirected' /\ ConsoleUnlocked'
    BY <1>1, <1>3, <2>2, <2>3
       DEF TableInv, LocksAreOpen, StdRedirected, Redirected, ConsoleUnlocked, Open
  <2> QED
    BY <2>6, <2>7, <2>8, <2>9 DEF TableInv
<1> QED
  BY <1>2, <1>3 DEF Lock

LEMMA UnlockKeeps ==
    ASSUME TableInv, NEW i \in Fd, Unlock(i) \/ \E nb \in BOOLEAN : alt_fcntl(i, nb),
           UNCHANGED <<stage, registered>>
    PROVE  TableInv'
<1>1. /\ UNCHANGED <<fdev, mode, isdev, alt_max_fd>> /\ excl' \subseteq excl
      /\ nonblock' \subseteq Fd
  BY DEF Unlock, alt_fcntl, TableInv, TableTypeOK
<1>2. TableTypeOK' /\ HighWater' /\ StdOpen' /\ StdRedirected'
  BY <1>1 DEF TableInv, TableTypeOK, HighWater, StdOpen, StdRedirected, Redirected, Open
<1>3. OneLockPerDevice' /\ TopLockIsAlone' /\ LocksAreOpen' /\ NoLockAtBoot' /\ ConsoleUnlocked'
  BY <1>1 DEF TableInv, OneLockPerDevice, TopLockIsAlone, LocksAreOpen, NoLockAtBoot,
              ConsoleUnlocked, Open
<1> QED
  BY <1>2, <1>3 DEF TableInv

LEMMA CloseKeeps ==
    ASSUME TableInv, stage = "main", UNCHANGED <<stage, registered>>,
           NEW i \in Fd, alt_close(i)
    PROVE  TableInv'
<1>1. CASE i > 2
  <2>1. i \notin Std /\ TakenBack(i) /\ alt_max_fd' = alt_max_fd
    BY <1>1, FdFacts DEF alt_close, Std
  <2> QED
    BY <2>1, ClearedKeeps DEF TableInv, TableTypeOK
<1>2. CASE ~(i > 2)
  BY <1>2
     DEF alt_close, TableInv, TableTypeOK, HighWater, OneLockPerDevice, TopLockIsAlone,
         LocksAreOpen, NoLockAtBoot, StdOpen, StdRedirected, Redirected, ConsoleUnlocked, Open
<1> QED
  BY <1>1, <1>2

-----------------------------------------------------------------------------
(* The boot. *)
LEMMA DriversKeep ==
    ASSUME TableInv, alt_sys_init
    PROVE  TableInv'
BY DEF alt_sys_init, TableInv, TableTypeOK, HighWater, OneLockPerDevice, TopLockIsAlone,
       LocksAreOpen, NoLockAtBoot, StdOpen, StdRedirected, Redirected, ConsoleUnlocked, Open

LEMMA RedirectKeeps ==
    ASSUME TableInv, NEW std \in Std, NEW at, at \in {"stdout", "stdin", "stderr"},
           NEW next, NEW m \in Modes, Redirect(at, std, m, next),
           m = IF std = 0 THEN "rdonly" ELSE "wronly",
           \/ at = "stdout" /\ std = 1 /\ next = "stdin"
           \/ at = "stdin" /\ std = 0 /\ next = "stderr"
           \/ at = "stderr" /\ std = 2 /\ next = "main"
    PROVE  TableInv'
<1>1. stage = at /\ stage' = next /\ registered' = registered /\ alt_open_fd(std, m)
  BY DEF Redirect
<1>2. Stdio \in registered /\ excl = {} /\ std \in Fd
  BY <1>1, TableAssumption, FdFacts DEF TableInv, StdRedirected, NoLockAtBoot
<1>3. PICK i \in Fd : Free(i) /\ alt_max_fd' = Higher(i) /\ Taken(std, Stdio, m, FALSE)
  BY <1>1, <1>2 DEF alt_open_fd
<1>4. /\ fdev' = [fdev EXCEPT ![std] = Stdio] /\ mode' = [mode EXCEPT ![std] = m]
      /\ isdev' = isdev \cup {std} /\ excl' = {} /\ nonblock' \subseteq Fd
  BY <1>2, <1>3 DEF Taken, TableInv, TableTypeOK
<1>5. /\ alt_max_fd' \in Int /\ alt_max_fd' >= 3 /\ alt_max_fd' >= alt_max_fd
      /\ alt_max_fd' < MaxFd
  BY <1>3, HigherFacts, FreeIsPrograms, FdFacts DEF TableInv, TableTypeOK
<1>6. \A k \in Fd : k # std => fdev'[k] = fdev[k] /\ mode'[k] = mode[k]
  BY <1>4 DEF TableInv, TableTypeOK
<1>7. fdev'[std] = Stdio /\ mode'[std] = m
  BY <1>4, <1>2 DEF TableInv, TableTypeOK
<1>8. TableTypeOK'
  BY <1>1, <1>2, <1>4, <1>5, TableAssumption DEF TableInv, TableTypeOK
<1>9. HighWater'
  <2> SUFFICES ASSUME NEW k \in Fd, fdev'[k] # "none", k \notin Std
               PROVE  k <= alt_max_fd'
    BY DEF HighWater, Open
  <2>1. k <= alt_max_fd
    BY <1>6 DEF TableInv, HighWater, Open
  <2> QED
    BY <2>1, <1>5, FdFacts DEF TableInv, TableTypeOK
<1>10. OneLockPerDevice' /\ TopLockIsAlone' /\ LocksAreOpen' /\ NoLockAtBoot' /\ ConsoleUnlocked'
  BY <1>4 DEF OneLockPerDevice, TopLockIsAlone, LocksAreOpen, NoLockAtBoot, ConsoleUnlocked
<1>11. StdOpen'
  BY <1>6, <1>7, FdFacts, TableAssumption DEF TableInv, StdOpen, Open
<1>12. \A k \in Std : k \in isdev' => Redirected(k)'
  BY <1>4, <1>6, <1>7, FdFacts DEF TableInv, StdRedirected, Redirected
<1>13. StdRedirected'
  <2>1. registered' = Device
    BY <1>1 DEF TableInv, StdRedirected
  <2>2. /\ stage' = "stdin" => 1 \in isdev'
        /\ stage' = "stderr" => 0 \in isdev' /\ 1 \in isdev'
        /\ stage' = "main" => \A k \in Std : k \in isdev'
    BY <1>1, <1>4 DEF TableInv, StdRedirected, Std
  <2> QED
    BY <2>1, <2>2, <1>5, <1>12 DEF StdRedirected
<1> QED
  BY <1>8, <1>9, <1>10, <1>11, <1>13 DEF TableInv

-----------------------------------------------------------------------------
LEMMA TableStep == TableInv /\ [TableNext]_tvars => TableInv'
<1> SUFFICES ASSUME TableInv, [TableNext]_tvars
             PROVE  TableInv'
  OBVIOUS
<1>1. CASE alt_sys_init
  BY <1>1, DriversKeep
<1>2. CASE alt_io_redirect
  <2>1. CASE Redirect("stdout", 1, "wronly", "stdin")
    BY <2>1, RedirectKeeps DEF Std, Modes
  <2>2. CASE Redirect("stdin", 0, "rdonly", "stderr")
    BY <2>2, RedirectKeeps DEF Std, Modes
  <2>3. CASE Redirect("stderr", 2, "wronly", "main")
    BY <2>3, RedirectKeeps DEF Std, Modes
  <2> QED
    BY <1>2, <2>1, <2>2, <2>3 DEF alt_io_redirect
<1>3. CASE Program
  <2>1. stage = "main" /\ UNCHANGED <<stage, registered>> /\ Call
    BY <1>3 DEF Program
  <2>2. ASSUME NEW dev \in Device \cup {"other"}, NEW m \in Modes, NEW nb \in BOOLEAN,
               alt_open(dev, m, nb)
        PROVE  TableInv'
    <3>1. CASE UNCHANGED <<fdev, mode, nonblock, isdev, excl, alt_max_fd>>
      BY <3>1, <2>1
         DEF TableInv, TableTypeOK, HighWater, OneLockPerDevice, TopLockIsAlone,
             LocksAreOpen, NoLockAtBoot, StdOpen, StdRedirected, Redirected,
             ConsoleUnlocked, Open
    <3>2. ASSUME NEW i \in Fd, OpenLocked(i, dev)
          PROVE  TableInv'
      BY <3>2, <2>1, OpenLockedKeeps
    <3>3. ASSUME NEW i \in Fd, OpenWorks(i, dev, m, nb)
          PROVE  TableInv'
      <4>1. dev \in Device
        BY <3>3 DEF OpenWorks, TableInv, TableTypeOK
      <4> QED
        BY <4>1, <3>3, <2>1, OpenKeeps
    <3> QED
      BY <2>2, <3>1, <3>2, <3>3 DEF alt_open, OpenNoDevice, OpenNoDescriptor
  <2>3. ASSUME NEW i \in Fd, alt_close(i) \/ Lock(i) \/ Unlock(i)
        PROVE  TableInv'
    BY <2>3, <2>1, CloseKeeps, LockKeeps, UnlockKeeps
  <2>4. ASSUME NEW i \in Fd, NEW nb \in BOOLEAN, alt_fcntl(i, nb)
        PROVE  TableInv'
    BY <2>4, <2>1, UnlockKeeps
  <2> QED
    BY <2>1, <2>2, <2>3, <2>4 DEF Call
<1>4. CASE UNCHANGED tvars
  BY <1>4
     DEF tvars, TableInv, TableTypeOK, HighWater, OneLockPerDevice, TopLockIsAlone,
         LocksAreOpen, NoLockAtBoot, StdOpen, StdRedirected, Redirected, ConsoleUnlocked, Open
<1> QED
  BY <1>1, <1>2, <1>3, <1>4 DEF TableNext

LEMMA TableSafe == TableSpec => []TableInv
BY TableStarts, TableStep, PTL DEF TableSpec

(* The descriptor table keeps its types: alt_fd_list and alt_max_fd. *)
THEOREM TableTypes == TableSpec => []TableTypeOK
BY TableSafe, PTL DEF TableInv

(* No descriptor the program holds lies above alt_max_fd, where the        *)
(* searches of alt_file_locked and alt_fd_lock stop.                       *)
THEOREM MarkCoversTheTable == TableSpec => []HighWater
BY TableSafe, PTL DEF TableInv

(* alt_fd_lock never grants exclusive access to a device twice, for any    *)
(* number of descriptors, devices and calls.                               *)
THEOREM LocksExclude == TableSpec => []OneLockPerDevice
BY TableSafe, PTL DEF TableInv

(* stdin, stdout and stderr stay the console that alt_io_redirect made     *)
(* them, and nobody ever locks it.                                         *)
THEOREM StdioStays == TableSpec => []StdioIsTheConsole
<1>1. TableInv => StdioIsTheConsole
  <2> SUFFICES ASSUME TableInv, stage = "main"
               PROVE  /\ \A i \in Std : fdev[i] = Stdio
                      /\ CanRead(0) /\ CanWrite(1) /\ CanWrite(2)
                      /\ \A i \in excl : fdev[i] # Stdio
    BY DEF StdioIsTheConsole
  <2>1. \A i \in Std : fdev[i] = Stdio /\ mode[i] = IF i = 0 THEN "rdonly" ELSE "wronly"
    BY DEF TableInv, StdRedirected, Redirected
  <2> QED
    BY <2>1, TableAssumption
       DEF TableInv, StdOpen, Open, Std, CanRead, CanWrite, ConsoleUnlocked
<1> QED
  BY <1>1, TableSafe, PTL

-----------------------------------------------------------------------------
(* One step and one locked descriptor i that keeps its lock: no other      *)
(* descriptor comes to its device.                                         *)
NoNewcomer(i) == \A k \in Fd : (k # i /\ fdev'[k] = fdev[i]) => fdev[k] = fdev[i]

(* What is locked lies within the search of alt_file_locked. *)
LEMMA LockedIsSearched ==
    ASSUME TableInv, NEW g \in excl
    PROVE  g \in Fd /\ g \notin Std /\ fdev[g] # "none" /\ g <= alt_max_fd /\ stage = "main"
<1>1. g \in Fd /\ Open(g) /\ g \in isdev /\ fdev[g] # Stdio /\ stage = "main"
  BY DEF TableInv, TableTypeOK, LocksAreOpen, ConsoleUnlocked, NoLockAtBoot
<1>2. g \notin Std
  BY <1>1 DEF TableInv, StdRedirected, Redirected
<1> QED
  BY <1>1, <1>2 DEF TableInv, HighWater, Open

LEMMA KeptOut ==
    ASSUME TableInv, [TableNext]_tvars, NEW i \in excl, i \in excl'
    PROVE  NoNewcomer(i)
<1>1. i \in Fd /\ fdev[i] # "none" /\ i <= alt_max_fd /\ stage = "main"
  BY LockedIsSearched
<1>2. CASE UNCHANGED fdev
  BY <1>2 DEF NoNewcomer
<1>3. ASSUME NEW j \in Fd, TakenBack(j)
      PROVE  NoNewcomer(i)
  <2>1. \A k \in Fd : fdev'[k] = IF k = j THEN "none" ELSE fdev[k]
    BY <1>3 DEF TakenBack, TableInv, TableTypeOK
  <2> QED
    BY <2>1, <1>1 DEF NoNewcomer
<1>4. ASSUME NEW j \in Fd, NEW dev, NEW m \in Modes, NEW nb \in BOOLEAN,
             OpenWorks(j, dev, m, nb)
      PROVE  NoNewcomer(i)
  <2>1. \A k \in Fd : fdev'[k] = IF k = j THEN dev ELSE fdev[k]
    BY <1>4 DEF OpenWorks, Taken, TableInv, TableTypeOK
  <2>2. j # i /\ i <= Higher(j)
    BY <1>1, <1>4, HigherFacts, FreeIsPrograms, FdFacts
       DEF OpenWorks, TableInv, TableTypeOK
  <2>3. fdev[i] # dev
    BY <1>1, <1>4, <2>2 DEF OpenWorks, alt_file_locked
  <2> QED
    BY <2>1, <2>3 DEF NoNewcomer
<1>5. CASE alt_sys_init \/ UNCHANGED tvars
  BY <1>2, <1>5 DEF alt_sys_init, tvars
<1>6. CASE alt_io_redirect
  BY <1>1, <1>6 DEF alt_io_redirect, Redirect
<1>7. CASE Program
  <2>1. ASSUME NEW j \in Fd, alt_close(j) \/ Lock(j) \/ Unlock(j)
        PROVE  NoNewcomer(i)
    BY <2>1, <1>2, <1>3 DEF alt_close, Lock, Unlock
  <2>2. ASSUME NEW j \in Fd, NEW nb \in BOOLEAN, alt_fcntl(j, nb)
        PROVE  NoNewcomer(i)
    BY <2>2, <1>2 DEF alt_fcntl
  <2>3. ASSUME NEW dev \in Device \cup {"other"}, NEW m \in Modes, NEW nb \in BOOLEAN,
               alt_open(dev, m, nb)
        PROVE  NoNewcomer(i)
    BY <2>3, <1>2, <1>3, <1>4 DEF alt_open, OpenNoDevice, OpenNoDescriptor, OpenLocked
  <2> QED
    BY <1>7, <2>1, <2>2, <2>3 DEF Program, Call
<1> QED
  BY <1>5, <1>6, <1>7 DEF TableNext

(* As long as a device is locked no open, not even one that fails half     *)
(* way, leaves another descriptor of it in alt_fd_list.                    *)
THEOREM LockedStaysAlone == TableSpec => LockKeepsOthersOut
<1> DEFINE Kept == \A i \in excl : i \in excl' =>
                       \A k \in Fd : (k # i /\ fdev'[k] = fdev[i]) => fdev[k] = fdev[i]
<1>1. TableInv /\ [TableNext]_tvars => [Kept]_tvars
  BY KeptOut DEF NoNewcomer
<1>2. TableSpec => [][Kept]_tvars
  BY <1>1, TableSafe, PTL DEF TableSpec
<1> QED
  BY <1>2 DEF LockKeepsOthersOut
-----------------------------------------------------------------------------
ListedIn(l) == {a \in Alarm : l.next[a] # a}
Links == [next : [Node -> Node], previous : [Node -> Node]]
Rank == [Alarm -> Int]

(* The pointers are those of one doubly linked list through the head ...   *)
Linked(l) ==
    /\ \A x \in ListedIn(l) \cup {List} :
        /\ l.next[x] \in ListedIn(l) \cup {List} /\ l.previous[x] \in ListedIn(l) \cup {List}
        /\ l.next[l.previous[x]] = x /\ l.previous[l.next[x]] = x
    /\ \A a \in Alarm : a \notin ListedIn(l) => l.previous[a] = a

(* ... in which the alarms can be numbered from the front to the back, and *)
(* the next one is the one with the next higher number: a walk from the    *)
(* head meets every alarm once.                                            *)
Numbered(l, rank) ==
    /\ \A a, b \in ListedIn(l) : rank[a] = rank[b] => a = b
    /\ \A a \in ListedIn(l) : l.next[a] # List => rank[a] < rank[l.next[a]]
    /\ \A a, b \in ListedIn(l) :
        rank[a] < rank[b] => l.next[a] # List /\ rank[l.next[a]] <= rank[b]
    /\ \A b \in ListedIn(l) : l.next[List] # List /\ rank[l.next[List]] <= rank[b]

(* What alt_llist.h does to such a list.  A new alarm comes first.         *)
LEMMA InsertFirst ==
    ASSUME NEW l \in Links, NEW rank \in Rank, Linked(l), Numbered(l, rank),
           NEW e \in Alarm, e \notin ListedIn(l)
    PROVE  LET k == alt_llist_insert(l, e)
           IN  /\ k \in Links /\ Linked(k) /\ ListedIn(k) = ListedIn(l) \cup {e}
               /\ \E r \in Rank : /\ Numbered(k, r)
                                  /\ \A a \in ListedIn(l) : r[a] = rank[a] /\ r[e] < r[a]
<1> DEFINE k == alt_llist_insert(l, e)
           first == l.next[List]
           L == ListedIn(l)
<1> USE AlarmAssumption
<1>1. /\ first \in L \cup {List} /\ l.next[e] = e /\ e # List /\ e # first /\ List \notin L
      /\ L \subseteq Alarm /\ first \in Node /\ e \in Node /\ List \in Node
  BY DEF Linked, ListedIn, Node
<1>2. k \in Links
  BY <1>1 DEF alt_llist_insert, Links
<1>3. /\ k.next[e] = first /\ k.next[List] = e
      /\ \A x \in Node \ {e, List} : k.next[x] = l.next[x]
  BY <1>1 DEF alt_llist_insert, Links
<1>4. /\ k.previous[first] = e /\ k.previous[e] = List
      /\ \A x \in Node \ {e, first} : k.previous[x] = l.previous[x]
  BY <1>1 DEF alt_llist_insert, Links
<1>5. ListedIn(k) = L \cup {e}
  BY <1>1, <1>3 DEF ListedIn, Node
<1>6. Linked(k)
  <2>1. \A x \in L : x # e /\ x # List /\ x \in Node
    BY <1>1 DEF Node
  <2>2. ASSUME NEW x \in L
        PROVE  /\ k.next[x] \in ListedIn(k) \cup {List} /\ k.previous[x] \in ListedIn(k) \cup {List}
               /\ k.next[k.previous[x]] = x /\ k.previous[k.next[x]] = x
    <3>1. /\ l.next[x] \in L \cup {List} /\ l.previous[x] \in L \cup {List}
          /\ l.next[l.previous[x]] = x /\ l.previous[l.next[x]] = x
      BY DEF Linked
    <3>2. l.next[x] # first
      BY <3>1, <2>1, <1>1 DEF Linked
    <3>3. k.next[x] = l.next[x] /\ k.previous[k.next[x]] = x
      BY <3>1, <3>2, <2>1, <1>1, <1>3, <1>4 DEF Node
    <3>4. CASE x = first
      BY <3>1, <3>3, <3>4, <1>3, <1>4, <1>5
    <3>5. CASE x # first
      <4>1. k.previous[x] = l.previous[x] /\ l.previous[x] # List
        BY <3>1, <3>5, <2>1, <1>4
      <4>2. k.next[l.previous[x]] = x
        BY <4>1, <3>1, <2>1, <1>1, <1>3 DEF Node
      <4> QED
        BY <4>1, <4>2, <3>1, <3>3, <1>5
    <3> QED
      BY <3>4, <3>5
  <2>3. /\ k.next[e] \in ListedIn(k) \cup {List} /\ k.previous[e] \in ListedIn(k) \cup {List}
        /\ k.next[k.previous[e]] = e /\ k.previous[k.next[e]] = e
    BY <1>1, <1>3, <1>4, <1>5
  <2>4. /\ k.next[List] \in ListedIn(k) \cup {List} /\ k.previous[List] \in ListedIn(k) \cup {List}
        /\ k.next[k.previous[List]] = List /\ k.previous[k.next[List]] = List
    <3>1. l.previous[List] \in L \cup {List} /\ l.next[l.previous[List]] = List
      BY DEF Linked
    <3>2. CASE first = List
      BY <3>2, <1>1, <1>3, <1>4, <1>5
    <3>3. CASE first # List
      <4>1. k.previous[List] = l.previous[List] /\ l.previous[List] # List
        BY <3>1, <3>3, <1>1, <1>4
      <4> QED
        BY <4>1, <3>1, <2>1, <1>1, <1>3, <1>4, <1>5
    <3> QED
      BY <3>2, <3>3
  <2>5. \A a \in Alarm : a \notin ListedIn(k) => k.previous[a] = a
    BY <1>1, <1>4, <1>5 DEF Linked, Node
  <2> QED
    BY <2>2, <2>3, <2>4, <2>5, <1>5 DEF Linked
<1>7. \E r \in Rank : /\ Numbered(k, r)
                      /\ \A a \in L : r[a] = rank[a] /\ r[e] < r[a]
  <2> DEFINE r == [rank EXCEPT ![e] = IF first = List THEN 0 ELSE rank[first] - 1]
  <2>1. r \in Rank /\ \A a \in L : a # e /\ r[a] = rank[a] /\ rank[a] \in Int
    BY <1>1 DEF Rank
  <2>2. \A a \in L : first # List /\ first \in L /\ rank[first] <= rank[a]
    BY <1>1 DEF Numbered
  <2>3. \A a \in L : r[e] < r[a]
    BY <2>1, <2>2 DEF Rank
  <2>4. \A a, b \in ListedIn(k) : r[a] = r[b] => a = b
    BY <2>1, <2>3, <1>5 DEF Numbered
  <2>5. \A a \in L : k.next[a] = l.next[a] /\ l.next[a] \in L \cup {List}
    BY <1>1, <1>3 DEF Linked, Node
  <2>6. \A a \in ListedIn(k) : k.next[a] # List => r[a] < r[k.next[a]]
    <3>1. \A a \in L : k.next[a] # List => r[a] < r[k.next[a]]
      BY <2>1, <2>5 DEF Numbered
    <3>2. k.next[e] # List => r[e] < r[k.next[e]]
      BY <1>1, <1>3, <2>3
    <3> QED
      BY <3>1, <3>2, <1>5
  <2>7. \A a, b \in ListedIn(k) : r[a] < r[b] => k.next[a] # List /\ r[k.next[a]] <= r[b]
    <3>1. \A a, b \in L : r[a] < r[b] => k.next[a] # List /\ r[k.next[a]] <= r[b]
      BY <2>1, <2>5 DEF Numbered
    <3>2. \A b \in L : k.next[e] # List /\ r[k.next[e]] <= r[b]
      BY <1>3, <2>1, <2>2
    <3>3. \A a \in L : ~(r[a] < r[e])
      BY <2>1, <2>3 DEF Rank
    <3> QED
      BY <3>1, <3>2, <3>3, <2>1, <1>5 DEF Rank
  <2>8. \A b \in ListedIn(k) : k.next[List] # List /\ r[k.next[List]] <= r[b]
    BY <1>1, <1>3, <1>5, <2>1, <2>3 DEF Rank
  <2>9. Numbered(k, r)
    BY <2>4, <2>6, <2>7, <2>8 DEF Numbered
  <2> HIDE DEF r, k
  <2> QED
    BY <2>1, <2>3, <2>9
<1> QED
  BY <1>2, <1>5, <1>6, <1>7

(* A stopped alarm points to itself, and the others are as they were.      *)
LEMMA RemoveKeeps ==
    ASSUME NEW l \in Links, NEW rank \in Rank, Linked(l), Numbered(l, rank),
           NEW e \in ListedIn(l)
    PROVE  LET k == alt_llist_remove(l, e)
           IN  /\ k \in Links /\ Linked(k) /\ Numbered(k, rank)
               /\ ListedIn(k) = ListedIn(l) \ {e}
<1> DEFINE k == alt_llist_remove(l, e)
           L == ListedIn(l)
           p == l.previous[e]
           n == l.next[e]
<1> USE AlarmAssumption
<1>1. /\ e \in Alarm /\ e \in Node /\ List \in Node /\ e # List /\ List \notin L
      /\ L \subseteq Alarm /\ L \subseteq Node
  BY DEF ListedIn, Node
<1>2. /\ p \in L \cup {List} /\ n \in L \cup {List} /\ l.next[p] = e /\ l.previous[n] = e
      /\ n # e /\ p # e
  <2>1. p \in L \cup {List} /\ n \in L \cup {List} /\ l.next[p] = e /\ l.previous[n] = e
    BY DEF Linked
  <2>2. n # e
    BY DEF ListedIn
  <2> QED
    BY <2>1, <2>2
<1>3. p \in Node /\ n \in Node
  BY <1>1, <1>2
<1>4. k \in Links
  BY <1>1, <1>3 DEF alt_llist_remove, Links
<1>5. /\ k.next[p] = n /\ k.next[e] = e
      /\ \A x \in Node \ {e, p} : k.next[x] = l.next[x]
  BY <1>1, <1>2, <1>3 DEF alt_llist_remove, Links
<1>6. /\ k.previous[n] = p /\ k.previous[e] = e
      /\ \A x \in Node \ {e, n} : k.previous[x] = l.previous[x]
  BY <1>1, <1>2, <1>3 DEF alt_llist_remove, Links
<1>7. p # List => p \in L /\ rank[p] < rank[e] /\ (n # List => rank[e] < rank[n])
  BY <1>1, <1>2 DEF Numbered
<1>8. p # List => n # p
  BY <1>1, <1>2, <1>7 DEF Rank
<1>9. ListedIn(k) = L \ {e}
  BY <1>1, <1>2, <1>5, <1>8 DEF ListedIn, Node
<1>10. Linked(k)
  <2>1. ASSUME NEW x \in (L \ {e}) \cup {List}
        PROVE  /\ k.next[x] \in ListedIn(k) \cup {List} /\ k.previous[x] \in ListedIn(k) \cup {List}
               /\ k.next[k.previous[x]] = x /\ k.previous[k.next[x]] = x
    <3>1. /\ l.next[x] \in L \cup {List} /\ l.previous[x] \in L \cup {List}
          /\ l.next[l.previous[x]] = x /\ l.previous[l.next[x]] = x
      BY DEF Linked
    <3>2. x # e /\ x \in Node
      BY <1>1
    <3>3. k.next[x] \in ListedIn(k) \cup {List} /\ k.previous[k.next[x]] = x
      <4>1. CASE x = p
        BY <4>1, <1>2, <1>5, <1>6, <1>9
      <4>2. CASE x # p
        <5>1. k.next[x] = l.next[x] /\ l.next[x] # e /\ l.next[x] # n
          BY <4>2, <3>1, <3>2, <1>2, <1>5
        <5> QED
          BY <5>1, <3>1, <1>1, <1>6, <1>9
      <4> QED
        BY <4>1, <4>2
    <3>4. k.previous[x] \in ListedIn(k) \cup {List} /\ k.next[k.previous[x]] = x
      <4>1. CASE x = n
        BY <4>1, <1>2, <1>5, <1>6, <1>9
      <4>2. CASE x # n
        <5>1. k.previous[x] = l.previous[x] /\ l.previous[x] # e /\ l.previous[x] # p
          BY <4>2, <3>1, <3>2, <1>2, <1>6
        <5> QED
          BY <5>1, <3>1, <1>1, <1>5, <1>9
      <4> QED
        BY <4>1, <4>2
    <3> QED
      BY <3>3, <3>4
  <2>2. \A a \in Alarm : a \notin ListedIn(k) => k.previous[a] = a
    BY <1>1, <1>2, <1>6, <1>9 DEF Linked, Node
  <2> QED
    BY <2>1, <2>2, <1>9 DEF Linked
<1>11. Numbered(k, rank)
  <2>1. \A a \in L : rank[a] \in Int
    BY <1>1 DEF Rank
  <2>2. \A a, b \in ListedIn(k) : rank[a] = rank[b] => a = b
    BY <1>9 DEF Numbered
  <2>3. \A a \in L : l.next[a] \in L \cup {List}
    BY DEF Linked
  <2>4. \A a \in ListedIn(k) : k.next[a] # List => rank[a] < rank[k.next[a]]
    <3> SUFFICES ASSUME NEW a \in ListedIn(k), k.next[a] # List
                 PROVE  rank[a] < rank[k.next[a]]
      OBVIOUS
    <3>1. CASE a = p
      BY <3>1, <2>1, <1>1, <1>2, <1>5, <1>7, <1>9
    <3>2. CASE a # p
      BY <3>2, <1>1, <1>5, <1>9 DEF Numbered
    <3> QED
      BY <3>1, <3>2
  <2>5. \A a, b \in ListedIn(k) :
            rank[a] < rank[b] => k.next[a] # List /\ rank[k.next[a]] <= rank[b]
    <3> SUFFICES ASSUME NEW a \in ListedIn(k), NEW b \in ListedIn(k), rank[a] < rank[b]
                 PROVE  k.next[a] # List /\ rank[k.next[a]] <= rank[b]
      OBVIOUS
    <3>1. a \in L /\ b \in L /\ a # e /\ b # e
      BY <1>9
    <3>2. CASE a = p
      <4>1. rank[e] <= rank[b]
        BY <3>1, <3>2, <1>2 DEF Numbered
      <4>2. rank[e] < rank[b]
        BY <4>1, <3>1, <2>1 DEF Numbered
      <4> QED
        BY <4>2, <3>1, <3>2, <1>5 DEF Numbered
    <3>3. CASE a # p
      BY <3>1, <3>3, <1>1, <1>5 DEF Numbered
    <3> QED
      BY <3>2, <3>3
  <2>6. \A b \in ListedIn(k) : k.next[List] # List /\ rank[k.next[List]] <= rank[b]
    <3> SUFFICES ASSUME NEW b \in ListedIn(k)
                 PROVE  k.next[List] # List /\ rank[k.next[List]] <= rank[b]
      OBVIOUS
    <3>1. b \in L /\ b # e
      BY <1>9
    <3>2. CASE p = List
      <4>1. rank[e] <= rank[b]
        BY <3>1, <3>2, <1>2 DEF Numbered
      <4>2. rank[e] < rank[b]
        BY <4>1, <3>1, <2>1 DEF Numbered
      <4> QED
        BY <4>2, <3>1, <3>2, <1>5 DEF Numbered
    <3>3. CASE p # List
      BY <3>1, <3>3, <1>1, <1>5 DEF Numbered
    <3> QED
      BY <3>2, <3>3
  <2> QED
    BY <2>2, <2>4, <2>5, <2>6 DEF Numbered
<1> QED
  BY <1>4, <1>9, <1>10, <1>11

LEMMA RemoveAgain ==
    ASSUME NEW l \in Links, Linked(l), NEW e \in Alarm, e \notin ListedIn(l)
    PROVE  alt_llist_remove(l, e) = l
<1>1. l.next[e] = e /\ l.previous[e] = e
  BY DEF Linked, ListedIn
<1> QED
  BY <1>1 DEF alt_llist_remove, Links, Node

-----------------------------------------------------------------------------
(* What "left" is, in the words of the code: an alarm whose flag is set    *)
(* waits for the wrap first.                                               *)
Counts(a) ==
    left[a] = IF RolledOver(a) THEN time[a] + TickWords - nticks ELSE time[a] - nticks

(* The alarm alt_tick() looks at next, and those it has been at.           *)
Position == IF ringing THEN following ELSE alarm
Passed(b, rank) == Position = List \/ rank[b] < rank[Position]

(* An alarm that has been passed in this tick is not due any more, but for *)
(* the one that rings, and has no flag left over from before a wrap.       *)
Walked(rank) ==
    \A b \in Listed : Passed(b, rank) =>
        /\ left[b] > 0 \/ (ringing /\ b = alarm)
        /\ nticks = 0 => ~rollover[b]

Rings ==
    ringing => /\ alarm \in Alarm /\ alarm # following
               /\ left[alarm] = 0 /\ time[alarm] = nticks /\ ~rollover[alarm]

AlarmInv ==
    /\ AlarmTypeOK /\ Linked(links) /\ Rings
    /\ Position \in Listed \cup {List}
    /\ \A a \in Listed : Counts(a)
    /\ \E rank \in Rank : Numbered(links, rank) /\ Walked(rank)

LEMMA ListedAgrees == Listed = ListedIn(links) /\ List \notin Listed /\ Listed \subseteq Alarm
BY AlarmAssumption DEF Listed, ListedIn

(* An alarm is due exactly when nothing is left. *)
LEMMA DueIsNow ==
    ASSUME AlarmTypeOK, NEW a \in Alarm, Counts(a)
    PROVE  Due(a) <=> left[a] = 0
BY AlarmAssumption DEF AlarmTypeOK, Counts, Due, RolledOver, Ticks

LEMMA AlarmStarts == AlarmInit => AlarmInv
<1> SUFFICES ASSUME AlarmInit
             PROVE  AlarmInv
  OBVIOUS
<1> USE AlarmAssumption DEF AlarmInit
<1>1. AlarmTypeOK
  <2>1. 0 \in Ticks /\ List \in Node
    BY DEF Ticks, Node
  <2>2. links \in [next : [Node -> Node], previous : [Node -> Node]]
    OBVIOUS
  <2> QED
    BY <2>1, <2>2 DEF AlarmTypeOK
<1>2. Listed = {} /\ ListedIn(links) = {}
  BY DEF Listed, ListedIn, Node
<1>3. Linked(links)
  BY <1>2 DEF Linked, Node
<1>4. Rings /\ Position \in Listed \cup {List}
  BY DEF Rings, Position
<1>5. \E rank \in Rank : Numbered(links, rank) /\ Walked(rank)
  <2>1. [a \in Alarm |-> 0] \in Rank
    BY DEF Rank
  <2> QED
    BY <2>1, <1>2 DEF Numbered, Walked
<1> QED
  BY <1>1, <1>2, <1>3, <1>4, <1>5 DEF AlarmInv

-----------------------------------------------------------------------------
LEMMA StartKeeps ==
    ASSUME AlarmInv, NEW a \in Alarm, NEW n \in 0 .. TickWords - 2, alt_alarm_start(a, n)
    PROVE  AlarmInv'
<1> USE AlarmAssumption, ListedAgrees DEF AlarmInv
<1>1. /\ n \in Nat /\ n + 1 \in Ticks /\ nticks \in Ticks /\ TickWords \in Nat
      /\ time \in [Alarm -> Ticks] /\ rollover \in [Alarm -> BOOLEAN] /\ left \in [Alarm -> Ticks]
  BY DEF AlarmTypeOK, Ticks
<1>2. Time(n) \in Ticks
  BY <1>1 DEF Time, Wrap, Ticks
<1>3. /\ links' = alt_llist_insert(links, a) /\ links \in Links /\ a \notin ListedIn(links)
      /\ UNCHANGED <<tick_rate, nticks, alarm, ringing, following>>
  BY DEF alt_alarm_start, AlarmTypeOK, Links, clockvars, walkvars
<1>4. PICK rank \in Rank : Numbered(links, rank) /\ Walked(rank)
  OBVIOUS
<1>5. /\ links' \in Links /\ Linked(links') /\ Listed' = Listed \cup {a}
      /\ \E r \in Rank : /\ Numbered(links', r)
                         /\ \A b \in Listed : r[b] = rank[b] /\ r[a] < r[b]
  BY <1>3, <1>4, InsertFirst DEF Listed, ListedIn
<1>6. PICK r \in Rank : /\ Numbered(links', r)
                        /\ \A b \in Listed : r[b] = rank[b] /\ r[a] < r[b]
  BY <1>5
<1>7. /\ time'[a] = Time(n) /\ rollover'[a] = (Time(n) < nticks) /\ left'[a] = n + 1
      /\ time' \in [Alarm -> Ticks] /\ rollover' \in [Alarm -> BOOLEAN] /\ left' \in [Alarm -> Ticks]
      /\ \A b \in Alarm : b # a => /\ time'[b] = time[b] /\ rollover'[b] = rollover[b]
                                   /\ left'[b] = left[b]
  BY <1>1, <1>2 DEF alt_alarm_start
<1>8. AlarmTypeOK'
  BY <1>3, <1>5, <1>7 DEF AlarmTypeOK, Links
<1>9. Rings'
  BY <1>3, <1>7 DEF Rings, alt_alarm_start
<1>10. Position' = Position /\ Position' \in Listed' \cup {List}
  BY <1>3, <1>5 DEF Position
<1>11. ASSUME NEW b \in Listed'
       PROVE  Counts(b)'
  <2>1. CASE b = a
    BY <2>1, <1>1, <1>3, <1>7 DEF Counts, RolledOver, Time, Wrap, Ticks
  <2>2. CASE b # a
    <3>1. b \in Listed /\ b \in Alarm
      BY <2>2, <1>5
    <3> QED
      BY <2>2, <3>1, <1>3, <1>7 DEF Counts, RolledOver
  <2> QED
    BY <2>1, <2>2
<1>12. Walked(r)'
  <2> SUFFICES ASSUME NEW b \in Listed', Passed(b, r)'
               PROVE  /\ left'[b] > 0 \/ (ringing' /\ b = alarm')
                      /\ nticks' = 0 => ~rollover'[b]
    BY DEF Walked
  <2>1. CASE b = a
    BY <2>1, <1>1, <1>2, <1>3, <1>7 DEF Ticks
  <2>2. CASE b # a
    <3>1. b \in Listed /\ b \in Alarm
      BY <2>2, <1>5
    <3>2. Passed(b, rank)
      BY <3>1, <1>6, <1>10 DEF Passed
    <3> QED
      BY <2>2, <3>1, <3>2, <1>3, <1>4, <1>7 DEF Walked
  <2> QED
    BY <2>1, <2>2
<1> QED
  BY <1>5, <1>6, <1>8, <1>9, <1>10, <1>11, <1>12

LEMMA StopKeeps ==
    ASSUME AlarmInv, NEW a \in Alarm, alt_alarm_stop(a)
    PROVE  AlarmInv'
<1> USE AlarmAssumption, ListedAgrees DEF AlarmInv
<1>1. /\ links' = alt_llist_remove(links, a) /\ links \in Links /\ a \in ListedIn(links)
      /\ UNCHANGED <<tick_rate, nticks, time, rollover, alarm, ringing, following, left>>
  BY DEF alt_alarm_stop, AlarmTypeOK, Links, clockvars, walkvars
<1>2. PICK rank \in Rank : Numbered(links, rank) /\ Walked(rank)
  OBVIOUS
<1>3. links' \in Links /\ Linked(links') /\ Numbered(links', rank) /\ Listed' = Listed \ {a}
  BY <1>1, <1>2, RemoveKeeps DEF Listed, ListedIn
<1>4. AlarmTypeOK' /\ Rings'
  BY <1>1, <1>3 DEF AlarmTypeOK, Rings, Links
<1>5. Position' = Position /\ Position' \in Listed' \cup {List}
  BY <1>1, <1>3 DEF Position, alt_alarm_stop, Called
<1>6. \A b \in Listed' : Counts(b)'
  BY <1>1, <1>3 DEF Counts, RolledOver
<1>7. Walked(rank)'
  BY <1>1, <1>2, <1>3, <1>5 DEF Walked, Passed
<1> QED
  BY <1>3, <1>4, <1>5, <1>6, <1>7

LEMMA TickKeeps == AlarmInv /\ TickBegin => AlarmInv'
<1> SUFFICES ASSUME AlarmInv, TickBegin
             PROVE  AlarmInv'
  OBVIOUS
<1> USE AlarmAssumption, ListedAgrees DEF AlarmInv
<1>1. /\ nticks \in Ticks /\ TickWords \in Nat /\ TickWords > 1 /\ alarm = List /\ nticks' = Wrap(nticks + 1)
      /\ time \in [Alarm -> Ticks] /\ rollover \in [Alarm -> BOOLEAN] /\ left \in [Alarm -> Ticks]
      /\ links \in Links
      /\ UNCHANGED <<tick_rate, time, rollover, links, ringing, following>>
  BY DEF AlarmTypeOK, TickBegin, Links, Ticks
<1>2. ~ringing /\ Position = List /\ alarm' = links.next[List] /\ Listed' = Listed
  BY <1>1 DEF Rings, Position, TickBegin, Listed
<1>3. PICK rank \in Rank : Numbered(links, rank) /\ Walked(rank)
  OBVIOUS
<1>4. \A b \in Listed : left[b] > 0 /\ (nticks = 0 => ~rollover[b])
  BY <1>2, <1>3 DEF Walked, Passed
<1>5. /\ left' \in [Alarm -> Ticks]
      /\ \A b \in Listed : left'[b] = left[b] - 1
  BY <1>1, <1>4 DEF TickBegin, Ticks
<1>6. nticks' \in Ticks
  BY <1>1 DEF Wrap, Ticks
<1>7. alarm' \in Listed \cup {List} /\ Position' = alarm'
  BY <1>1, <1>2 DEF Linked, Position
<1>8. AlarmTypeOK' /\ Linked(links') /\ Rings' /\ Position' \in Listed' \cup {List}
  BY <1>1, <1>2, <1>5, <1>6, <1>7 DEF AlarmTypeOK, Rings, Node
<1>9. ASSUME NEW b \in Listed
      PROVE  Counts(b)'
  <2>1. b \in Alarm /\ Counts(b) /\ left[b] > 0 /\ (nticks = 0 => ~rollover[b]) /\ left'[b] = left[b] - 1
    BY <1>4, <1>5
  <2> QED
    BY <2>1, <1>1 DEF Counts, RolledOver, Wrap, Ticks
<1>10. Walked(rank)'
  <2>1. \A b \in Listed : rank[b] \in Int /\ links.next[List] # List /\ rank[links.next[List]] <= rank[b]
    BY <1>3 DEF Numbered, Rank
  <2>2. \A b \in Listed : ~Passed(b, rank)'
    BY <2>1, <1>2, <1>7 DEF Passed, Rank
  <2> QED
    BY <2>2, <1>2 DEF Walked
<1> QED
  BY <1>1, <1>2, <1>3, <1>8, <1>9, <1>10

(* A ringing alarm has not gone on, and the one alt_tick() goes to next    *)
(* is behind the one it leaves and in front of all others.                 *)
LEMMA VisitKeeps == AlarmInv /\ Visit => AlarmInv'
<1> SUFFICES ASSUME AlarmInv, Visit
             PROVE  AlarmInv'
  OBVIOUS
<1> USE AlarmAssumption, ListedAgrees DEF AlarmInv
<1>1. /\ nticks \in Ticks /\ TickWords \in Nat /\ TickWords > 1 /\ alarm # List /\ ~ringing
      /\ time \in [Alarm -> Ticks] /\ rollover \in [Alarm -> BOOLEAN] /\ left \in [Alarm -> Ticks]
      /\ links \in Links
      /\ UNCHANGED <<tick_rate, nticks, time, links, left>> /\ Listed' = Listed
  BY DEF AlarmTypeOK, Visit, Links, Ticks, clockvars, Listed
<1>2. alarm \in Listed /\ alarm \in Alarm /\ Position = alarm
  BY <1>1 DEF Position
<1>3. PICK rank \in Rank : Numbered(links, rank) /\ Walked(rank)
  OBVIOUS
<1>4. links.next[alarm] \in Listed \cup {List} /\ links.next[alarm] # alarm
  BY <1>2 DEF Linked, Listed
<1>5. /\ following' = links.next[alarm] /\ ringing' = Due(alarm)
      /\ alarm' = IF Due(alarm) THEN alarm ELSE links.next[alarm]
      /\ rollover'[alarm] = RolledOver(alarm)
      /\ rollover' \in [Alarm -> BOOLEAN]
      /\ \A b \in Alarm : b # alarm => rollover'[b] = rollover[b]
  BY <1>1, <1>2 DEF Visit, RolledOver, Due
<1>6. Position' = links.next[alarm]
  BY <1>5 DEF Position
<1>7. Due(alarm) <=> left[alarm] = 0
  BY <1>2, DueIsNow
<1>8. AlarmTypeOK'
  <2>1. ringing' \in BOOLEAN
    BY <1>5 DEF Due
  <2>2. alarm' \in Node /\ following' \in Node
    BY <1>2, <1>4, <1>5 DEF Node
  <2> QED
    BY <2>1, <2>2, <1>1, <1>5 DEF AlarmTypeOK
<1>9. Rings'
  <2> SUFFICES ASSUME Due(alarm)
               PROVE  /\ alarm' \in Alarm /\ alarm' # following'
                      /\ left'[alarm'] = 0 /\ time'[alarm'] = nticks' /\ ~rollover'[alarm']
    BY <1>5 DEF Rings
  <2>1. alarm' = alarm /\ left[alarm] = 0 /\ Counts(alarm)
    BY <1>2, <1>5, <1>7
  <2>2. ~RolledOver(alarm) /\ time[alarm] = nticks
    BY <2>1, <1>1, <1>2 DEF Counts, Due, Ticks
  <2> QED
    BY <2>1, <2>2, <1>1, <1>2, <1>4, <1>5
<1>10. ASSUME NEW b \in Listed
       PROVE  Counts(b)'
  <2>1. Counts(b) /\ b \in Alarm
    OBVIOUS
  <2>2. RolledOver(b)' = RolledOver(b)
    BY <2>1, <1>1, <1>2, <1>5 DEF RolledOver
  <2> QED
    BY <2>1, <2>2, <1>1 DEF Counts
<1>11. Walked(rank)'
  <2> SUFFICES ASSUME NEW b \in Listed, Passed(b, rank)'
               PROVE  /\ left[b] > 0 \/ (ringing' /\ b = alarm')
                      /\ nticks = 0 => ~rollover'[b]
    BY <1>1 DEF Walked
  <2>1. CASE b = alarm
    BY <2>1, <1>1, <1>2, <1>5, <1>7 DEF RolledOver, Ticks
  <2>2. CASE b # alarm
    <3>1. ~(rank[alarm] < rank[b])
      BY <1>2, <1>3, <1>4, <1>6 DEF Numbered, Passed, Rank
    <3>2. rank[b] # rank[alarm] /\ rank[b] \in Int /\ rank[alarm] \in Int
      BY <2>2, <1>2, <1>3 DEF Numbered, Rank
    <3>3. Passed(b, rank)
      BY <3>1, <3>2, <1>2 DEF Passed
    <3> QED
      BY <3>3, <2>2, <1>1, <1>3, <1>5 DEF Walked
  <2> QED
    BY <2>1, <2>2
<1> QED
  BY <1>1, <1>3, <1>4, <1>6, <1>8, <1>9, <1>10, <1>11

(* The answer of a callback: its alarm is counted anew, or taken out.      *)
LEMMA AnswerKeeps ==
    ASSUME AlarmInv, NEW answer \in Ticks, Answer(answer)
    PROVE  AlarmInv'
<1> USE AlarmAssumption, ListedAgrees DEF AlarmInv
<1>1. /\ nticks \in Ticks /\ TickWords \in Nat /\ TickWords > 1 /\ ringing
      /\ time \in [Alarm -> Ticks] /\ rollover \in [Alarm -> BOOLEAN] /\ left \in [Alarm -> Ticks]
      /\ links \in Links /\ following \in Node
      /\ UNCHANGED <<tick_rate, nticks, following>> /\ alarm' = following /\ ringing' = FALSE
  BY DEF AlarmTypeOK, Answer, Links, Ticks, clockvars
<1>2. /\ alarm \in Alarm /\ alarm # following /\ left[alarm] = 0 /\ time[alarm] = nticks
      /\ ~rollover[alarm] /\ Position = following
  BY <1>1 DEF Rings, Position
<1>3. PICK rank \in Rank : Numbered(links, rank) /\ Walked(rank)
  OBVIOUS
<1>4. Position' = following /\ Rings'
  BY <1>1 DEF Position, Rings
<1>5. CASE answer = 0
  <2>1. links' = alt_llist_remove(links, alarm) /\ UNCHANGED <<time, rollover, left>>
    BY <1>5 DEF Answer, Over
  <2>2. links' \in Links /\ Linked(links') /\ Numbered(links', rank) /\ Listed' = Listed \ {alarm}
    <3>1. CASE alarm \in Listed
      BY <3>1, <2>1, <1>1, <1>3, RemoveKeeps DEF Listed, ListedIn
    <3>2. CASE alarm \notin Listed
      <4>1. links' = links
        BY <3>2, <2>1, <1>1, <1>2, RemoveAgain
      <4> QED
        BY <4>1, <3>2, <1>1, <1>3 DEF Listed
    <3> QED
      BY <3>1, <3>2
  <2>3. AlarmTypeOK'
    BY <2>1, <2>2, <1>1 DEF AlarmTypeOK, Links
  <2>4. Position' \in Listed' \cup {List}
    BY <2>2, <1>2, <1>4
  <2>5. \A b \in Listed' : Counts(b)'
    BY <2>1, <2>2, <1>1 DEF Counts, RolledOver
  <2>6. Walked(rank)'
    BY <2>1, <2>2, <1>1, <1>2, <1>3, <1>4 DEF Walked, Passed
  <2> QED
    BY <2>2, <2>3, <2>4, <2>5, <2>6, <1>4
<1>6. CASE answer # 0
  <2>1. /\ links' = links /\ Listed' = Listed
        /\ time'[alarm] = Wrap(nticks + answer) /\ left'[alarm] = answer
        /\ rollover'[alarm] = (Wrap(nticks + answer) < nticks)
        /\ \A b \in Alarm : b # alarm => /\ time'[b] = time[b] /\ rollover'[b] = rollover[b]
                                         /\ left'[b] = left[b]
    BY <1>1, <1>2, <1>6 DEF Answer, Again, Listed
  <2>2. Wrap(nticks + answer) \in Ticks
    BY <1>1 DEF Wrap, Ticks
  <2>3. time' \in [Alarm -> Ticks] /\ rollover' \in [Alarm -> BOOLEAN] /\ left' \in [Alarm -> Ticks]
    <3>1. time' = [time EXCEPT ![alarm] = Wrap(nticks + answer)] /\ left' = [left EXCEPT ![alarm] = answer]
      BY <1>1, <1>2, <1>6 DEF Answer, Again
    <3>2. rollover' = [rollover EXCEPT ![alarm] = time'[alarm] < nticks]
      BY <1>6 DEF Answer, Again
    <3>3. (time'[alarm] < nticks) \in BOOLEAN
      OBVIOUS
    <3> QED
      BY <3>1, <3>2, <3>3, <2>2, <1>1
  <2>4. AlarmTypeOK'
    BY <2>1, <2>3, <1>1 DEF AlarmTypeOK
  <2>5. ASSUME NEW b \in Listed
        PROVE  Counts(b)'
    <3>1. CASE b = alarm
      <4>1. /\ answer \in Nat /\ answer > 0 /\ answer < TickWords
            /\ nticks \in Nat /\ nticks < TickWords
        BY <1>1, <1>6 DEF Ticks
      <4>2. CASE nticks + answer < TickWords
        <5>1. Wrap(nticks + answer) = nticks + answer
          BY <4>2 DEF Wrap
        <5>2. ~rollover'[alarm]
          BY <5>1, <4>1, <2>1, <2>3, <1>2
        <5> QED
          BY <5>1, <5>2, <4>1, <3>1, <2>1, <1>1 DEF Counts, RolledOver
      <4>3. CASE ~(nticks + answer < TickWords)
        <5>1. Wrap(nticks + answer) = nticks + answer - TickWords
          BY <4>1, <4>3, <1>1 DEF Wrap
        <5>2. rollover'[alarm] /\ nticks # 0
          BY <5>1, <4>1, <4>3, <2>1, <2>3, <1>1, <1>2
        <5> QED
          BY <5>1, <5>2, <4>1, <3>1, <2>1, <1>1 DEF Counts, RolledOver
      <4> QED
        BY <4>2, <4>3
    <3>2. CASE b # alarm
      BY <3>2, <2>1, <1>1 DEF Counts, RolledOver
    <3> QED
      BY <3>1, <3>2
  <2>6. Walked(rank)'
    <3> SUFFICES ASSUME NEW b \in Listed, Passed(b, rank)'
                 PROVE  left'[b] > 0 /\ (nticks = 0 => ~rollover'[b])
      BY <2>1, <1>1 DEF Walked
    <3>1. CASE b = alarm
      <4>1. left'[b] > 0
        BY <3>1, <2>1, <1>6 DEF Ticks
      <4>2. nticks = 0 => ~rollover'[b]
        BY <3>1, <2>1, <2>2, <2>3, <1>2 DEF Ticks
      <4> QED
        BY <4>1, <4>2
    <3>2. CASE b # alarm
      BY <3>2, <2>1, <1>2, <1>3, <1>4 DEF Walked, Passed
    <3> QED
      BY <3>1, <3>2
  <2> QED
    BY <2>1, <2>4, <2>5, <2>6, <1>2, <1>3, <1>4
<1> QED
  BY <1>5, <1>6

-----------------------------------------------------------------------------
LEMMA AlarmStep == AlarmInv /\ [AlarmNext]_alarmvars => AlarmInv'
<1> SUFFICES ASSUME AlarmInv, [AlarmNext]_alarmvars
             PROVE  AlarmInv'
  OBVIOUS
<1>1. CASE alt_sysclk_init
  BY <1>1
     DEF alt_sysclk_init, walkvars, AlarmInv, AlarmTypeOK, Rings, Position, Listed, Counts,
         RolledOver, Walked, Passed
<1>2. CASE TickBegin \/ Visit
  BY <1>2, TickKeeps, VisitKeeps
<1>3. ASSUME NEW a \in Alarm,
             alt_alarm_stop(a) \/ \E n \in 0 .. TickWords - 2 : alt_alarm_start(a, n)
      PROVE  AlarmInv'
  BY <1>3, StartKeeps, StopKeeps
<1>4. ASSUME NEW answer \in Ticks, Answer(answer)
      PROVE  AlarmInv'
  BY <1>4, AnswerKeeps
<1>5. CASE UNCHANGED alarmvars
  BY <1>5
     DEF alarmvars, clockvars, walkvars, AlarmInv, AlarmTypeOK, Rings, Position, Listed, Counts,
         RolledOver, Walked, Passed
<1> QED
  BY <1>1, <1>2, <1>3, <1>4, <1>5 DEF AlarmNext

LEMMA AlarmSafe == AlarmSpec => []AlarmInv
BY AlarmStarts, AlarmStep, PTL DEF AlarmSpec

(* alt_tick() rings every alarm in its tick, for words of any width, any   *)
(* number of alarms, and whatever callbacks start and stop meanwhile.      *)
THEOREM AlarmsOnTime == AlarmSpec => []OnTime
<1>1. AlarmInv => OnTime
  <2> SUFFICES ASSUME AlarmInv
               PROVE  OnTime
    OBVIOUS
  <2>1. ASSUME alarm # List, ~ringing
        PROVE  alarm \in Listed /\ (Due(alarm) <=> left[alarm] = 0)
    <3>1. alarm \in Listed
      BY <2>1 DEF AlarmInv, Position
    <3> QED
      BY <3>1, DueIsNow, ListedAgrees DEF AlarmInv
  <2>2. ASSUME alarm = List, NEW a \in Listed
        PROVE  left[a] > 0
    <3>1. ~ringing /\ Position = List
      BY <2>2, AlarmAssumption DEF AlarmInv, Rings, Position
    <3> QED
      BY <3>1, <2>2 DEF AlarmInv, Walked, Passed
  <2> QED
    BY <2>1, <2>2 DEF OnTime
<1> QED
  BY <1>1, AlarmSafe, PTL
==============================================================================
