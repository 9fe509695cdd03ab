------------------------------ MODULE FileTable -------------------------------
(***************************************************************************)
(* The file descriptors of the board support package: open, close, ioctl's *)
(* exclusive access, fcntl and the redirection of stdin, stdout and stderr *)
(* at boot.  There is no operating system (ALT_SEM_PEND is empty), so each *)
(* call is one step.  The drivers behind the table are in JtagUart.        *)
(***************************************************************************)
EXTENDS Integers, FiniteSets

CONSTANTS
    MaxFd,    \* ALT_MAX_FD
    Device,   \* the names on alt_dev_list once alt_sys_init has run
    Null,     \* "/dev/null", the one device registered before it
    Stdio     \* ALT_STDOUT, ALT_STDIN and ALT_STDERR: the same device

ASSUME TableAssumption ==
    /\ MaxFd \in Nat /\ MaxFd > 3
    /\ Null \in Device /\ Stdio \in Device /\ Null # Stdio
    /\ "none" \notin Device /\ "other" \notin Device

VARIABLES
    stage,      \* where the boot is: "drivers", stdout, stdin, stderr, "main"
    registered, \* the names on alt_dev_list
    fdev,       \* the device of each descriptor, "none" when it is free
    mode,       \* its O_ACCMODE bits
    nonblock,   \* the descriptors with O_NONBLOCK
    isdev,      \* those with ALT_FD_DEV
    excl,       \* those with ALT_FD_EXCL
    alt_max_fd, \* the high-water mark
    errno       \* what the last call left: "ok" or its error

tvars == <<stage, registered, fdev, mode, nonblock, isdev, excl, alt_max_fd,
           errno>>

Fd == 0 .. MaxFd - 1
Modes == {"rdonly", "wronly", "rdwr"}
Std == 0 .. 2
Open(fd) == fdev[fd] # "none"

TableInit ==
    /\ stage = "drivers" /\ registered = {Null}
    /\ fdev = [i \in Fd |-> IF i \in Std THEN Null ELSE "none"]
    /\ mode = [i \in Fd |-> "rdonly"]
    /\ nonblock = {} /\ isdev = {} /\ excl = {}
    /\ alt_max_fd = -1 /\ errno = "ok"

(* alt_sys_init: the drivers put their devices on alt_dev_list. *)
alt_sys_init ==
    /\ stage = "drivers" /\ registered' = Device /\ stage' = "stdout"
    /\ UNCHANGED <<fdev, mode, nonblock, isdev, excl, alt_max_fd, errno>>

(* alt_get_fd: the lowest free descriptor. *)
Free(i) == ~Open(i) /\ \A k \in Fd : k < i => Open(k)

Higher(i) == IF i > alt_max_fd THEN i ELSE alt_max_fd

(* Mutant of alt_file_locked: the descriptor at the mark is not looked at. *)
alt_file_locked_below(i, dev) ==
    \E k \in Fd : k < Higher(i) /\ k # i /\ fdev[k] = dev /\ k \in excl

(* alt_file_locked: another descriptor of the device holds the lock.  The  *)
(* search stops at the high-water mark.                                    *)
alt_file_locked(i, dev) ==
    \E k \in Fd : k <= Higher(i) /\ k # i /\ fdev[k] = dev /\ k \in excl

(* What open does to the table when it succeeds, and when the device is    *)
(* locked: the descriptor it took is released, the mark stays up.  No      *)
(* driver of this system has an open function.                             *)
Taken(i, dev, m, nb) ==
    /\ fdev' = [fdev EXCEPT ![i] = dev]
    /\ mode' = [mode EXCEPT ![i] = m]
    /\ nonblock' = IF nb THEN nonblock \cup {i} ELSE nonblock \ {i}
    /\ isdev' = isdev \cup {i} /\ excl' = excl \ {i}

TakenBack(i) ==
    /\ fdev' = [fdev EXCEPT ![i] = "none"]
    /\ mode' = [mode EXCEPT ![i] = "rdonly"]
    /\ nonblock' = nonblock \ {i} /\ isdev' = isdev \ {i} /\ excl' = excl \ {i}

(* open, with any name, a registered one or not. *)
OpenNoDevice(dev) ==
    /\ dev \notin registered /\ errno' = "ENODEV"
    /\ UNCHANGED <<fdev, mode, nonblock, isdev, excl, alt_max_fd>>

OpenNoDescriptor(dev) ==
    /\ dev \in registered /\ \A i \in Fd : Open(i)
    /\ errno' = "EMFILE"
    /\ UNCHANGED <<fdev, mode, nonblock, isdev, excl, alt_max_fd>>

OpenLocked(i, dev) ==
    /\ dev \in registered /\ Free(i) /\ alt_file_locked(i, dev)
    /\ alt_max_fd' = Higher(i) /\ errno' = "EACCES"
    /\ TakenBack(i)

OpenWorks(i, dev, m, nb) ==
    /\ dev \in registered /\ Free(i) /\ ~alt_file_locked(i, dev)
    /\ alt_max_fd' = Higher(i) /\ errno' = "ok"
    /\ Taken(i, dev, m, nb)

alt_open(dev, m, nb) ==
    \/ OpenNoDevice(dev) \/ OpenNoDescriptor(dev)
    \/ \E i \in Fd : OpenLocked(i, dev) \/ OpenWorks(i, dev, m, nb)

(* alt_open_fd: the device is opened, its entry copied over the standard   *)
(* descriptor, and the one open took released; a failure changes nothing.  *)
alt_open_fd(std, m) ==
    IF Stdio \in registered
    THEN \E i \in Fd :
        /\ Free(i) /\ ~alt_file_locked(i, Stdio)
        /\ alt_max_fd' = Higher(i) /\ errno' = "ok"
        /\ Taken(std, Stdio, m, FALSE)
    ELSE OpenNoDevice(Stdio)

Redirect(at, std, m, next) ==
    /\ stage = at /\ alt_open_fd(std, m) /\ stage' = next
    /\ UNCHANGED registered

alt_io_redirect ==
    \/ Redirect("stdout", 1, "wronly", "stdin")
    \/ Redirect("stdin", 0, "rdonly", "stderr")
    \/ Redirect("stderr", 2, "wronly", "main")

(* Mutant of alt_close: the standard descriptors are released like others. *)
alt_close_any(i) ==
    /\ Open(i) /\ errno' = "ok"
    /\ TakenBack(i) /\ UNCHANGED alt_max_fd

(* alt_close with alt_release_fd: the entry is cleared even when the       *)
(* driver's close fails (JtagUart: EWOULDBLOCK), except 0, 1 and 2, which  *)
(* stay as they are.                                                       *)
alt_close(i) ==
    /\ Open(i) /\ errno' \in {"ok", "EWOULDBLOCK"}
    /\ (errno' = "EWOULDBLOCK" => fdev[i] # Null /\ i \in nonblock)
    /\ IF i > 2 THEN TakenBack(i) ELSE UNCHANGED <<fdev, mode, nonblock, isdev, excl>>
    /\ UNCHANGED alt_max_fd

(* Mutant of SharedBelow: the search begins behind the descriptor. *)
SharedBelow_behind(i, last) == \E k \in Fd : k < last /\ k > i /\ fdev[k] = fdev[i]

(* alt_fd_lock looks for another descriptor of the device below the        *)
(* high-water mark, the mark itself left out.                              *)
SharedBelow(i, last) == \E k \in Fd : k < last /\ k # i /\ fdev[k] = fdev[i]

(* ioctl(TIOCEXCL) and ioctl(TIOCNXCL), for a descriptor of a device; one  *)
(* without ALT_FD_DEV goes to the driver, which does not know the request. *)
Lock(i) ==
    /\ Open(i)
    /\ IF i \in isdev /\ ~SharedBelow(i, alt_max_fd)
       THEN excl' = excl \cup {i} /\ errno' = "ok"
       ELSE UNCHANGED excl /\ errno' = IF i \in isdev THEN "EACCES" ELSE "ENOTTY"
    /\ UNCHANGED <<fdev, mode, nonblock, isdev, alt_max_fd>>

Unlock(i) ==
    /\ Open(i)
    /\ IF i \in isdev THEN excl' = excl \ {i} /\ errno' = "ok"
                      ELSE UNCHANGED excl /\ errno' = "ENOTTY"
    /\ UNCHANGED <<fdev, mode, nonblock, isdev, alt_max_fd>>

(* fcntl(F_SETFL): only the bits of ALT_FCNTL_FLAGS_MASK change. *)
alt_fcntl(i, nb) ==
    /\ Open(i) /\ errno' = "ok"
    /\ nonblock' = IF nb THEN nonblock \cup {i} ELSE nonblock \ {i}
    /\ UNCHANGED <<fdev, mode, isdev, excl, alt_max_fd>>

Call ==
    \/ \E dev \in Device \cup {"other"}, m \in Modes, nb \in BOOLEAN : alt_open(dev, m, nb)
    \/ \E i \in Fd : alt_close(i) \/ Lock(i) \/ Unlock(i)
    \/ \E i \in Fd, nb \in BOOLEAN : alt_fcntl(i, nb)

Program == stage = "main" /\ Call /\ UNCHANGED <<stage, registered>>

TableNext == alt_sys_init \/ alt_io_redirect \/ Program

TableSpec == TableInit /\ [][TableNext]_tvars

(* alt_read and alt_write: the access mode must allow it and the driver    *)
(* have the function (/dev/null has no read); otherwise EACCES.            *)
CanRead(i) == Open(i) /\ mode[i] # "wronly" /\ fdev[i] # Null
CanWrite(i) == Open(i) /\ mode[i] # "rdonly"

-----------------------------------------------------------------------------
(* The table keeps its types, and the mark stays inside the table: every   *)
(* search of it runs up to the mark.                                       *)
TableTypeOK ==
    /\ stage \in {"drivers", "stdout", "stdin", "stderr", "main"}
    /\ registered \subseteq Device
    /\ fdev \in [Fd -> Device \cup {"none"}]
    /\ mode \in [Fd -> Modes]
    /\ nonblock \subseteq Fd /\ isdev \subseteq Fd /\ excl \subseteq Fd
    /\ alt_max_fd \in Int /\ -1 <= alt_max_fd /\ alt_max_fd < MaxFd

(* Every search of the table stops at alt_max_fd: no descriptor the        *)
(* program may hold lies above it.                                         *)
HighWater == \A i \in Fd : (Open(i) /\ i \notin Std) => i <= alt_max_fd

(* Exclusive access is exclusive: two descriptors of one device never hold *)
(* the lock together, in spite of the entry alt_fd_lock does not look at.  *)
OneLockPerDevice ==
    \A i, k \in excl : fdev[i] = fdev[k] => i = k

(* Once main runs, the standard descriptors are the console, in the right  *)
(* directions, whatever is opened, closed or locked; and since three of    *)
(* them share it, nobody ever locks the console.                           *)
StdioIsTheConsole ==
    stage = "main" =>
        /\ \A i \in Std : fdev[i] = Stdio
        /\ CanRead(0) /\ CanWrite(1) /\ CanWrite(2)
        /\ \A i \in excl : fdev[i] # Stdio

(* While a device is locked no descriptor of it appears, not even one a    *)
(* failed open leaves behind.                                              *)
LockKeepsOthersOut ==
    [][\A i \in excl : i \in excl' =>
        \A k \in Fd : (k # i /\ fdev'[k] = fdev[i]) => fdev[k] = fdev[i]]_tvars

(* alt_file.h:98 has alt_fd_lock mark a descriptor "as being open for      *)
(* exclusive access", and alt_fd_lock.c:42 grants it "if there are no      *)
(* other open file descriptors which reference the same device".           *)
ExclusiveAccess ==
    \A i \in excl : \A k \in Fd : k # i => fdev[k] # fdev[i]
=============================================================================
