---------------------------- MODULE RequestLock ----------------------------
(***************************************************************************)
(* The lock FILE of one launch request, which module LaunchRequest takes   *)
(* to be a mutex.  An flock belongs to an inode, a name is only a link to  *)
(* one, and this program unlinks lock files: the owner of a withdrawn      *)
(* request does (retire_orphan_launch_request_lock), and so do processes   *)
(* serving other requests, when they reap a pre-effect request or displace *)
(* a replay.  A second file, the pin, is there to keep such cleaners away  *)
(* from a request that somebody is about to lock.                          *)
(*                                                                         *)
(* A descriptor is modelled by the inode it refers to; which locks a       *)
(* process holds on its descriptors follows from where it is.              *)
(***************************************************************************)
CONSTANTS Caller,    \* processes admitting or retrying this request
          Reaper,    \* other processes reaping pre-effect requests
          Evictor,   \* other processes displacing replays
          Inode,     \* at least one more than there are processes
          None

VARIABLES rec,       \* "absent", "prepared", "busy" (an actor is named) or "settled"
          lockPath,  \* the inode <stem>.lock names, or None
          pinPath,   \* the inode <stem>.pin names, or None
          lockFd,    \* each process's descriptor of the lock file, or None
          pinFd,     \* each process's descriptor of the pin file, or None
          pc

vars == <<rec, lockPath, pinPath, lockFd, pinFd, pc>>

Process == Caller \cup Reaper \cup Evictor

\* An earlier attempt died before it could name an actor: a candidate for the
\* reapers.  Or it settled: a replay, which may be displaced.
Init ==
  /\ rec \in {"prepared", "settled"}
  /\ lockPath = (CHOOSE i \in Inode : TRUE) /\ pinPath = None
  /\ lockFd = [p \in Process |-> None]
  /\ pinFd = [p \in Process |-> None]
  /\ pc = [p \in Process |-> "idle"]

(***************************************************************************)
(* Files                                                                   *)
(***************************************************************************)
\* What open(O_CREAT) may return for a name: its inode, or else an unused one.
Opened(path, fd) ==
  IF path # None THEN {path}
  ELSE {CHOOSE i \in Inode : \A p \in Process : fd[p] # i}

Custody == {"custody", "prepared", "busy"}

HoldsLock(p) == pc[p] \in {"locked", "unlink_pin", "orphan_held", "held", "unlink"} \cup Custody

SharesPin(p) == pc[p] \in {"open", "lock", "locked"}

OwnsPin(p) == pinFd[p] # None /\ pc[p] \in {"unlink_pin", "clean", "try", "held", "unlink"}

LockFree(i) == \A p \in Process : HoldsLock(p) => lockFd[p] # i

PinFreeBut(p, i) == \A q \in Process \ {p} : SharesPin(q) \/ OwnsPin(q) => pinFd[q] # i

Goto(p, l) == pc' = [pc EXCEPT ![p] = l]

\* Returning, failing or dying closes every descriptor, and with it every lock.
Leave(p, l) ==
  /\ lockFd' = [lockFd EXCEPT ![p] = None]
  /\ pinFd' = [pinFd EXCEPT ![p] = None]
  /\ Goto(p, l)

(***************************************************************************)
(* acquire_launch_request_lock                                             *)
(***************************************************************************)
OpenPin(p) ==
  /\ pc[p] = "idle"
  /\ \E i \in Opened(pinPath, pinFd) : pinPath' = i /\ pinFd' = [pinFd EXCEPT ![p] = i]
  /\ Goto(p, "pin")
  /\ UNCHANGED <<rec, lockPath, lockFd>>

\* lock_shared waits for an exclusive holder of the same inode.
SharePin(p) ==
  /\ pc[p] = "pin"
  /\ \A q \in Process : OwnsPin(q) => pinFd[q] # pinFd[p]
  /\ Goto(p, "open")
  /\ UNCHANGED <<rec, lockPath, pinPath, lockFd, pinFd>>

OpenLock(p) ==
  /\ pc[p] = "open"
  /\ \E i \in Opened(lockPath, lockFd) : lockPath' = i /\ lockFd' = [lockFd EXCEPT ![p] = i]
  /\ Goto(p, "lock")
  /\ UNCHANGED <<rec, pinPath, pinFd>>

Lock(p) ==
  /\ pc[p] = "lock"
  /\ LockFree(lockFd[p])
  /\ Goto(p, "locked")
  /\ UNCHANGED <<rec, lockPath, pinPath, lockFd, pinFd>>

LockTimeout(p) ==
  /\ pc[p] = "lock"
  /\ ~LockFree(lockFd[p])
  /\ Leave(p, "done")
  /\ UNCHANGED <<rec, lockPath, pinPath>>

\* The shared pin is dropped; release_pin_after_lock then removes the pin file,
\* unless somebody else has it locked or it is gone.
ReleasePin(p) ==
  /\ pc[p] = "locked"
  /\ \/ /\ pinPath # None /\ PinFreeBut(p, pinPath)
        /\ pinFd' = [pinFd EXCEPT ![p] = pinPath]
        /\ Goto(p, "unlink_pin")
     \/ /\ pinPath = None \/ ~PinFreeBut(p, pinPath)
        /\ pinFd' = [pinFd EXCEPT ![p] = None]
        /\ Goto(p, "custody")
  /\ UNCHANGED <<rec, lockPath, pinPath, lockFd>>

UnlinkPin(p) ==
  /\ pc[p] = "unlink_pin"
  /\ pinPath' = None
  /\ pinFd' = [pinFd EXCEPT ![p] = None]
  /\ Goto(p, "custody")
  /\ UNCHANGED <<rec, lockPath, lockFd>>

(***************************************************************************)
(* What the owner does with the request                                    *)
(***************************************************************************)
Prepare(p) ==
  /\ pc[p] = "custody" /\ rec = "absent"
  /\ rec' = "prepared"
  /\ Goto(p, "prepared")
  /\ UNCHANGED <<lockPath, pinPath, lockFd, pinFd>>

ObserveActor(p) ==
  /\ pc[p] = "prepared"
  /\ rec' = "busy"
  /\ Goto(p, "busy")
  /\ UNCHANGED <<lockPath, pinPath, lockFd, pinFd>>

Settle(p) ==
  /\ pc[p] = "busy"
  /\ rec' = "settled"
  /\ Leave(p, "done")
  /\ UNCHANGED <<lockPath, pinPath>>

\* An existing record is answered, or a dead attempt's actor is settled.
Answer(p) ==
  /\ pc[p] = "custody" /\ rec # "absent"
  /\ rec' \in (IF rec = "busy" THEN {"busy", "settled"} ELSE {rec})
  /\ Leave(p, "done")
  /\ UNCHANGED <<lockPath, pinPath>>

\* abandon_before_spawn, or a prepared record proved to have had no effect.
Withdraw(p) ==
  /\ pc[p] = "prepared" \/ (pc[p] = "custody" /\ rec = "prepared")
  /\ rec' = "absent"
  /\ Leave(p, "orphan")
  /\ UNCHANGED <<lockPath, pinPath>>

(***************************************************************************)
(* retire_orphan_launch_request_lock                                       *)
(***************************************************************************)
OrphanOpen(p) ==
  /\ pc[p] = "orphan" /\ rec = "absent"
  /\ \E i \in Opened(lockPath, lockFd) : lockPath' = i /\ lockFd' = [lockFd EXCEPT ![p] = i]
  /\ Goto(p, "orphan_lock")
  /\ UNCHANGED <<rec, pinPath, pinFd>>

OrphanLock(p) ==
  /\ pc[p] = "orphan_lock" /\ LockFree(lockFd[p])
  /\ Goto(p, "orphan_held")
  /\ UNCHANGED <<rec, lockPath, pinPath, lockFd, pinFd>>

OrphanUnlink(p) ==
  /\ pc[p] = "orphan_held" /\ rec = "absent"
  /\ lockPath' = None
  /\ Leave(p, "done")
  /\ UNCHANGED <<rec, pinPath>>

(***************************************************************************)
(* try_reap_pre_effect_candidate, acquire_ and retire_replay_displacement  *)
(***************************************************************************)
\* A pin that is not there holds nobody off: the cleaner goes on without one.
CheckPin(c) ==
  /\ pc[c] = "idle"
  /\ \/ pinPath = None /\ Goto(c, "no_pin") /\ UNCHANGED pinFd
     \/ /\ pinPath # None /\ PinFreeBut(c, pinPath)
        /\ pinFd' = [pinFd EXCEPT ![c] = pinPath]
        /\ Goto(c, "clean")
  /\ UNCHANGED <<rec, lockPath, pinPath, lockFd>>

StillNoPin(c) ==
  /\ pc[c] = "no_pin" /\ pinPath = None
  /\ Goto(c, "clean")
  /\ UNCHANGED <<rec, lockPath, pinPath, lockFd, pinFd>>

CleanOpen(c) ==
  /\ pc[c] = "clean"
  /\ \E i \in Opened(lockPath, lockFd) : lockPath' = i /\ lockFd' = [lockFd EXCEPT ![c] = i]
  /\ Goto(c, "try")
  /\ UNCHANGED <<rec, pinPath, pinFd>>

CleanLock(c) ==
  /\ pc[c] = "try" /\ LockFree(lockFd[c])
  /\ Goto(c, "held")
  /\ UNCHANGED <<rec, lockPath, pinPath, lockFd, pinFd>>

Removable(c) == IF c \in Reaper THEN {"absent", "prepared"} ELSE {"settled"}

CleanRecord(c) ==
  /\ pc[c] = "held" /\ rec \in Removable(c)
  /\ rec' = "absent"
  /\ Goto(c, "unlink")
  /\ UNCHANGED <<lockPath, pinPath, lockFd, pinFd>>

CleanUnlink(c) ==
  /\ pc[c] = "unlink"
  /\ lockPath' = None
  /\ pinPath' = IF pinFd[c] # None THEN None ELSE pinPath
  /\ Leave(c, "done")
  /\ UNCHANGED rec

\* A busy lock or pin, a record that is not ours to handle, an error or a crash.
Quit(p) ==
  /\ pc[p] \notin {"idle", "done"}
  /\ Leave(p, "done")
  /\ UNCHANGED <<rec, lockPath, pinPath>>

-----------------------------------------------------------------------------
Calls(p) ==
  \/ OpenPin(p) \/ SharePin(p) \/ OpenLock(p) \/ Lock(p) \/ LockTimeout(p)
  \/ ReleasePin(p) \/ UnlinkPin(p)
  \/ Prepare(p) \/ ObserveActor(p) \/ Settle(p) \/ Answer(p) \/ Withdraw(p)
  \/ OrphanOpen(p) \/ OrphanLock(p) \/ OrphanUnlink(p)

Cleans(c) ==
  \/ CheckPin(c) \/ StillNoPin(c) \/ CleanOpen(c) \/ CleanLock(c)
  \/ CleanRecord(c) \/ CleanUnlink(c)

Next ==
  \/ \E p \in Caller : Calls(p)
  \/ \E c \in Reaper \cup Evictor : Cleans(c)
  \/ \E p \in Process : Quit(p)

Spec == Init /\ [][Next]_vars

-----------------------------------------------------------------------------
\* "That ownership distinction makes it safe to terminate a still-live
\* incarnation: another provider cannot still be its responsible supervisor"
\* (src/launch.rs 2197-2199): whoever owns the request and finds an actor
\* recorded is not taking it from an owner that still supervises it.
SupervisorIsGone ==
  \A p, q \in Caller : pc[p] = "custody" /\ rec = "busy" => pc[q] # "busy"
=============================================================================
