----------------------------- MODULE InstanceLock -----------------------------
(* How main keeps a second instance out (src/main.c): a write lock on the lock *)
(* file, dropped and unlinked at exit.  The kernel ties the lock to the inode, *)
(* the next instance finds the file by its path, and cleanup_lock_file closes  *)
(* the descriptor before it removes the path.                                  *)
EXTENDS Naturals, FiniteSets

CONSTANTS Processes, \* instances that are started
          Inodes     \* the lock files that can come into being

VARIABLES path,   \* the inodes (none or one) at the path of the lock file
          fd,     \* the inodes (none or one) each process has open
          locked, \* the processes that hold the lock of their inode
          life,   \* how far each process is
          torn    \* history: a path was removed while another process had its inode open

lockVars == <<path, fd, locked, life, torn>>

TypeOK ==
  /\ path \subseteq Inodes /\ Cardinality(path) <= 1
  /\ fd \in [Processes -> SUBSET Inodes]
  /\ locked \subseteq Processes
  /\ life \in [Processes -> {"new", "opened", "running", "closed", "gone"}]
  /\ torn \in BOOLEAN

Init ==
  /\ path = {} /\ fd = [p \in Processes |-> {}] /\ locked = {}
  /\ life = [p \in Processes |-> "new"] /\ torn = FALSE

InUse == path \cup UNION {fd[p] : p \in Processes}

\* open(O_RDWR | O_CREAT): the file at the path, or a new one
Open(p) ==
  /\ life[p] = "new"
  /\ \E i \in Inodes :
       /\ IF path = {} THEN i \notin InUse ELSE i \in path
       /\ path' = {i} /\ fd' = [fd EXCEPT ![p] = {i}]
  /\ life' = [life EXCEPT ![p] = "opened"]
  /\ UNCHANGED <<locked, torn>>

\* open() fails: the process takes it that another instance runs
OpenFails(p) ==
  /\ life[p] = "new" /\ life' = [life EXCEPT ![p] = "gone"]
  /\ UNCHANGED <<path, fd, locked, torn>>

\* F_SETLK looks at the inode the descriptor is open on; the mutant is a
\* lock request whose refusal is not looked at
NotAsked(p) == TRUE
Grantable(p) == \A q \in locked : fd[q] # fd[p]

Lock(p) ==
  /\ life[p] = "opened" /\ Grantable(p)
  /\ locked' = locked \cup {p} /\ life' = [life EXCEPT ![p] = "running"]
  /\ UNCHANGED <<path, fd, torn>>

\* refused, or failed: the descriptor is closed and main returns
Refused(p) ==
  /\ life[p] = "opened" /\ ~Grantable(p)
  /\ fd' = [fd EXCEPT ![p] = {}] /\ life' = [life EXCEPT ![p] = "gone"]
  /\ UNCHANGED <<path, locked, torn>>

\* cleanup_lock_file, registered with atexit: close() gives the lock up ...
Close(p) ==
  /\ life[p] = "running"
  /\ fd' = [fd EXCEPT ![p] = {}] /\ locked' = locked \ {p}
  /\ life' = [life EXCEPT ![p] = "closed"]
  /\ UNCHANGED <<path, torn>>

\* ... and then the path is removed, whatever it leads to by now
Unlink(p) ==
  /\ life[p] = "closed"
  /\ torn' = (torn \/ \E q \in Processes : fd[q] # {} /\ fd[q] = path)
  /\ path' = {} /\ life' = [life EXCEPT ![p] = "gone"]
  /\ UNCHANGED <<fd, locked>>

\* killed by a signal: the kernel closes the descriptor, the file stays
Killed(p) ==
  /\ life[p] \in {"opened", "running", "closed"}
  /\ fd' = [fd EXCEPT ![p] = {}] /\ locked' = locked \ {p}
  /\ life' = [life EXCEPT ![p] = "gone"]
  /\ UNCHANGED <<path, torn>>

Next == \E p \in Processes :
          \/ Open(p) \/ OpenFails(p) \/ Lock(p) \/ Refused(p)
          \/ Close(p) \/ Unlink(p) \/ Killed(p)

Spec == Init /\ [][Next]_lockVars

-----------------------------------------------------------------------------
(* Properties.                                                              *)

Running == {p \in Processes : life[p] = "running"}

(* Two instances run at a time only after cleanup_lock_file removed the path  *)
(* of a file somebody had open: a lock file left by a kill, or closed and not *)
(* yet removed, never lets a second instance in by itself.                    *)
SecondNeedsTornPath == Cardinality(Running) > 1 => torn

(* main.c:100: check_another_instance_running keeps every second instance out. *)
OneInstance == Cardinality(Running) <= 1
=============================================================================
