------------------------------ MODULE BenchLock ------------------------------
(***************************************************************************)
(* The lock that is to keep a single benchmark runner active               *)
(* (scripts/bench_runner.py acquire_lock): open-or-create the lock file,   *)
(* flock it without waiting, write the pid into it; at exit close the file *)
(* (which releases the flock) and then unlink its path.                    *)
(*                                                                         *)
(* A path names at most one inode; a runner keeps the inode it opened, and *)
(* locks that one, even when the path is unlinked or names another.        *)
(***************************************************************************)
EXTENDS FiniteSets

CONSTANTS
  Runner,   \* bench_runner processes
  Inode,    \* inodes the lock file may get
  None      \* no inode, no runner

ASSUME NoneAssumption == None \notin Runner /\ None \notin Inode

VARIABLES
  pc,     \* pc[r]: where process r is in its life
  fd,     \* fd[r]: the inode r has open
  path,   \* the inode LOCK_PATH names
  owner,  \* owner[i]: the runner that holds the flock of inode i (kernel)
  pid     \* pid[i]: the runner whose pid is written in inode i

vars == <<pc, fd, path, owner, pid>>

PC == {"off", "opened", "locked", "active", "refused", "closed"}

\* Inodes neither named nor open can be handed out again.
FreeInodes == Inode \ ({path} \cup {fd[r] : r \in Runner})

\* os.open(LOCK_PATH, O_RDWR | O_CREAT)
Open(r) ==
  /\ pc[r] = "off"
  /\ \/ path # None /\ fd' = [fd EXCEPT ![r] = path] /\ UNCHANGED <<path, pid>>
     \/ path = None /\ \E i \in FreeInodes : /\ path' = i
                                             /\ fd' = [fd EXCEPT ![r] = i]
                                             /\ pid' = [pid EXCEPT ![i] = None]
  /\ pc' = [pc EXCEPT ![r] = "opened"]
  /\ UNCHANGED owner

\* Mutant: the existence of a pid in the file counts as a held lock.
MayLockByPid(r) == pc[r] = "opened" /\ owner[fd[r]] = None /\ pid[fd[r]] = None
\* The kernel gives the lock to who asks for it when nobody has it.
MayLock(r) == pc[r] = "opened" /\ owner[fd[r]] = None

\* flock(fd, LOCK_EX | LOCK_NB)
Flock(r) ==
  /\ MayLock(r)
  /\ owner' = [owner EXCEPT ![fd[r]] = r]
  /\ pc' = [pc EXCEPT ![r] = "locked"]
  /\ UNCHANGED <<fd, path, pid>>

\* Mutant: the losing runner has already overwritten the pid.
RefusedLate(r) ==
  /\ pc[r] = "opened" /\ ~ MayLock(r)
  /\ pid' = [pid EXCEPT ![fd[r]] = r]
  /\ pc' = [pc EXCEPT ![r] = "refused"]
  /\ UNCHANGED <<fd, path, owner>>
\* Another runner holds it: "another bench runner is active", exit 2.
Refused(r) ==
  /\ pc[r] = "opened" /\ ~ MayLock(r)
  /\ pc' = [pc EXCEPT ![r] = "refused"]
  /\ UNCHANGED <<fd, path, owner, pid>>

\* ftruncate and write of the pid, then the run itself.
WritePid(r) ==
  /\ pc[r] = "locked"
  /\ pid' = [pid EXCEPT ![fd[r]] = r]
  /\ pc' = [pc EXCEPT ![r] = "active"]
  /\ UNCHANGED <<fd, path, owner>>

\* The kernel drops the flock with the file.
Release(r) ==
  /\ owner' = [i \in Inode |-> IF owner[i] = r THEN None ELSE owner[i]]
  /\ fd' = [fd EXCEPT ![r] = None]

\* _release at exit: first the close ...
Close(r) ==
  /\ pc[r] = "active"
  /\ Release(r)
  /\ pc' = [pc EXCEPT ![r] = "closed"]
  /\ UNCHANGED <<path, pid>>

\* ... then the unlink of whatever the path names by now.
Unlink(r) ==
  /\ pc[r] = "closed"
  /\ path' = None
  /\ pc' = [pc EXCEPT ![r] = "off"]
  /\ UNCHANGED <<fd, owner, pid>>

\* A refused runner exits without having registered _release.
Leave(r) ==
  /\ pc[r] = "refused"
  /\ Release(r)
  /\ pc' = [pc EXCEPT ![r] = "off"]
  /\ UNCHANGED <<path, pid>>

\* SIGKILL or a power cut at any point: no handler runs.
Kill(r) ==
  /\ pc[r] # "off"
  /\ Release(r)
  /\ pc' = [pc EXCEPT ![r] = "off"]
  /\ UNCHANGED <<path, pid>>

Init ==
  /\ pc = [r \in Runner |-> "off"]
  /\ fd = [r \in Runner |-> None]
  /\ path = None
  /\ owner = [i \in Inode |-> None]
  /\ pid = [i \in Inode |-> None]

Next ==
  \E r \in Runner :
    \/ Open(r) \/ Flock(r) \/ Refused(r) \/ WritePid(r)
    \/ Close(r) \/ Unlink(r) \/ Leave(r) \/ Kill(r)

Spec == Init /\ [][Next]_vars

-----------------------------------------------------------------------------
(* Properties                                                               *)

TypeOK ==
  /\ pc \in [Runner -> PC]
  /\ fd \in [Runner -> Inode \cup {None}]
  /\ path \in Inode \cup {None}
  /\ owner \in [Inode -> Runner \cup {None}]
  /\ pid \in [Inode -> Runner \cup {None}]
  /\ \A r \in Runner : fd[r] = None <=> pc[r] \in {"off", "closed"}

\* A runner that is measuring holds the flock of the inode it opened, and the
\* pid written there is its own, so that a runner refused on that inode names
\* the right process; also when others were refused or killed meanwhile.
ActiveOwnsItsLock ==
  \A r \in Runner : pc[r] = "active" =>
    fd[r] # None /\ owner[fd[r]] = r /\ pid[fd[r]] = r

\* No crash leaves the lock held: when no runner is past the flock the next one
\* gets it, whatever pid the last one left in the file.
NeverWedged ==
  (\A r \in Runner : pc[r] \in {"off", "opened"}) =>
    \A r \in Runner : pc[r] = "opened" => MayLock(r)

\* "another bench runner is active - only one allowed (thermal)"
\* (scripts/bench_runner.py:199), "The runner enforces a single active benchmark
\* process" (docs/benchmarking-discipline.md:19).
SingleRunner ==
  \A r, s \in Runner : pc[r] = "active" /\ pc[s] = "active" => r = s
=============================================================================
