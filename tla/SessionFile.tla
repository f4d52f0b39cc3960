---------------------------- MODULE SessionFile -----------------------------
(***************************************************************************)
(* The file behind the session store (internal/session/file_store.go, and  *)
(* its use by Commit and Invalidate in session.go; of Prepare, its prune). *)
(*                                                                         *)
(* Commit and Invalidate change the entries under the mutex, release it,   *)
(* and call SaveFile, which takes the mutex again for a snapshot, releases *)
(* it, and then opens path.tmp, writes it and renames it over path.        *)
(* Nothing here serialises two savers after their snapshots; when they     *)
(* may save is up to Server.                                               *)
(*                                                                         *)
(* The file system keeps directory entries and inodes apart, since two     *)
(* savers may hold the same inode of path.tmp.  The contents of an inode   *)
(* are nothing, a whole snapshot, or bytes that do not parse.  A crash is  *)
(* one of the process: completed system calls survive it.                  *)
(***************************************************************************)
EXTENDS Naturals, FiniteSets

CONSTANTS
  Keys,        \* fingerprints
  Savers,      \* goroutines that may be in Commit or Invalidate
  Inodes,
  None,        \* no inode
  MaxCommits   \* bound on the commits

ASSUME FileAssumption == None \notin Inodes /\ MaxCommits \in Nat

VARIABLES
  mem,      \* the store's entries: the response id stored under each key
  commits,  \* number of commits, also the last response id
  up,       \* is the process running?
  pc, snap, fd,  \* a saver's place, its snapshot and its open file
  dir,      \* dir.path and dir.tmp: the inodes of path and of path.tmp
  data,     \* the contents of every inode
  behind    \* the savers whose last save failed

fileVars == <<mem, commits, up, pc, snap, fd, dir, data, behind>>

Responses == 1 .. MaxCommits

Maps == UNION {[S -> Responses] : S \in SUBSET Keys}

Part(m, S) == [k \in S |-> m[k]]

NoEntries == <<>>

\* What a file holds, and the entries a reader gets from it.
Contents == [bytes : {"nothing", "garbage", "snapshot"}, entries : Maps]

Empty    == [bytes |-> "nothing", entries |-> NoEntries]
Garbage  == [bytes |-> "garbage", entries |-> NoEntries]
Whole(m) == [bytes |-> "snapshot", entries |-> m]

FileInit ==
  /\ mem = NoEntries /\ commits = 0 /\ up = TRUE
  /\ pc = [h \in Savers |-> "idle"]
  /\ snap = [h \in Savers |-> NoEntries]
  /\ fd = [h \in Savers |-> None]
  /\ dir = [path |-> None, tmp |-> None]
  /\ data = [i \in Inodes |-> Empty]
  /\ behind = {}

\* What LoadFile finds: no file is an empty store.
File     == IF dir.path = None THEN Whole(NoEntries) ELSE data[dir.path]
Readable == File.bytes = "snapshot"

-----------------------------------------------------------------------------
(* The store *)

\* Mutant of Commit: does not save.
Commit_Unsaved(h) ==
  /\ up /\ pc[h] = "idle" /\ commits < MaxCommits
  /\ \E k \in Keys, S \in SUBSET DOMAIN mem :
       mem' = [j \in S \cup {k} |-> IF j = k THEN commits + 1 ELSE mem[j]]
  /\ commits' = commits + 1
  /\ UNCHANGED <<pc, up, snap, fd, dir, data, behind>>

\* Commit: entries expire or are evicted, and one is stored.
Commit(h) ==
  /\ up /\ pc[h] = "idle" /\ commits < MaxCommits
  /\ \E k \in Keys, S \in SUBSET DOMAIN mem :
       mem' = [j \in S \cup {k} |-> IF j = k THEN commits + 1 ELSE mem[j]]
  /\ commits' = commits + 1
  /\ pc' = [pc EXCEPT ![h] = "snapshot"]
  /\ UNCHANGED <<up, snap, fd, dir, data, behind>>

\* Prepare: entries expire, which does not write the file.
Prepare(h) ==
  /\ up /\ pc[h] = "idle"
  /\ \E S \in SUBSET DOMAIN mem : mem' = Part(mem, S)
  /\ UNCHANGED <<commits, up, pc, snap, fd, dir, data, behind>>

\* Invalidate deletes the entry of a key, if it is still there, and saves.
Invalidate(h) ==
  /\ up /\ pc[h] = "idle"
  /\ \E k \in Keys : mem' = Part(mem, DOMAIN mem \ {k})
  /\ pc' = [pc EXCEPT ![h] = "snapshot"]
  /\ UNCHANGED <<commits, up, snap, fd, dir, data, behind>>

-----------------------------------------------------------------------------
(* SaveFile *)

\* Mutant of Snapshot: copies first and prunes after.
Snapshot_Unpruned(h) ==
  /\ up /\ pc[h] = "snapshot"
  /\ \E S \in SUBSET DOMAIN mem : mem' = Part(mem, S)
  /\ snap' = [snap EXCEPT ![h] = mem]
  /\ pc' = [pc EXCEPT ![h] = "open"]
  /\ UNCHANGED <<commits, up, fd, dir, data, behind>>

\* Prune and copy under the mutex.
Snapshot(h) ==
  /\ up /\ pc[h] = "snapshot"
  /\ \E S \in SUBSET DOMAIN mem :
       /\ mem' = Part(mem, S)
       /\ snap' = [snap EXCEPT ![h] = Part(mem, S)]
  /\ pc' = [pc EXCEPT ![h] = "open"]
  /\ UNCHANGED <<commits, up, fd, dir, data, behind>>

\* Mutant of OpenTmp: writes over the file itself once it is there.
OpenTmp_InPlace(h) ==
  /\ up /\ pc[h] = "open"
  /\ \E i \in Inodes :
       /\ IF dir.path = None THEN i # dir.tmp ELSE i = dir.path
       /\ dir' = [dir EXCEPT !.path = i]
       /\ data' = [data EXCEPT ![i] = Empty]
       /\ fd' = [fd EXCEPT ![h] = i]
  /\ pc' = [pc EXCEPT ![h] = "write"]
  /\ UNCHANGED <<mem, commits, up, snap, behind>>

\* os.WriteFile opens path.tmp with O_CREATE and O_TRUNC ...
OpenTmp(h) ==
  /\ up /\ pc[h] = "open"
  /\ \E i \in Inodes :
       /\ IF dir.tmp = None
            THEN i # dir.path /\ \A g \in Savers : fd[g] # i
            ELSE i = dir.tmp
       /\ dir' = [dir EXCEPT !.tmp = i]
       /\ data' = [data EXCEPT ![i] = Empty]
       /\ fd' = [fd EXCEPT ![h] = i]
  /\ pc' = [pc EXCEPT ![h] = "write"]
  /\ UNCHANGED <<mem, commits, up, snap, behind>>

\* ... and writes from offset 0: over the bytes of another saver, a shorter
\* snapshot leaves their tail behind.
Write(h) ==
  /\ up /\ pc[h] = "write"
  /\ \E c \in {Whole(snap[h])} \cup
              (IF data[fd[h]] = Empty THEN {} ELSE {Garbage}) :
       data' = [data EXCEPT ![fd[h]] = c]
  /\ fd' = [fd EXCEPT ![h] = None]
  /\ pc' = [pc EXCEPT ![h] = "rename"]
  /\ UNCHANGED <<mem, commits, up, snap, dir, behind>>

\* rename(2) moves whatever path.tmp names now.
Rename(h) ==
  /\ up /\ pc[h] = "rename"
  /\ dir.tmp # None
  /\ dir' = [path |-> dir.tmp, tmp |-> None]
  /\ behind' = behind \ {h}
  /\ pc' = [pc EXCEPT ![h] = "idle"]
  /\ snap' = [snap EXCEPT ![h] = NoEntries]
  /\ UNCHANGED <<mem, commits, up, fd, data>>

\* A system call fails (a full disk may leave part of a write).  The callers
\* drop the error.
SaveFails(h) ==
  /\ up /\ pc[h] \in {"open", "write", "rename"}
  /\ data' = data \/ (pc[h] = "write" /\ data' = [data EXCEPT ![fd[h]] = Garbage])
  /\ behind' = behind \cup {h}
  /\ fd' = [fd EXCEPT ![h] = None]
  /\ pc' = [pc EXCEPT ![h] = "idle"]
  /\ snap' = [snap EXCEPT ![h] = NoEntries]
  /\ UNCHANGED <<mem, commits, up, dir>>

-----------------------------------------------------------------------------
(* The process *)

Crash ==
  /\ up
  /\ up' = FALSE
  /\ mem' = NoEntries
  /\ pc' = [h \in Savers |-> "idle"]
  /\ snap' = [h \in Savers |-> NoEntries]
  /\ fd' = [h \in Savers |-> None]
  /\ UNCHANGED <<commits, dir, data, behind>>

\* server.New: LoadFile, which drops what has expired.  It fails, and the server
\* does not start, on a file that does not parse.
Start ==
  /\ ~up
  /\ Readable
  /\ up' = TRUE
  /\ \E S \in SUBSET DOMAIN File.entries : mem' = Part(File.entries, S)
  /\ behind' = {}
  /\ UNCHANGED <<commits, pc, snap, fd, dir, data>>

-----------------------------------------------------------------------------

\* A saver's next step.
Saving(h) ==
  \/ Prepare(h) \/ Commit(h) \/ Invalidate(h)
  \/ Snapshot(h) \/ OpenTmp(h) \/ Write(h) \/ Rename(h) \/ SaveFails(h)

-----------------------------------------------------------------------------
(* Properties *)

FileTypeOK ==
  /\ mem \in Maps
  /\ commits \in 0 .. MaxCommits
  /\ up \in BOOLEAN
  /\ pc \in [Savers -> {"idle", "snapshot", "open", "write", "rename"}]
  /\ snap \in [Savers -> Maps]
  /\ fd \in [Savers -> Inodes \cup {None}]
  /\ dir \in [path : Inodes \cup {None}, tmp : Inodes \cup {None}]
  /\ data \in [Inodes -> Contents]
  /\ behind \subseteq Savers

\* However the process stopped, the next one can read the file and start: it is
\* never left half written (SaveFile writes beside it and renames).
Restartable == ~up => Readable

\* Once nobody is saving, and unless somebody's last save failed, a restart finds
\* every entry that is in memory.
Persisted ==
  up /\ behind = {} /\ (\A h \in Savers : pc[h] = "idle") =>
    /\ Readable
    /\ \A k \in DOMAIN mem : k \in DOMAIN File.entries /\ File.entries[k] = mem[k]

\* The file and its saver keep what DurableStore promises.
Durable == INSTANCE DurableStore WITH saved <- File.entries

ImplementsDurable == Durable!Spec

=============================================================================
