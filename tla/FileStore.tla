------------------------------ MODULE FileStore ------------------------------
(***************************************************************************)
(* The file-backed mapping store of the PII pipeline (FileStore in         *)
(* backend/pii/store.py): mappings in memory, written to a JSON file by    *)
(* _flush(), which a daemon thread calls every five seconds and close()    *)
(* calls once more. A flush takes a snapshot under the lock and writes it  *)
(* outside the lock, to a temporary file that then replaces the file. All  *)
(* flushes use the same temporary file.                                    *)
(*                                                                         *)
(* The file system is external. A thread writes to the file it has opened, *)
(* even after another thread has renamed it: fd says which one that is.    *)
(***************************************************************************)
EXTENDS Naturals

CONSTANTS
    Mapping,    \* placeholder-original pairs
    Daemon,     \* the flush thread, as a set
    Closer,     \* the threads that may call close()
    Overlap     \* close() may be called during a flush, and the other way round

ASSUME FileStoreAssumption == Overlap \in BOOLEAN /\ Daemon \cap Closer = {}

VARIABLES
    mem,     \* the mappings in memory
    dirty,   \* _dirty
    pc,      \* where each thread is in _flush()
    snap,    \* its snapshot
    fd,      \* the file it writes to
    path,    \* the store's file
    tmp,     \* the temporary file
    closed,  \* how far each call of close() is
    failed   \* history: no flush has succeeded since one failed

fileVars == <<mem, dirty, pc, snap, fd, path, tmp, closed, failed>>

Thread == Daemon \cup Closer

(* A file: JSON with some mappings, a text that is not JSON, or no file.   *)
Valid(S) == [kind |-> "valid", data |-> S]
Torn     == [kind |-> "torn", data |-> {}]
Absent   == [kind |-> "absent", data |-> {}]
File     == {Valid(S) : S \in SUBSET Mapping} \cup {Torn, Absent}

FileTypeOK ==
    /\ mem \in SUBSET Mapping
    /\ dirty \in BOOLEAN
    /\ pc \in [Thread -> {"idle", "opening", "writing", "replacing"}]
    /\ snap \in [Thread -> SUBSET Mapping]
    /\ fd \in [Thread -> {"none", "tmp", "path", "unlinked"}]
    /\ path \in File
    /\ tmp \in File
    /\ closed \in [Closer -> {"no", "running", "returned"}]
    /\ failed \in BOOLEAN

FileInit ==
    /\ mem = {}
    /\ dirty = FALSE
    /\ pc = [t \in Thread |-> "idle"]
    /\ snap = [t \in Thread |-> {}]
    /\ fd = [t \in Thread |-> "none"]
    /\ path = Absent
    /\ tmp = Absent
    /\ closed = [t \in Closer |-> "no"]
    /\ failed = FALSE

-----------------------------------------------------------------------------
(* The steps of the store and of _flush().                                 *)

PutMapping(m) ==
    /\ mem' = mem \cup {m}
    /\ dirty' = TRUE
    /\ UNCHANGED <<pc, snap, fd, path, tmp, closed, failed>>

(* A flush, or a call of close(), begins only after the others, unless     *)
(* they may overlap.                                                       *)
MayBegin == ~Overlap => \A u \in Thread : pc[u] = "idle"

(* Under the lock: what is dirty is copied, and clean from then on.        *)
Snapshot(t) ==
    /\ MayBegin
    /\ dirty
    /\ dirty' = FALSE
    /\ snap' = [snap EXCEPT ![t] = mem]
    /\ pc' = [pc EXCEPT ![t] = "opening"]

(* The flush thread finds the store dirty.                                 *)
Flush(t) ==
    /\ pc[t] = "idle"
    /\ Snapshot(t)
    /\ UNCHANGED <<mem, fd, path, tmp, closed, failed>>

(* close(): a flush, which returns at once if the store is not dirty.      *)
Close(t) ==
    /\ closed[t] = "no"
    /\ \/ Snapshot(t) /\ closed' = [closed EXCEPT ![t] = "running"]
       \/ /\ MayBegin
          /\ ~dirty
          /\ closed' = [closed EXCEPT ![t] = "returned"]
          /\ UNCHANGED <<dirty, snap, pc>>
    /\ UNCHANGED <<mem, fd, path, tmp, failed>>

(* open(tmp, "w") creates the file or empties it.                          *)
Open(t) ==
    /\ pc[t] = "opening"
    /\ tmp' = Torn
    /\ fd' = [fd EXCEPT ![t] = "tmp"]
    /\ pc' = [pc EXCEPT ![t] = "writing"]
    /\ UNCHANGED <<mem, dirty, snap, path, closed, failed>>

(* A file after the snapshot S is written over it from its beginning: the  *)
(* end of a longer text remains.                                           *)
Overwrite(file, S) ==
    IF file.kind = "valid" /\ S \subseteq file.data /\ S # file.data THEN Torn ELSE Valid(S)

Write(t) ==
    /\ pc[t] = "writing"
    /\ tmp'  = IF fd[t] = "tmp"  THEN Overwrite(tmp, snap[t])  ELSE tmp
    /\ path' = IF fd[t] = "path" THEN Overwrite(path, snap[t]) ELSE path
    /\ fd' = [fd EXCEPT ![t] = "none"]
    /\ pc' = [pc EXCEPT ![t] = "replacing"]
    /\ UNCHANGED <<mem, dirty, snap, closed, failed>>

(* _flush() is over; so is close(), if it was the caller.                  *)
EndFlush(t) ==
    /\ pc' = [pc EXCEPT ![t] = "idle"]
    /\ closed' = [u \in Closer |-> IF u = t THEN "returned" ELSE closed[u]]

(* The temporary file becomes the store's file, for those who write to it  *)
(* as well.                                                                *)
Rename ==
    /\ path' = tmp
    /\ tmp' = Absent
    /\ failed' = FALSE
    /\ fd' = [u \in Thread |-> CASE fd[u] = "tmp"  -> "path"
                                 [] fd[u] = "path" -> "unlinked"
                                 [] OTHER          -> fd[u]]

(* Mutation: without os.replace, the old file has to go first.             *)
ReplaceInTwoSteps(t) ==
    /\ pc[t] = "replacing"
    /\ IF path.kind # "absent"
         THEN path' = Absent /\ UNCHANGED <<pc, closed, fd, tmp, failed>>
         ELSE Rename /\ EndFlush(t)
    /\ UNCHANGED <<mem, dirty, snap>>

(* Mutation: the store is marked clean when the flush is over.             *)
ReplaceAndClean(t) ==
    /\ pc[t] = "replacing"
    /\ Rename
    /\ EndFlush(t)
    /\ dirty' = FALSE
    /\ UNCHANGED <<mem, snap>>

(* os.replace(tmp, path). If another flush has renamed the temporary file  *)
(* it is an OSError, which is swallowed.                                   *)
Replace(t) ==
    /\ pc[t] = "replacing"
    /\ IF tmp.kind = "absent" THEN failed' = TRUE /\ UNCHANGED <<fd, path, tmp>> ELSE Rename
    /\ EndFlush(t)
    /\ UNCHANGED <<mem, dirty, snap>>

(* Any other OSError: it is swallowed too, and the store stays clean.      *)
Fail(t) ==
    /\ pc[t] # "idle"
    /\ failed' = TRUE
    /\ fd' = [fd EXCEPT ![t] = "none"]
    /\ EndFlush(t)
    /\ UNCHANGED <<mem, dirty, snap, path, tmp>>

(* The process dies at any point and starts again: _load reads the file,   *)
(* and takes one that it cannot parse for an empty one.                    *)
Restart ==
    /\ mem' = path.data
    /\ dirty' = FALSE
    /\ pc' = [t \in Thread |-> "idle"]
    /\ snap' = [t \in Thread |-> {}]
    /\ fd' = [t \in Thread |-> "none"]
    /\ closed' = [t \in Closer |-> "no"]
    /\ failed' = FALSE
    /\ UNCHANGED <<path, tmp>>

-----------------------------------------------------------------------------
FlushStep(t) == Open(t) \/ Write(t) \/ Replace(t) \/ Fail(t)

FileNext ==
    \/ \E m \in Mapping : PutMapping(m)
    \/ \E t \in Daemon : Flush(t)
    \/ \E t \in Closer : Close(t)
    \/ \E t \in Thread : FlushStep(t)
    \/ Restart

(* The operating system runs the threads, and file operations return.      *)
Fairness ==
    /\ \A t \in Daemon : WF_fileVars(Flush(t))
    /\ \A t \in Thread : WF_fileVars(FlushStep(t))

FileSpec == FileInit /\ [][FileNext]_fileVars
FileFairSpec == FileSpec /\ Fairness

-----------------------------------------------------------------------------
(* Properties.                                                             *)

(* At any moment the file, if there is one, is one that _load can parse: a *)
(* crash in the middle of a flush does not corrupt the store.              *)
FileIsReadable == path.kind # "torn"

(* What has been saved stays saved, across failed writes and crashes.      *)
SavedForGood == [][path.data \subseteq path'.data]_fileVars

(* A mapping that is put is saved eventually, unless the process dies or a *)
(* flush fails.                                                            *)
EventuallySaved ==
    \A m \in Mapping : m \in mem ~> m \in path.data \/ m \notin mem \/ failed
=============================================================================
