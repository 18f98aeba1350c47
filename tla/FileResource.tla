----------------------------- MODULE FileResource -----------------------------
(***************************************************************************)
(* One FileResource (packages/filesystem/src/browser/file-resource.ts), the *)
(* parts of the file service it saves and reads through (file-service.ts), *)
(* the file on disk, and the programs that write the file as well.         *)
(*                                                                         *)
(* A content of the file is known by its modification time, which every    *)
(* write advances; its size stands beside it, since the check for a file   *)
(* modified in between compares both.  The editor above the resource is    *)
(* external: it reads and saves when it likes, several times at once.      *)
(* Encodings, binary and large files are left out.                         *)
(***************************************************************************)
EXTENDS Naturals, Sequences

CONSTANTS MaxTime,          \* bound on the writes of the file
          Sizes,
          Saves, ReadCalls  \* calls of saveContents, of readContents

VARIABLES
  disk,       \* the file: [mtime, size]; mtime 0 when it is deleted
  time,       \* writes so far
  version,    \* _version
  lock,       \* writingLock: its owner, then those who wait
  save,       \* per save: its stage, what it expects on disk and what its check finds
  read,       \* per read: its stage and what it has got
  events,     \* the watcher has changes to tell
  syncing,    \* a sync() waits for the lock
  stats,      \* what other syncs have got to compare with
  \* what the editor knows
  seen,       \* contents it has read or written, by their stats
  fired,      \* onDidChangeContents, since it last began to read
  between     \* contents others put between a content of the editor and its stat

fileVars == <<disk, time, version, lock, save, read, events, syncing, stats, seen, fired, between>>

None == [mtime |-> 0, size |-> 0]
Exists == disk.mtime # 0

SaveAt(stage) ==
  [stage |-> stage, changes |-> FALSE, expected |-> None, anyway |-> FALSE, found |-> None]
ReadAt(stage) == [stage |-> stage, content |-> None, stat |-> None]

\* The editor has read the file, or has not yet.
FileInit ==
  /\ disk = [mtime |-> 1, size |-> CHOOSE s \in Sizes : TRUE]
  /\ time = 1
  /\ version \in {None, disk}
  /\ lock = <<>>
  /\ save = [i \in Saves |-> SaveAt("not called")]
  /\ read = [r \in ReadCalls |-> ReadAt("not called")]
  /\ events = FALSE
  /\ syncing = FALSE
  /\ stats = {}
  /\ seen = {version} \ {None}
  /\ fired = FALSE
  /\ between = {}

Put(size) ==
  /\ time < MaxTime
  /\ time' = time + 1
  /\ disk' = [mtime |-> time + 1, size |-> size]
  /\ events' = TRUE

-----------------------------------------------------------------------------
(* The other programs, and the watcher *)

\* A save has written and does not know the stat yet, a read has the content only.
StatIsDue ==
  \/ \E i \in Saves : save[i].stage = "written"
  \/ \E r \in ReadCalls : read[r].stage = "content"

OthersWrite ==
  /\ \E size \in Sizes : Put(size)
  /\ between' = IF StatIsDue THEN between \cup {disk'} ELSE between
  /\ UNCHANGED <<version, lock, save, read, syncing, stats, seen, fired>>

OthersDelete ==
  /\ Exists
  /\ disk' = None
  /\ events' = TRUE
  /\ UNCHANGED <<time, version, lock, save, read, syncing, stats, seen, fired, between>>

\* onDidFilesChange: sync begins, and waits for the lock.
FilesChange ==
  /\ events
  /\ events' = FALSE
  /\ syncing' = TRUE
  /\ UNCHANGED <<disk, time, version, lock, save, read, stats, seen, fired, between>>

-----------------------------------------------------------------------------
(* isInSync and sync *)

SyncStat ==
  /\ syncing
  /\ lock = <<>>
  /\ syncing' = FALSE
  /\ stats' = stats \cup {disk}
  /\ UNCHANGED <<disk, time, version, lock, save, read, events, seen, fired, between>>

\* The stat of a file that is not there throws.
InSync(stat) == IF stat = None THEN version = None ELSE version # None /\ version.mtime >= stat.mtime

\* Mutation: the version is brought up to date as well.
SyncCompare_Taken ==
  \E stat \in stats :
    /\ stats' = stats \ {stat}
    /\ fired' = (fired \/ ~InSync(stat))
    /\ version' = stat
    /\ UNCHANGED <<disk, time, lock, save, read, events, syncing, seen, between>>

SyncCompare ==
  \E stat \in stats :
    /\ stats' = stats \ {stat}
    /\ fired' = (fired \/ ~InSync(stat))
    /\ UNCHANGED <<disk, time, version, lock, save, read, events, syncing, seen, between>>

-----------------------------------------------------------------------------
(* readContents: doReadAsFileStream takes the stat and the content at once *)

ReadContents(r) ==
  /\ read[r].stage = "not called"
  /\ read' = [read EXCEPT ![r].stage = "reading"]
  /\ fired' = FALSE
  /\ UNCHANGED <<disk, time, version, lock, save, events, syncing, stats, seen, between>>

\* Either finds no file: FILE_NOT_FOUND.
ReadFails(r) ==
  /\ ~Exists
  /\ read[r].stage \in {"reading", "content", "stat"}
  /\ read' = [read EXCEPT ![r] = ReadAt("done")]
  /\ version' = None
  /\ UNCHANGED <<disk, time, lock, save, events, syncing, stats, seen, fired, between>>

ReadHalf(r) ==
  /\ Exists
  /\ read[r].stage = "reading"
  /\ \/ read' = [read EXCEPT ![r].stage = "content", ![r].content = disk]
     \/ read' = [read EXCEPT ![r].stage = "stat", ![r].stat = disk]
  /\ UNCHANGED <<disk, time, version, lock, save, events, syncing, stats, seen, fired, between>>

ReadDone(r) ==
  /\ Exists
  /\ \/ read[r].stage = "content" /\ version' = disk /\ seen' = seen \cup {read[r].content}
     \/ read[r].stage = "stat" /\ version' = read[r].stat /\ seen' = seen \cup {read[r].stat, disk}
  /\ read' = [read EXCEPT ![r] = ReadAt("done")]
  /\ UNCHANGED <<disk, time, lock, save, events, syncing, stats, fired, between>>

-----------------------------------------------------------------------------
(* Resource.save: doSaveContentChanges, doWrite, and writeFile and update of *)
(* the file service                                                          *)

Enter(i, changes) ==
  /\ save[i].stage = "not called"
  /\ save' = [save EXCEPT ![i] = [SaveAt("locking") EXCEPT !.changes = changes, !.expected = version]]
  /\ lock' = Append(lock, i)
  /\ UNCHANGED <<disk, time, version, read, events, syncing, stats, seen, fired, between>>

\* Changes can only be saved of a file that was read.
SaveContentChanges(i) == version # None /\ Enter(i, TRUE)

SaveContents(i) == Enter(i, FALSE)

Owns(i) == lock # <<>> /\ Head(lock) = i

ModifiedSince(expected) ==
  Exists /\ expected # None /\ expected.mtime < disk.mtime /\ expected.size # disk.size

\* The save is over, whether it failed or not; the lock is released.
Done(i) ==
  /\ save' = [save EXCEPT ![i] = SaveAt("done")]
  /\ lock' = Tail(lock)

\* The whole content is saved when the changes cannot be, against the version
\* there is by then, unless the save was cancelled.
FallBack(i) ==
  \/ Done(i)
  \/ /\ save' = [save EXCEPT ![i] = [SaveAt("locking") EXCEPT !.expected = version]]
     /\ lock' = Append(Tail(lock), i)

\* validateWriteFile.  A file that was modified makes doWrite ask the user, with
\* the lock held.
Validate(i) ==
  /\ Owns(i)
  /\ save[i].stage = "locking"
  /\ \/ /\ ~ModifiedSince(save[i].expected)
        /\ save' = [save EXCEPT ![i].stage = "writing", ![i].found = disk]
        /\ UNCHANGED lock
     \/ /\ ModifiedSince(save[i].expected)
        /\ ~save[i].changes
        /\ save' = [save EXCEPT ![i].stage = "asking"]
        /\ UNCHANGED lock
     \/ /\ ModifiedSince(save[i].expected)
        /\ save[i].changes
        /\ FallBack(i)
  /\ UNCHANGED <<disk, time, version, read, events, syncing, stats, seen, fired, between>>

\* Changes are not applied to a file that is gone.
Write(i) ==
  /\ save[i].stage = "writing"
  /\ save[i].changes => Exists
  /\ \E size \in Sizes : Put(size)
  /\ seen' = seen \cup {disk'}
  /\ save' = [save EXCEPT ![i].stage = "written", ![i].found = None]
  /\ UNCHANGED <<version, lock, read, syncing, stats, fired, between>>

\* The provider refuses the write.
\* Mutation: the lock is only released by a save that succeeds.
WriteFails_Locked(i) ==
  /\ save[i].stage = "writing"
  /\ save' = [save EXCEPT ![i] = SaveAt("done")]
  /\ UNCHANGED <<disk, time, version, lock, read, events, syncing, stats, seen, fired, between>>

WriteFails(i) ==
  /\ save[i].stage = "writing"
  /\ \/ save[i].changes /\ FallBack(i)
     \/ ~save[i].changes /\ Done(i)
  /\ UNCHANGED <<disk, time, version, read, events, syncing, stats, seen, fired, between>>

\* The file is resolved after it was written; it may be gone.
Written(i) ==
  /\ save[i].stage = "written"
  /\ version' = IF Exists THEN disk ELSE version
  /\ IF ~Exists /\ save[i].changes THEN FallBack(i) ELSE Done(i)
  /\ UNCHANGED <<disk, time, read, events, syncing, stats, seen, fired, between>>

\* shouldOverwrite: doWrite again, with a version that is not checked.  It
\* queues for the lock before this one releases it.
Overwrite(i) ==
  /\ save[i].stage = "asking"
  /\ save' = [save EXCEPT ![i] = [SaveAt("locking") EXCEPT !.anyway = TRUE]]
  /\ lock' = Append(Tail(lock), i)
  /\ UNCHANGED <<disk, time, version, read, events, syncing, stats, seen, fired, between>>

\* OutOfSync
GiveUp(i) ==
  /\ save[i].stage = "asking"
  /\ Done(i)
  /\ UNCHANGED <<disk, time, version, read, events, syncing, stats, seen, fired, between>>

-----------------------------------------------------------------------------
ReadGoesOn(r) == ReadFails(r) \/ ReadHalf(r) \/ ReadDone(r)
SaveGoesOn(i) == Validate(i) \/ Write(i) \/ WriteFails(i) \/ Written(i) \/ Overwrite(i) \/ GiveUp(i)

FileNext ==
  \/ OthersWrite
  \/ OthersDelete
  \/ FilesChange
  \/ SyncStat
  \/ SyncCompare
  \/ \E r \in ReadCalls : ReadContents(r) \/ ReadGoesOn(r)
  \/ \E i \in Saves : SaveContentChanges(i) \/ SaveContents(i) \/ SaveGoesOn(i)

FileSpec == FileInit /\ [][FileNext]_fileVars

FrontendGoesOn ==
  \/ SyncStat
  \/ SyncCompare
  \/ \E r \in ReadCalls : ReadGoesOn(r)
  \/ \E i \in Saves : SaveGoesOn(i)

\* The watcher tells of changes, what was called goes on, and the user answers
\* the question of a save.
FileFairness == WF_fileVars(FilesChange) /\ WF_fileVars(FrontendGoesOn)

FairFileSpec == FileSpec /\ FileFairness

-----------------------------------------------------------------------------
(* Properties *)

\* Dirty write prevention: what a save goes by when it passes its check unasked is a
\* content the editor has read or written, and the file it overwrites has the size it
\* knows of that one.  Two cases are left: a file that was never read, or last found
\* missing, is written unchecked; and a content that others put between a content of
\* the editor and its stat is taken for the editor's own.
NoBlindOverwrite ==
  \A i \in Saves :
    (save[i].stage = "writing" /\ ~save[i].anyway /\ save[i].found # None /\ save[i].expected # None) =>
      /\ save[i].expected \in seen \cup between
      /\ save[i].found.size = save[i].expected.size

\* The editor hears of a change of the file by another program, unless it overwrites
\* what was written: onDidChangeContents is fired after the change.  A change between
\* a content of the editor and its stat may be taken for the editor's own.
Unaware == Exists /\ disk.mtime # 1 /\ disk \notin seen \cup between /\ ~fired
ChangeIsNoticed == Unaware ~> ~Unaware
=============================================================================
