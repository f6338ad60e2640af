---------------------------- MODULE ConfigStore ----------------------------
(***************************************************************************)
(* One managed config file (crates/config/src/lib.rs) and the PutConfig    *)
(* and GetConfig handlers on it (crates/server/src/config.rs).             *)
(*                                                                         *)
(* atomic_write awaits five file operations; tokio runs each as a closure  *)
(* on its blocking pool, so one that has started ends even when the        *)
(* handler's future is dropped (the client goes away).  All writers of a   *)
(* file use the same temporary name, which holds the process id.  Files    *)
(* are inodes: an open file follows its inode through a rename.  A content *)
(* is two blocks, written one after the other; each block remembers its    *)
(* writer.  The disk keeps what was written: power loss is left out, and   *)
(* so is somebody else who removes the file.                               *)
(***************************************************************************)
EXTENDS Naturals, FiniteSets, Sequences

CONSTANTS Puts,       \* PutConfig calls
          Old,        \* the file that was there, if there was one
          NoFile,     \* no such directory entry, no such block
          AtOnce      \* bound: calls in flight at the same time

ASSUME ConfigAssumption == Old \notin Puts /\ NoFile \notin Puts \cup {Old} /\ AtOnce \in Nat
                            /\ IsFiniteSet(Puts)

Inodes == Puts \cup {Old}     \* an inode is named after the call that created it
Content == [1..2 -> Inodes \cup {NoFile}]
Whole(w) == [k \in 1..2 |-> w]   \* Whole(Old) stands for no content when there was no file

VARIABLES
  target, tmp,   \* the directory: inode of the file and of .<name>.zerod.<pid>.tmp
  content,       \* of each inode
  mode,          \* of each inode: "file" (the bits the file had), "default" (0o644),
                 \* "new" (the umask's) or "none" (there is no such file)
  pc, fd, perms, \* each call: next operation, open inode, the mode metadata() gave it,
                 \* or "unseen"
  gone,          \* its handler's future was dropped
  outcome,       \* its reply
  effected,      \* history: calls whose rename was done, in order
  reader         \* a GetConfig: inode it has open and blocks it has read

callVars == <<fd, perms, gone, outcome>>
vars == <<target, tmp, content, mode, pc, callVars, effected, reader>>

Closed == [inode |-> NoFile, read |-> <<>>]

Init ==
  /\ target = Old /\ tmp = NoFile
  /\ content = [i \in Inodes |-> IF i = Old THEN Whole(Old) ELSE Whole(NoFile)]
  /\ \E there \in {"file", "none"} : mode = [i \in Inodes |-> IF i = Old THEN there ELSE "new"]
  /\ pc = [w \in Puts |-> "idle"]
  /\ fd = [w \in Puts |-> NoFile] /\ perms = [w \in Puts |-> "none"]
  /\ gone = [w \in Puts |-> FALSE] /\ outcome = [w \in Puts |-> "none"]
  /\ effected = <<>> /\ reader = Closed

InFlight == {w \in Puts : pc[w] \notin {"idle", "done"}}
At(w, op) == pc[w] = op /\ ~gone[w]
Go(w, op) == pc' = [pc EXCEPT ![w] = op]

\* These calls are over, with what they held.
End(over) ==
  /\ pc' = [w \in Puts |-> IF w \in over THEN "done" ELSE pc[w]]
  /\ fd' = [w \in Puts |-> IF w \in over THEN NoFile ELSE fd[w]] /\ perms' = perms
  /\ gone' = [w \in Puts |-> gone[w] /\ w \notin over]
Reply(w, o) == End({w}) /\ outcome' = [outcome EXCEPT ![w] = o]

\* A write that took effect had not seen the mode of the file it replaced.
Unseen == \E k \in DOMAIN effected : perms[effected[k]] = "unseen"

\* metadata(target): the mode to give the new file, when there is a file and the
\* call succeeds.  Its error is dropped.
Stat(w) ==
  /\ At(w, "idle") /\ Cardinality(InFlight) < AtOnce
  /\ \E seen \in {mode[target], "unseen"} \ {"none"} : perms' = [perms EXCEPT ![w] = seen]
  /\ Go(w, "open")
  /\ UNCHANGED <<target, tmp, content, mode, fd, gone, outcome, effected, reader>>

\* mutant
OpenTarget(w) ==
  /\ At(w, "open") /\ fd' = [fd EXCEPT ![w] = target]
  /\ content' = [content EXCEPT ![target] = Whole(NoFile)] /\ tmp' = target
  /\ Go(w, "block1")
  /\ UNCHANGED <<target, mode, perms, gone, outcome, effected, reader>>

\* tokio::fs::write: the temporary file is opened, created or truncated ...
Open(w) == LET i == IF tmp = NoFile THEN w ELSE tmp IN
  /\ At(w, "open")
  /\ tmp' = i /\ fd' = [fd EXCEPT ![w] = i]
  /\ content' = [content EXCEPT ![i] = Whole(NoFile)]
  /\ Go(w, "block1")
  /\ UNCHANGED <<target, mode, perms, gone, outcome, effected, reader>>

\* ... and written block by block, to the inode that was opened.
Block(w, k) ==
  /\ pc[w] = IF k = 1 THEN "block1" ELSE "block2"
  /\ content' = [content EXCEPT ![fd[w]][k] = w]
  /\ Go(w, IF k = 1 THEN "block2" ELSE "chmod")
  /\ UNCHANGED <<target, tmp, mode, callVars, effected, reader>>

\* mutant
ChmodNothing(w) ==
  /\ At(w, "chmod") /\ Go(w, "rename")
  /\ UNCHANGED <<target, tmp, content, mode, callVars, effected, reader>>

\* set_permissions and rename work on the name, and fail if it is not there.
\* A mode that was not seen is 0o644.
Chmod(w) ==
  /\ At(w, "chmod") /\ tmp # NoFile
  /\ mode' = [mode EXCEPT ![tmp] = IF perms[w] = "unseen" THEN "default" ELSE perms[w]]
  /\ Go(w, "rename")
  /\ UNCHANGED <<target, tmp, content, callVars, effected, reader>>

\* mutant
RenameThenFail(w) == At(w, "rename") /\ tmp # NoFile /\ target' = tmp /\ tmp' = tmp /\ Reply(w, "failed")
  /\ UNCHANGED <<content, mode, effected, reader>>

Rename(w) ==
  /\ At(w, "rename") /\ tmp # NoFile
  /\ target' = tmp /\ tmp' = NoFile
  /\ effected' = Append(effected, w)
  /\ Go(w, "action")
  /\ UNCHANGED <<content, mode, callVars, reader>>

\* Any of the file operations may fail, at the latest when the disk is full;
\* PutConfig then fails and leaves what there is.
Fail(w) ==
  /\ pc[w] \in {"open", "block1", "block2", "chmod", "rename"} /\ Reply(w, "failed")
  /\ UNCHANGED <<target, tmp, content, mode, effected, reader>>

\* The client goes away: the handler's future is dropped at its await, the
\* block writes under way go on, nothing after them is started.
Abandon(w) ==
  /\ w \in InFlight /\ ~gone[w]
  /\ gone' = [gone EXCEPT ![w] = TRUE]
  /\ UNCHANGED <<target, tmp, content, mode, pc, fd, perms, outcome, effected, reader>>

Over(w) ==
  /\ gone[w] /\ pc[w] \in {"open", "chmod", "rename", "action"}
  /\ End({w}) /\ UNCHANGED <<target, tmp, content, mode, outcome, effected, reader>>

\* GetConfig: the file is opened, if there is one, read block by block and closed.
Read ==
  /\ \/ /\ reader.inode = NoFile /\ mode[target] # "none"
        /\ reader' = [Closed EXCEPT !.inode = target]
     \/ /\ reader.inode # NoFile /\ Len(reader.read) < 2
        /\ reader' = [reader EXCEPT !.read = Append(@, content[reader.inode][Len(@) + 1])]
     \/ Len(reader.read) = 2 /\ reader' = Closed
  /\ UNCHANGED <<target, tmp, content, mode, pc, callVars, effected>>

\* The daemon is killed and started again: calls and their file operations are
\* gone, and the next process has a temporary name of its own.
Restart ==
  /\ End(InFlight) /\ tmp' = NoFile /\ reader' = Closed
  /\ UNCHANGED <<target, content, mode, outcome, effected>>

PutStep(w) ==
  \/ Stat(w) \/ Open(w) \/ Block(w, 1) \/ Block(w, 2) \/ Chmod(w) \/ Rename(w)
  \/ Fail(w) \/ Abandon(w) \/ Over(w)

Next == (\E w \in Puts : PutStep(w)) \/ Read \/ Restart

Spec == Init /\ [][Next]_vars

-----------------------------------------------------------------------------
(* Properties. *)

TypeOK ==
  /\ target \in Inodes /\ tmp \in Inodes \cup {NoFile}
  /\ content \in [Inodes -> Content] /\ mode \in [Inodes -> {"file", "default", "new", "none"}]
  /\ pc \in [Puts -> {"idle", "open", "block1", "block2", "chmod", "rename", "action", "acting", "done"}]
  /\ fd \in [Puts -> Inodes \cup {NoFile}] /\ perms \in [Puts -> {"file", "default", "new", "unseen", "none"}]
  /\ gone \in [Puts -> BOOLEAN]
  /\ outcome \in [Puts -> {"none", "failed", "written", "applied", "unapplied"}]
  /\ effected \in Seq(Puts) /\ reader.inode \in Inodes \cup {NoFile}

\* "a partial write can never corrupt the on-disk config" (lib.rs:3-4): what is
\* at the file's path was written as a whole by one call.
TargetWhole == \E w \in Inodes : content[target] = Whole(w)

\* A PutConfig that reports that its write failed has left nothing in the file, and
\* GetConfig never returns half of one content and half of another, although the
\* file is replaced while it reads.  The file never has the temporary file's mode,
\* and loses its own for 0o644 only by a write that took effect and had not been
\* able to read it ("when possible", lib.rs:65-66): failed, abandoned and killed
\* writes, whatever they saw, cost it nothing.
FileIntact ==
  /\ \A w \in Puts : outcome[w] = "failed" => w \notin {content[target][k] : k \in 1..2}
  /\ mode[target] # "new" /\ (mode[target] = "default" => Unseen)
  /\ mode[target] = "none" => effected = <<>>
  /\ Len(reader.read) = 2 => reader.read[1] = reader.read[2] /\ reader.read[1] # NoFile

\* The file is atomic in the sense of module AtomicFile.
Promise == INSTANCE AtomicFile WITH Writes <- Puts, effected <- {effected[k] : k \in DOMAIN effected},
  file <- IF TargetWhole THEN content[target][1] ELSE NoFile
KeepsPromise == Promise!Spec
=============================================================================
