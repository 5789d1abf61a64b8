---------------------------- MODULE ManagedFiles ----------------------------
(***************************************************************************)
(* The file operations everything MCP writes goes through:                 *)
(* atomic_write_bytes and atomic_copy_file of managed_path.py, for servers *)
(* that use one target at the same time, a user who edits and removes      *)
(* files, failing system calls and servers that die.                       *)
(*                                                                         *)
(* On Windows an operation holds the target without sharing, writes a      *)
(* temporary file, moves the target to a quarantine name, the temporary    *)
(* file to the target and marks the quarantined file deleted; elsewhere it *)
(* writes a temporary file and replaces the target with it.  A file is     *)
(* what the code compares: its id stands for inode, size and mtime, so     *)
(* that every edit makes another one.  The parent directory stays where it *)
(* is, hard links and reparse points are refused as the operation begins   *)
(* and are left out.                                                       *)
(***************************************************************************)
EXTENDS Naturals, Platform

CONSTANTS Writers, User, NoFile,
          MaxFile     \* bound: files made and edits

ASSUME ManagedFilesAssumption ==
    /\ User \notin Writers
    /\ MaxFile \in Nat \ {0, 1}

VARIABLES
    disk,     \* what is under each name
    writer,   \* each server's operation
    made      \* files made so far: the ids and the data in use

fileVars == <<windows, disk, writer, made>>

Leaf          == <<"leaf", User>>
Source        == <<"source", User>>
Temp(w)       == <<"tmp", w>>
Quarantine(w) == <<"quarantine", w>>
Names == {Leaf, Source} \cup {Temp(w) : w \in Writers} \cup {Quarantine(w) : w \in Writers}

\* data 0: a file that is not written to its end.
Partial == 0
Files == [id : 1..MaxFile, data : 0..MaxFile]

\* seen and src: the target and the source of a copy as the operation began.
Ended == {"idle", "done", "failed"}
Operations ==
    [at : Ended \cup {"open", "create", "fill", "displace", "install", "retire",
                      "replace", "rollback", "cleanup", "leaked", "dead"},
     kind : {"write", "copy"}, seen : Files \cup {NoFile}, src : Files \cup {NoFile}]

FilesTypeOK ==
    /\ PlatformTypeOK
    /\ disk \in [Names -> Files \cup {NoFile}]
    /\ writer \in [Writers -> Operations]
    /\ made \in 1..MaxFile

FilesInit ==
    /\ PlatformTypeOK
    /\ disk = [n \in Names |-> IF n = Leaf THEN [id |-> 1, data |-> 1]
                               ELSE IF n = Source THEN [id |-> 2, data |-> 2] ELSE NoFile]
    /\ writer = [w \in Writers |->
                    [at |-> "idle", kind |-> "write", seen |-> NoFile, src |-> NoFile]]
    /\ made = 2

-----------------------------------------------------------------------------
OnDisk == {disk[n] : n \in Names} \ {NoFile}

At(w, step) == writer[w].at = step
Go(w, step) == writer' = [writer EXCEPT ![w].at = step]

\* Only Windows keeps others off: from open to the end the target cannot be
\* opened for writing, renamed or removed, the source not be written or removed.
HoldsTarget(w, f) ==
    /\ windows /\ f # NoFile /\ writer[w].seen = f
    /\ writer[w].at \notin Ended \cup {"open", "dead"}
HoldsSource(w, f) ==
    /\ windows /\ f # NoFile /\ writer[w].kind = "copy" /\ writer[w].src = f
    /\ writer[w].at \notin Ended \cup {"open", "dead"}

\* The names tmp and quarantine are new ones for each operation: one that
\* leaves a file under them is the last of its server here.
Begin(w, kind, step) ==
    /\ writer[w].at \in Ended
    /\ disk[Temp(w)] = NoFile /\ disk[Quarantine(w)] = NoFile
    /\ writer' = [writer EXCEPT ![w] =
          [kind |-> kind, at |-> step, seen |-> disk[Leaf],
           src |-> IF kind = "copy" THEN disk[Source] ELSE NoFile]]
    /\ UNCHANGED <<windows, disk, made>>
First == IF windows THEN "open" ELSE "create"

BeginWrite(w) == Begin(w, "write", First)

\* No caller of atomic_copy_file asks to replace the target.
BeginCopy(w) ==
    /\ disk[Source] # NoFile
    /\ Begin(w, "copy", IF disk[Leaf] = NoFile THEN First ELSE "failed")

Unchanged_Trusted(w) == TRUE
Unchanged(w) ==
    /\ writer[w].kind = "copy" => disk[Source] = writer[w].src
    /\ writer[w].seen # NoFile =>
          /\ disk[Leaf] = writer[w].seen
          /\ ~\E v \in Writers \ {w} : HoldsTarget(v, disk[Leaf])

\* Handles are opened, and what they hold compared with what was seen.
Open(w) ==
    /\ At(w, "open")
    /\ Go(w, IF Unchanged(w) THEN "create" ELSE "failed")
    /\ UNCHANGED <<windows, disk, made>>

CreateTemp(w) ==
    /\ At(w, "create") /\ made < MaxFile
    /\ made' = made + 1
    /\ disk' = [disk EXCEPT ![Temp(w)] = [id |-> made', data |-> Partial]]
    /\ Go(w, "fill")
    /\ UNCHANGED windows

Filled(w) ==
    /\ Go(w, IF ~windows THEN "replace"
             ELSE IF writer[w].seen # NoFile THEN "displace" ELSE "install")
    /\ UNCHANGED <<windows, made>>
FillWrite(w) ==
    /\ At(w, "fill") /\ writer[w].kind = "write"
    /\ disk' = [disk EXCEPT ![Temp(w)].data = disk[Temp(w)].id]
    /\ Filled(w)

\* The source is compared before and after it is read.
FillCopy(w) ==
    /\ At(w, "fill") /\ writer[w].kind = "copy"
    /\ disk[Source] = writer[w].src
    /\ disk' = [disk EXCEPT ![Temp(w)].data = disk[Source].data]
    /\ Filled(w)

Displace(w) ==
    /\ At(w, "displace")
    /\ disk' = [disk EXCEPT ![Leaf] = NoFile, ![Quarantine(w)] = disk[Leaf]]
    /\ Go(w, "install")
    /\ UNCHANGED <<windows, made>>

\* ReplaceIfExists is 0: the rename fails if somebody made a file there.
Install(w) ==
    /\ At(w, "install") /\ disk[Leaf] = NoFile
    /\ disk' = [disk EXCEPT ![Leaf] = disk[Temp(w)], ![Temp(w)] = NoFile]
    /\ Go(w, IF writer[w].seen # NoFile THEN "retire" ELSE "done")
    /\ UNCHANGED <<windows, made>>

Retire(w) ==
    /\ At(w, "retire")
    /\ disk' = [disk EXCEPT ![Quarantine(w)] = NoFile]
    /\ Go(w, "done")
    /\ UNCHANGED <<windows, made>>

\* os.replace takes the place of whatever is there by now.
Replace(w) ==
    /\ At(w, "replace")
    /\ disk' = [disk EXCEPT ![Leaf] = disk[Temp(w)], ![Temp(w)] = NoFile]
    /\ Go(w, "done")
    /\ UNCHANGED <<windows, made>>

\* An exception, of a system call or a comparison that failed.  Once the new
\* file is in place nothing is rolled back: the old one stays in quarantine.
Raise(w) ==
    /\ writer[w].at \in {"create", "fill", "displace", "install", "replace", "retire"}
    /\ Go(w, IF At(w, "retire") \/ At(w, "create") THEN "failed"
             ELSE IF disk[Quarantine(w)] # NoFile THEN "rollback" ELSE "cleanup")
    /\ UNCHANGED <<windows, disk, made>>

\* The rename back fails too if the name is taken, or for any other reason.
Rollback(w) ==
    /\ At(w, "rollback")
    /\ \/ /\ disk[Leaf] = NoFile
          /\ disk' = [disk EXCEPT ![Leaf] = disk[Quarantine(w)], ![Quarantine(w)] = NoFile]
       \/ disk' = disk
    /\ Go(w, "cleanup")
    /\ UNCHANGED <<windows, made>>

\* If Windows refuses to delete the temporary file, the exception skips the
\* CloseHandle calls after it: the server holds the files until it ends.
Cleanup(w) ==
    /\ At(w, "cleanup")
    /\ \/ disk' = [disk EXCEPT ![Temp(w)] = NoFile] /\ Go(w, "failed")
       \/ windows /\ disk' = disk /\ Go(w, "leaked")
    /\ UNCHANGED <<windows, made>>

Die(w) ==
    /\ ~At(w, "dead") /\ Go(w, "dead")
    /\ UNCHANGED <<windows, disk, made>>

Free(f) == \A w \in Writers : ~HoldsTarget(w, f) /\ ~HoldsSource(w, f)

\* The user, or a program of the user's, writes a file of another content.
Edit(n) ==
    /\ made < MaxFile /\ Free(disk[n])
    /\ made' = made + 1
    /\ disk' = [disk EXCEPT ![n] = [id |-> made', data |-> made']]
    /\ UNCHANGED <<windows, writer>>
Remove(n) ==
    /\ disk[n] # NoFile /\ Free(disk[n])
    /\ disk' = [disk EXCEPT ![n] = NoFile]
    /\ UNCHANGED <<windows, writer, made>>

FilesNext ==
    \/ \E w \in Writers :
          \/ BeginWrite(w) \/ BeginCopy(w) \/ Open(w) \/ CreateTemp(w)
          \/ FillWrite(w) \/ FillCopy(w) \/ Displace(w) \/ Install(w) \/ Retire(w)
          \/ Replace(w) \/ Raise(w) \/ Rollback(w) \/ Cleanup(w) \/ Die(w)
    \/ \E n \in {Leaf, Source} : Edit(n) \/ Remove(n)

-----------------------------------------------------------------------------
\* An operation never destroys what others rely on.  The target never holds
\* half a file.  On Windows the only file an operation removes is the one it
\* saw at the target as it began, unchanged, and only after the new one took
\* its place: whatever fails, dies or interferes, the old content or the new
\* one is on disk.  Elsewhere it removes what the replacement covers.
ReplacementIsSafe ==
    [][\A w \in Writers : writer'[w] # writer[w] =>
          /\ disk'[Leaf] # NoFile => disk'[Leaf].data # Partial
          /\ \A f \in OnDisk \ OnDisk' :
                \/ f = disk[Temp(w)]
                \/ windows /\ At(w, "retire") /\ f = writer[w].seen
                \/ ~windows /\ f = disk[Leaf] /\ disk'[Leaf] = disk[Temp(w)]]_fileVars

FilesSpec == FilesInit /\ [][FilesNext]_fileVars
=============================================================================
