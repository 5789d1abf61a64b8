---------------------------- MODULE RuntimeFiles ----------------------------
(***************************************************************************)
(* The runtime directory that the servers of one configuration share: a    *)
(* server that starts Vivado with a bootstrap file and programs a board    *)
(* from bitstreams it stages there (session.py, evidence_store.py, the     *)
(* hardware tools), another that cleans it (clean_runtime_cache), and a    *)
(* user who edits, removes and overwrites files and switches the board.    *)
(*                                                                         *)
(* A file is what the cleaner compares: its id stands for inode, mode,     *)
(* size and mtime, so that every edit makes another one.  A cleanup plan   *)
(* is reviewed in a dry run and applied by the digest of the inventory it  *)
(* was made from; the digest is that inventory here.  Age limits, links,   *)
(* scan limits and the removal of emptied directories are left out.        *)
(***************************************************************************)
EXTENDS Naturals, Platform

CONSTANTS StagedNames,   \* names tempfile may choose in programming_staging
          None,
          MaxMade,       \* bound: files the servers make
          MaxWorld       \* bound: changes the user and other runs make

ASSUME RuntimeFilesAssumption ==
    /\ {"marker", "bootstrap", "notes"} \cap StagedNames = {}
    /\ MaxMade \in Nat \ {0}
    /\ MaxWorld \in Nat

VARIABLES
    root,      \* the files of the runtime directory
    bit,       \* the bitstream in the project
    vivado,    \* Vivado processes: the session's own, one of a dead server
    board,     \* the device that is selected in the hardware manager
    prog,      \* what the programming server is doing
    cleaner,   \* what the cleaning server is doing; blind is history: it went on
               \* although the session's Vivado process ran
    device,    \* history: what the last call has programmed
    touched,   \* history: the file being deleted was changed after its check
    drawn,     \* staged names drawn so far
    madeHere,  \* files the servers have made so far
    changes    \* changes made from outside so far

runtimeVars == <<windows, root, bit, vivado, board, prog, cleaner, device, touched, drawn,
                 madeHere, changes>>

RuntimeNames  == {"marker", "bootstrap", "notes"} \cup StagedNames
Boards == {"a", "b"}
Contents == 0..(MaxMade + MaxWorld)    \* 0: not written to its end
Objects  == [id : Contents \ {0}, data : Contents]

\* What a caller confirms: the hash of a bitstream and the fingerprint of a board.
Stopped == [at |-> "stopped", want |-> None, fp |-> None, src |-> None, name |-> None,
            file |-> None, switched |-> FALSE, edited |-> FALSE]
Resting == [at |-> "idle", reviewed |-> None, plan |-> None, unknown |-> FALSE, rest |-> {},
            now |-> None, blind |-> FALSE]

RuntimeTypeOK ==
    /\ PlatformTypeOK /\ touched \in BOOLEAN
    /\ root \in [RuntimeNames -> Objects \cup {None}] /\ bit \in Objects
    /\ vivado \subseteq {"own", "orphan"} /\ board \in Boards
    /\ prog \in [at : {"stopped", "mark", "identified", "written", "starting", "ready",
                       "manifest", "preflight", "stage", "copy", "verify", "program"},
                 want : Contents \cup {None}, fp : Boards \cup {None},
                 src : Objects \cup {None}, name : StagedNames \cup {None},
                 file : Objects \cup {None}, switched : BOOLEAN, edited : BOOLEAN]
    /\ cleaner \in [at : {"idle", "reviewed", "detect", "scan", "validate", "delete", "unlink"},
                    reviewed : [RuntimeNames -> Objects \cup {None}] \cup {None},
                    plan : [RuntimeNames -> Objects \cup {None}] \cup {None},
                    unknown : BOOLEAN, rest : SUBSET RuntimeNames, now : RuntimeNames \cup {None},
                    blind : BOOLEAN]
    /\ drawn \subseteq StagedNames
    /\ madeHere \in 1..MaxMade /\ changes \in 0..MaxWorld

\* The directory is new, or an earlier session has staged a bitstream in it.
Before(n) == [m \in RuntimeNames |-> IF m \in {"marker", n} THEN [id |-> 1, data |-> 1] ELSE None]

RuntimeInit ==
    /\ PlatformTypeOK /\ touched = FALSE
    /\ \/ root = [n \in RuntimeNames |-> None]
       \/ \E n \in StagedNames : root = Before(n)
    /\ bit = [id |-> 1, data |-> 1]
    /\ vivado = {} /\ board = "a"
    /\ prog = Stopped /\ cleaner = Resting
    /\ device = None /\ drawn = {n \in StagedNames : root[n] # None}
    /\ madeHere = 1 /\ changes = 0

-----------------------------------------------------------------------------
Prog(step) == prog.at = step
ProgGoes(step) == prog' = [prog EXCEPT !.at = step]
Back == prog' = [Stopped EXCEPT !.at = "ready"]
Connected == "own" \in vivado

\* A server makes a new object under the name n.
Make(n, data) ==
    /\ madeHere < MaxMade
    /\ madeHere' = madeHere + 1
    /\ root' = [root EXCEPT ![n] = [id |-> madeHere', data |-> data]]

-----------------------------------------------------------------------------
(* start_session, as far as it uses the directory *)

\* ensure_runtime_identity: a marker without contents is invalid for good.
EnsureIdentity ==
    /\ Prog("stopped")
    /\ \/ root["marker"] = None /\ Make("marker", 0) /\ ProgGoes("mark")
       \/ /\ root["marker"] # None /\ root["marker"].data # 0
          /\ ProgGoes("identified") /\ UNCHANGED <<root, madeHere>>
    /\ UNCHANGED <<bit, vivado, board, device>>
WriteMarker ==
    /\ Prog("mark") /\ ProgGoes("identified")
    /\ root["marker"] # None
    /\ root' = [root EXCEPT !["marker"].data = root["marker"].id]
    /\ UNCHANGED <<bit, vivado, board, device, madeHere>>
WriteBootstrap ==
    /\ Prog("identified") /\ Make("bootstrap", 1) /\ ProgGoes("written")
    /\ UNCHANGED <<bit, vivado, board, device>>
Spawn ==
    /\ Prog("written") /\ ProgGoes("starting")
    /\ vivado' = vivado \cup {"own"}
    /\ UNCHANGED <<root, bit, board, device, madeHere>>

\* Vivado has sourced the bootstrap file and answered; the file is removed.
Accept ==
    /\ Prog("starting") /\ Connected /\ root["bootstrap"] # None
    /\ root' = [root EXCEPT !["bootstrap"] = None]
    /\ Back
    /\ UNCHANGED <<bit, vivado, board, device, madeHere>>

\* Stop, or a start or a session that failed: its process is terminated.
Stop ==
    /\ \/ prog.at \in {"starting", "ready"}
       \/ ~Connected /\ ~Prog("stopped")
    /\ prog' = Stopped
    /\ vivado' = vivado \ {"own"}
    /\ device' = None
    /\ UNCHANGED <<root, bit, board, madeHere>>

\* The server dies; its Vivado process goes on, and so do the files it left.
ServerDies ==
    /\ ~Prog("stopped")
    /\ prog' = Stopped
    /\ vivado' = IF Connected THEN {"orphan"} ELSE vivado
    /\ device' = None
    /\ UNCHANGED <<root, bit, board, madeHere>>

-----------------------------------------------------------------------------
(* program_hw_device and program_from_artifact_manifest *)

\* The second takes the bitstream from a manifest that is validated first
\* (Handoff); the manifest may not change before the gate has hashed it again.
LoadManifest ==
    /\ Prog("ready") /\ Connected
    /\ ProgGoes("manifest") /\ device' = None
    /\ UNCHANGED <<root, bit, vivado, board, madeHere>>

\* The gate hashes the bitstream before anything else, whatever the manifest
\* was validated with; the intent, the confirmation and the hardware mode are
\* the caller's and the server's.
HashBitstream(fp) ==
    /\ prog.at \in {"ready", "manifest"} /\ Connected
    /\ prog' = [Stopped EXCEPT !.at = "preflight", !.want = bit.data, !.fp = fp]
    /\ device' = None
    /\ UNCHANGED <<root, bit, vivado, board, madeHere>>

Refuse ==
    /\ prog.at \in {"manifest", "preflight", "stage", "verify", "program"}
    /\ Back
    /\ UNCHANGED <<root, bit, vivado, board, device, madeHere>>

Preflight ==
    /\ Prog("preflight") /\ Connected /\ board = prog.fp
    /\ ProgGoes("stage")
    /\ UNCHANGED <<root, bit, vivado, board, device, madeHere>>

\* stage_verified_file: the source is opened and a temporary file made.
Stage(n) ==
    /\ Prog("stage") /\ n \notin drawn
    /\ Make(n, 0) /\ drawn' = drawn \cup {n}
    /\ prog' = [prog EXCEPT !.at = "copy", !.src = bit, !.name = n]
    /\ UNCHANGED <<bit, vivado, board, device>>

SameSource_Unhashed == bit = prog.src
SameSource == bit = prog.src /\ bit.data = prog.want

\* What was copied counts if the source is still the same file and its hash
\* is the confirmed one; the copy is removed otherwise.
Copy ==
    /\ Prog("copy") /\ SameSource
    /\ root[prog.name] # None /\ Make(prog.name, bit.data)
    /\ prog' = [prog EXCEPT !.at = "verify", !.file = root'[prog.name]]
    /\ UNCHANGED <<bit, vivado, board, device>>
CopyFails ==
    /\ Prog("copy")
    /\ root' = [root EXCEPT ![prog.name] = None]
    /\ Back
    /\ UNCHANGED <<bit, vivado, board, device, madeHere>>

VerifyStaged ==
    /\ Prog("verify") /\ root[prog.name] = prog.file
    /\ ProgGoes("program")
    /\ UNCHANGED <<root, bit, vivado, board, device, madeHere>>

\* Vivado reads the staged file by its name and programs the device selected
\* by then.  The staged file stays until a cleanup.
Program ==
    /\ Prog("program") /\ Connected /\ root[prog.name] # None
    /\ device' = [data |-> root[prog.name].data, board |-> board]
    /\ Back
    /\ UNCHANGED <<root, bit, vivado, board, madeHere>>

Server ==
    \/ /\ \/ EnsureIdentity \/ WriteMarker \/ WriteBootstrap \/ Spawn \/ Accept \/ Stop \/ ServerDies
          \/ LoadManifest \/ \E fp \in Boards : HashBitstream(fp)
          \/ Refuse \/ Preflight \/ Copy \/ CopyFails \/ VerifyStaged \/ Program
       /\ UNCHANGED drawn
    \/ \E n \in StagedNames : Stage(n)

-----------------------------------------------------------------------------
(* clean_runtime_cache *)

CleanerGoes(step) == cleaner' = [cleaner EXCEPT !.at = step]
Block == cleaner' = Resting
CleanerOnly == UNCHANGED <<root, bit, vivado, board, prog, device, touched, madeHere>>

MarkerReady == root["marker"] # None /\ root["marker"].data # 0

\* Unknown files go only with an intent and a confirmation of their own; the
\* marker belongs to no cleanable category.
Cleanable(n, unknown) == n \in StagedNames \cup {"bootstrap"} \/ (unknown /\ n = "notes")
Targets(files, unknown) == {n \in RuntimeNames : files[n] # None /\ Cleanable(n, unknown)}

\* A dry run; it is allowed while Vivado runs.
Review(unknown) ==
    /\ cleaner.at \in {"idle", "reviewed"} /\ MarkerReady
    /\ cleaner' = [Resting EXCEPT !.at = "reviewed", !.reviewed = root, !.unknown = unknown]
    /\ CleanerOnly

\* The caller repeats the runtime identity and the digest of the plan.
Apply ==
    /\ cleaner.at = "reviewed"
    /\ IF MarkerReady /\ root["marker"].data = cleaner.reviewed["marker"].data
       THEN CleanerGoes("detect") ELSE Block
    /\ CleanerOnly

\* Any Vivado process that is listed blocks, the server's own session too; so does a
\* listing that cannot be started or does not end in time.  The return code of ps or
\* tasklist is not looked at: one that fails with nothing on its output lists nothing.
Detect ==
    /\ cleaner.at = "detect"
    /\ \/ cleaner' = [cleaner EXCEPT !.at = "scan", !.blind = Connected]
       \/ Block
    /\ CleanerOnly

\* The plan is made once more, and its digest compared with the reviewed one.
SameInventory_Targets ==
    Targets(root, cleaner.unknown) = Targets(cleaner.reviewed, cleaner.unknown)
SameInventory == root = cleaner.reviewed
Scan ==
    /\ cleaner.at = "scan"
    /\ IF SameInventory THEN cleaner' = [cleaner EXCEPT !.at = "validate", !.plan = root]
                        ELSE Block
    /\ CleanerOnly

Planned == Targets(cleaner.plan, cleaner.unknown)
Intact(n) == root[n] = cleaner.plan[n]
Validate ==
    /\ cleaner.at = "validate"
    /\ IF \A n \in Planned : Intact(n)
       THEN cleaner' = [cleaner EXCEPT !.at = "delete", !.rest = Planned]
       ELSE Block
    /\ CleanerOnly

\* Each object is compared once more by lstat and then deleted: on Windows
\* through a handle that is compared again and pins the object (a write into
\* it between these two calls is left out), elsewhere by its name.
CheckOne(n) ==
    /\ cleaner.at = "delete" /\ n \in cleaner.rest
    /\ IF Intact(n) THEN cleaner' = [cleaner EXCEPT !.at = "unlink", !.now = n] ELSE Block
    /\ CleanerOnly

Deletes(n) == IF windows THEN Intact(n) ELSE root[n] # None
Unlink ==
    LET n == cleaner.now IN
    /\ cleaner.at = "unlink"
    /\ \/ /\ Deletes(n)
          /\ root' = [root EXCEPT ![n] = None]
          /\ cleaner' = [cleaner EXCEPT !.at = "delete", !.rest = @ \ {n}, !.now = None]
       \/ Block /\ UNCHANGED root
    /\ touched' = FALSE
    /\ UNCHANGED <<bit, vivado, board, prog, device, madeHere>>
Cleaned ==
    /\ cleaner.at = "delete" /\ cleaner.rest = {}
    /\ Block /\ CleanerOnly

Cleaning ==
    \/ \E unknown \in BOOLEAN : Review(unknown)
    \/ Apply \/ Detect \/ Scan \/ Validate \/ Unlink \/ Cleaned
    \/ \E n \in RuntimeNames : CheckOne(n)

-----------------------------------------------------------------------------
(* The user, runs that write another bitstream, and Vivado *)

Change == [id |-> MaxMade + changes + 1, data |-> MaxMade + changes + 1]
EditFile(n) ==
    /\ n \in StagedNames => root[n] # None
    /\ root' = [root EXCEPT ![n] = Change]
    /\ prog' = [prog EXCEPT !.edited = @ \/ (Prog("program") /\ n = prog.name)]
    /\ UNCHANGED <<bit, vivado, board, device, madeHere>>
RemoveFile(n) ==
    /\ root[n] # None
    /\ root' = [root EXCEPT ![n] = None]
    /\ UNCHANGED <<bit, vivado, board, prog, device, madeHere>>
OverwriteBit ==
    /\ bit' = Change
    /\ UNCHANGED <<root, vivado, board, prog, device, madeHere>>
SwitchBoard ==
    /\ board' \in Boards \ {board}
    /\ prog' = [prog EXCEPT !.switched = @ \/ prog.at \in {"stage", "copy", "verify", "program"}]
    /\ UNCHANGED <<root, bit, vivado, device, madeHere>>
VivadoExits ==
    /\ vivado # {} /\ vivado' = {}
    /\ UNCHANGED <<root, bit, board, prog, device, madeHere>>

World ==
    /\ \/ /\ changes < MaxWorld /\ changes' = changes + 1
          /\ \/ \E n \in {"notes", "marker"} \cup StagedNames : EditFile(n) \/ RemoveFile(n)
             \/ OverwriteBit \/ SwitchBoard
       \/ VivadoExits /\ UNCHANGED changes
    /\ UNCHANGED drawn

RuntimeNext ==
    /\ UNCHANGED windows
    /\ \/ Cleaning /\ UNCHANGED <<drawn, changes>>
       \/ /\ (Server /\ UNCHANGED changes) \/ World
          /\ UNCHANGED cleaner
          /\ touched' = (touched \/ (cleaner.at = "unlink" /\ root'[cleaner.now] # root[cleaner.now]))

-----------------------------------------------------------------------------
\* A cleanup deletes what was reviewed and nothing else: no object that came or
\* changed since the dry run, no matter who works in the directory meanwhile.
\* Only elsewhere than on Windows may it hit a file that took the name between
\* the check of that very file and its deletion.  And it never takes a staged
\* bitstream away from a session that is about to program it, unless the listing of
\* the processes failed and showed none.
Awaited(n) == Connected /\ prog.at \in {"copy", "verify", "program"} /\ n = prog.name
OnlyReviewedDeleted ==
    [][cleaner' # cleaner => \A n \in RuntimeNames : root[n] # None /\ root'[n] = None =>
          /\ n \in Targets(cleaner.reviewed, cleaner.unknown)
          /\ root[n] = cleaner.reviewed[n] \/ (~windows /\ touched)
          /\ cleaner.blind \/ ~Awaited(n)]_runtimeVars

\* A board is programmed with the bitstream whose hash was confirmed, however
\* the project's bitstream changes, unless the staged copy is edited after its
\* last check; and it is the board that was confirmed, unless another one was
\* selected after the preflight, which no step looks at again.
ProgrammedAsConfirmed ==
    [][device' \notin {None, device} =>
          /\ device'.data = prog.want \/ prog.edited
          /\ device'.board = prog.fp \/ prog.switched]_runtimeVars

RuntimeSpec == RuntimeInit /\ [][RuntimeNext]_runtimeVars
=============================================================================
