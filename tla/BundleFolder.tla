---------------------------- MODULE BundleFolder ----------------------------
(***************************************************************************)
(* A directory with a diagnostic bundle (audit.py, agent_catalog.py).      *)
(* Servers collect bundles into it (the name is a time in seconds, or      *)
(* given by the caller, so that two collections may meet there) and        *)
(* validate what they find, file by file, while others write, die, run     *)
(* reports again or edit.                                                  *)
(*                                                                         *)
(* A bundle has plain files with the audit, a nested report or artifact    *)
(* manifest that refers to files in the project, the workflow trace, and,  *)
(* written last, the manifest with a hash of each.  A plain file is its    *)
(* collection's number, a nested manifest the version of the reports it is *)
(* about, a trace the number of writes that made it: contents the hashes   *)
(* tell apart.                                                             *)
(***************************************************************************)
EXTENDS TrustStore

CONSTANTS MaxCollections,  \* bound: bundles collected
          MaxTrail,        \* bound: writes of the workflow trace
          MaxTampering     \* bound: edits and new reports

ASSUME BundleFolderAssumption ==
    /\ MaxCollections \in Nat /\ MaxTampering \in Nat
    /\ MaxTrail \in Nat \ {0}

VARIABLES
    folder,       \* the files of the directory; ragged: a line of the trace is torn
    project,      \* the version of the reports in the project
    inPlace,      \* the directory is the one the trace itself is in
    clerk,        \* what each server is doing
    health,       \* the answer of a validation that has just ended
    tampering,    \* edits and new reports so far
    collections   \* collections so far

folderVars == <<folder, project, inPlace, clerk, health, tampering, collections>>

\* 0: no such file, or a trace that was written anew.
Plain   == 0..(MaxCollections + 1)
Foreign == MaxCollections + 1
Reports == 0..(MaxTampering + 1)

\* What the validation tells apart of the audit in the manifest.  It is chosen where it
\* matters first, in ConcludeHealth.  When the audit times out, a partial bundle is
\* written whose audit blocks, with a report manifest nobody has validated.
PartialAudit == "block"
Audits       == {"fresh", "stale", PartialAudit}

\* c and raced are history: the collection, and whether another one or the
\* user came between the writing of the plain files and their listing.
Listings == [c : 0..MaxCollections, plain : Plain, nested : Reports, source : Reports,
             size : 0..MaxTrail, trace : 0..MaxTrail, edited : BOOLEAN, raced : BOOLEAN]
Torn == [c |-> 0, plain |-> 0, nested |-> 0, source |-> 0, size |-> 0, trace |-> 0,
         edited |-> FALSE, raced |-> FALSE]
Nothing == [plain |-> 0, nested |-> 0, ref |-> 0, trace |-> 0, steady |-> FALSE,
            intact |-> FALSE]
Away == [at |-> "idle", own |-> Torn, found |-> Nothing]

\* The steps of a validation.
Validation == {"readPlain", "readNested", "openTrace", "readTrace", "checkTrace",
               "readRef"}

BundleTypeOK ==
    /\ folder \in [plain : Plain, nested : Reports, trace : 0..MaxTrail, ragged : BOOLEAN,
                   manifest : Listings \cup {Absent}]
    /\ project \in Reports \ {0} /\ inPlace \in BOOLEAN
    /\ clerk \in [Servers ->
          [at : {"idle", "plain", "listPlain", "nested", "listNested", "trace", "sizeTrace",
                 "hashTrace", "open", "fill"} \cup Validation,
           own : Listings,
           found : [plain : Plain, nested : Reports, ref : Reports, trace : 0..MaxTrail,
                    steady : BOOLEAN, intact : BOOLEAN]]]
    /\ tampering \in 0..MaxTampering /\ collections \in 0..MaxCollections

BundleInit ==
    /\ inPlace \in BOOLEAN
    /\ project = 1
    /\ folder = [plain |-> 0, nested |-> 0, trace |-> IF inPlace THEN 1 ELSE 0,
                 ragged |-> FALSE, manifest |-> Absent]
    /\ clerk = [s \in Servers |-> Away]
    /\ health = Absent
    /\ tampering = 0 /\ collections = 0

Busy(s, step) == clerk[s].at = step
OwnListing(s) == clerk[s].own
Moves(s, step) == clerk' = [clerk EXCEPT ![s].at = step]
WorldRests == UNCHANGED <<project, inPlace, tampering>>

-----------------------------------------------------------------------------
(* collect_diagnostic_bundle_files *)

\* The audit and the nested manifest were validated in memory before.
Collect(s) ==
    /\ Busy(s, "idle") /\ collections < MaxCollections
    /\ collections' = collections + 1
    /\ clerk' = [clerk EXCEPT ![s] = [Away EXCEPT !.at = "plain", !.own =
          [Torn EXCEPT !.c = collections', !.source = project]]]
    /\ UNCHANGED folder

Puts(s, field, content, step) ==
    /\ folder' = [folder EXCEPT ![field] = content]
    /\ Moves(s, step)
    /\ UNCHANGED collections

\* _file_entry hashes what is there by now.
Lists(s, listing, step) ==
    /\ clerk' = [clerk EXCEPT ![s].own = listing, ![s].at = step]
    /\ UNCHANGED <<folder, collections>>

WritePlain(s) == Busy(s, "plain") /\ Puts(s, "plain", OwnListing(s).c, "listPlain")
ListPlain(s) ==
    /\ Busy(s, "listPlain")
    /\ Lists(s, [OwnListing(s) EXCEPT !.plain = folder.plain,
                                    !.raced = folder.plain # OwnListing(s).c], "nested")
WriteNested(s) == Busy(s, "nested") /\ Puts(s, "nested", OwnListing(s).source, "listNested")
ListNested(s) ==
    Busy(s, "listNested") /\ Lists(s, [OwnListing(s) EXCEPT !.nested = folder.nested], "trace")
\* The trace that is copied is no shorter than one copied before; a line after the first
\* may be torn, by a server that died or in the midst of writing it.
CopyTrace(s, length, ragged) ==
    /\ Busy(s, "trace")
    /\ IF inPlace THEN length = folder.trace ELSE length > 0 /\ length >= folder.trace
    /\ IF length = folder.trace THEN ragged = folder.ragged ELSE ragged => length > 1
    /\ folder' = [folder EXCEPT !.trace = length, !.ragged = ragged]
    /\ Moves(s, "sizeTrace")
    /\ UNCHANGED collections
\* Its size is taken first and then its hash.
SizeTrace(s) ==
    Busy(s, "sizeTrace") /\ Lists(s, [OwnListing(s) EXCEPT !.size = folder.trace], "hashTrace")
HashTrace(s) ==
    Busy(s, "hashTrace") /\ Lists(s, [OwnListing(s) EXCEPT !.trace = folder.trace], "open")

\* The manifest itself is written in place.
OpenManifest(s) == Busy(s, "open") /\ Puts(s, "manifest", Torn, "fill")
FillManifest(s) ==
    /\ Busy(s, "fill")
    /\ folder' = [folder EXCEPT !.manifest = OwnListing(s)]
    /\ clerk' = [clerk EXCEPT ![s] = Away]
    /\ UNCHANGED collections

-----------------------------------------------------------------------------
(* validate_diagnostic_bundle *)

Validating(s) == clerk[s].at \in Validation

\* No manifest, or one that cannot be read, ends in an error.  A validation
\* writes nothing: one at a time shows what any number of them can answer.
ValidateBundle(s) ==
    /\ Busy(s, "idle") /\ folder.manifest \notin {Absent, Torn}
    /\ \A t \in Servers : ~Validating(t)
    /\ clerk' = [clerk EXCEPT ![s] = [Away EXCEPT !.at = "readPlain", !.own = folder.manifest]]
    /\ UNCHANGED <<folder, collections>>

Reads(s, field, content, step) ==
    /\ clerk' = [clerk EXCEPT ![s].found[field] = content, ![s].at = step]
    /\ UNCHANGED <<folder, collections>>
ReadPlain(s)  == Busy(s, "readPlain")  /\ Reads(s, "plain", folder.plain, "readNested")
ReadNested(s) == Busy(s, "readNested") /\ Reads(s, "nested", folder.nested, "openTrace")

\* A file that changes between its opening and the end of its reading is an invalid
\* entry (read_stable_file); the lines of the trace are checked by a second reading.
OpenTrace(s)  == Busy(s, "openTrace") /\ Reads(s, "trace", folder.trace, "readTrace")
ReadTrace(s)  ==
    Busy(s, "readTrace") /\ Reads(s, "steady", folder.trace = clerk[s].found.trace, "checkTrace")
CheckTrace(s) ==
    /\ Busy(s, "checkTrace")
    /\ Reads(s, "intact", folder.trace # 0 /\ ~folder.ragged, "readRef")

\* What does not change between the reading of a manifest and of its files:
\* plain files and nested manifest are as listed, the nested manifest is the
\* one that was validated and its files are those it is about, and the trace
\* could be read and is the listed one or has grown.
PlainHolds(m, f)  == f.plain = m.plain
NestedHolds(m, f) == f.nested = m.nested /\ f.nested = m.source /\ f.ref = f.nested
TraceHolds(m, f)  == f.steady /\ m.size = m.trace /\ f.trace >= m.trace
Holds(m, f) == PlainHolds(m, f) /\ NestedHolds(m, f) /\ TraceHolds(m, f)

\* What TrustStore answers of the manifest that was read (AttestationIsTrue).  It is
\* asked first and depends on nothing else: it is chosen where it matters first.
Attested(m) == IF m.edited THEN {"WARN", "BLOCK"} ELSE {"READY", "WARN"}

\* A stale audit is a warning before trace and authenticity are looked at.  No
\* bundle is READY: none is portable.
Status(m, f, audit, auth) ==
    IF ~Holds(m, f) \/ audit = "block" THEN "BLOCK"
    ELSE IF audit # "stale" /\ (~f.intact \/ auth = "BLOCK") THEN "BLOCK"
    ELSE "WARN"
Reviewable(m, f, audit, auth) == Status(m, f, audit, auth) = "WARN" /\ audit # "stale"

\* The files the nested manifest refers to are read last.
ReadRef(s) == [clerk[s].found EXCEPT !.ref = project]
ConcludeHealth(s, audit, auth) ==
    LET m == OwnListing(s) f == ReadRef(s) IN
    /\ Busy(s, "readRef") /\ auth \in Attested(m)
    /\ health' = [status |-> Status(m, f, audit, auth), auth |-> auth, audit |-> audit,
                  reviewable |-> Reviewable(m, f, audit, auth), read |-> m, found |-> f]
    /\ clerk' = [clerk EXCEPT ![s] = Away]
    /\ UNCHANGED <<folder, collections>>

-----------------------------------------------------------------------------
\* A step fails, or the server dies and another one takes its place.
GivesUp(s) ==
    /\ ~Busy(s, "idle")
    /\ clerk' = [clerk EXCEPT ![s] = Away]
    /\ UNCHANGED <<folder, collections>>

\* A tracer writes a line, or the first part of one and, unless it dies, the rest.
Grow ==
    /\ inPlace /\ folder.trace \in 1..(MaxTrail - 1)
    /\ \E ragged \in BOOLEAN :
           folder' = [folder EXCEPT !.trace = @ + 1, !.ragged = ragged]
    /\ UNCHANGED <<project, tampering>>

\* The user rewrites a file, or makes the manifest fit what was rewritten.
RewritePlain == folder' = [folder EXCEPT !.plain = Foreign] /\ UNCHANGED project
RewriteTrace == folder' = [folder EXCEPT !.trace = 0, !.ragged = FALSE] /\ UNCHANGED project
EditManifest ==
    /\ folder.manifest \notin {Absent, Torn}
    /\ folder' = [folder EXCEPT !.manifest =
                     [@ EXCEPT !.plain = folder.plain, !.size = folder.trace,
                               !.trace = folder.trace, !.edited = TRUE]]
    /\ UNCHANGED project
ReportAgain == project' = project + 1 /\ UNCHANGED folder

Others ==
    /\ \/ Grow
       \/ /\ tampering < MaxTampering /\ tampering' = tampering + 1
          /\ RewritePlain \/ RewriteTrace \/ EditManifest \/ ReportAgain
    /\ UNCHANGED <<inPlace, clerk, collections>>

BundleNext ==
    \/ /\ \E s \in Servers :
             \/ Collect(s)
             \/ WritePlain(s) \/ ListPlain(s) \/ WriteNested(s) \/ ListNested(s)
             \/ \E length \in 0..MaxTrail, ragged \in BOOLEAN : CopyTrace(s, length, ragged)
             \/ SizeTrace(s) \/ HashTrace(s) \/ OpenManifest(s)
             \/ FillManifest(s) \/ ValidateBundle(s)
             \/ ReadPlain(s) \/ ReadNested(s)
             \/ OpenTrace(s) \/ ReadTrace(s) \/ CheckTrace(s) \/ GivesUp(s)
       /\ WorldRests /\ health' = Absent
    \/ /\ \E s \in Servers, audit \in Audits, auth \in {"READY", "WARN", "BLOCK"} :
             ConcludeHealth(s, audit, auth)
       /\ WorldRests
    \/ Others /\ health' = Absent

-----------------------------------------------------------------------------
\* A bundle is offered for review only if what was read is what one collection
\* validated and wrote, with an audit that does not block; a manifest that was
\* made to fit other files is noticed wherever the attestation can be had.
\* The exception is a file written anew before its own collection listed it; and of
\* the trace it is the lines that were checked, by the second reading, that are whole.
\* And a bundle nobody touched is never blocked for any other reason than its
\* audit, however the trace goes on between two looks at it.  It is when the
\* trace is written at the moment it is listed or read, or has a torn line.
TraceAtRest(m, f) == m.size = m.trace /\ f.steady /\ f.intact
HealthIsTrue ==
    health # Absent =>
        LET m == health.read f == health.found IN
        /\ health.reviewable /\ (health.auth = "READY" \/ ~m.edited) =>
              /\ f.plain = m.c \/ m.raced
              /\ f.nested = m.source /\ f.ref = m.source
              /\ f.intact /\ health.audit = "fresh"
        /\ tampering = 0 /\ collections = 1 /\ health.audit # "block" /\ TraceAtRest(m, f)
              => health.status # "BLOCK"

BundleSpec == BundleInit /\ [][BundleNext]_folderVars
=============================================================================
