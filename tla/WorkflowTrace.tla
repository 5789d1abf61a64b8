--------------------------- MODULE WorkflowTrace ---------------------------
(***************************************************************************)
(* The workflow trace (vivado/workflow_trace.py).  Every tool call of a    *)
(* server is recorded before it is answered: in the server's own global    *)
(* trace and, once a project directory is known, in the ledger of that     *)
(* project, which it shares with every other server that has worked, works *)
(* or will work there.  Both are files of hash-chained lines, written by   *)
(* the same _append_jsonl under a lock file; the record that a failure has *)
(* been resolved is made from a look at the file without that lock.  The   *)
(* lock of a global trace has one user and is left out.                    *)
(*                                                                         *)
(* A line's number and previous hash both name the line its writer saw     *)
(* last; lines are never rewritten, so a position stands for both.  The    *)
(* file system is that of Windows, where a file that is open cannot be     *)
(* removed.  A server process that starts anew has a new trace id and is   *)
(* another member of Servers.                                              *)
(***************************************************************************)
EXTENDS Naturals, Sequences, FiniteSets

CONSTANTS Servers,    \* server processes, by trace_id
          Projects,   \* project directories
          Ops,        \* operation identities, but for the directory
          Deeds,      \* what a call may turn out to be: an operation, a result, and
                      \* whether its summary breaks a line (U+0085, U+2028, ...)
          NoProject,  \* project_dir is None
          NoServer,   \* the lock file does not exist
          MaxCalls,   \* bound: tool calls, of all servers together
          MaxFaults   \* bound: failed file operations and crashes

\* A result that is ok but not READY, or of a dry run, resolves nothing, like the
\* success of another operation, which stands for it.
Results == {"failed", "ready"}

ASSUME TraceAssumption ==
    /\ NoProject \notin Projects
    /\ NoServer \notin Servers
    /\ Deeds \subseteq Ops \X Results \X BOOLEAN
    /\ MaxCalls \in Nat /\ MaxFaults \in Nat

Dirs    == Projects \cup {NoProject}
Ids     == Servers \X (1..MaxCalls)         \* failure_id
NoId    == <<NoServer, 0>>
Entries == [id : Ids, op : Ops, res : Results, breaks : BOOLEAN, dir : Dirs,
            resolves : Ids \cup {NoId}]

\* A line may be cut short, lack only its newline, be glued to another one, or be
\* split at a character that json.dumps leaves alone and str.splitlines does not.
Shapes  == {"whole", "partial", "bare", "junk", "split"}

Lines   == [kind  : {"entry", "boundary"},
            shape : Shapes,
            pos   : Nat,
            from  : Servers \cup {NoServer},
            entry : Entries]

VARIABLES
    \* files
    ledger,      \* workflow_trace.jsonl of each project
    holder,      \* who created its lock file
    open,        \* the holder's descriptor is open
    old,         \* the lock file is older than 30 seconds
    global,      \* each server's own trace
    \* each server
    pc, home, sequence,
    entry,       \* what record() is writing
    todo,        \* the lines _append_jsonl is writing
    failed,      \* an exception is on its way out of _append_jsonl
    \* history
    calls,       \* how many calls were made
    faults,      \* how many things went wrong
    acked        \* entries of calls answered with their own result

files   == <<ledger, global>>
locks   == <<holder, open, old>>
servers == <<pc, home, sequence, entry, todo, failed>>
history == <<calls, faults, acked>>
vars    == <<files, locks, servers, history>>

Inside == {"held", "writing", "closing"}     \* between os.open and os.close

TypeOK ==
    /\ ledger \in [Projects -> Seq(Lines)]
    /\ holder \in [Projects -> Servers \cup {NoServer}]
    /\ open \in [Projects -> BOOLEAN] /\ old \in [Projects -> BOOLEAN]
    /\ global \in [Servers -> Seq(Lines)]
    /\ pc \in [Servers -> {"idle", "noting", "waiting", "stale",
                           "removing", "dead"} \cup Inside]
    /\ home \in [Servers -> Dirs] /\ sequence \in [Servers -> 0..MaxCalls]
    /\ entry \in [Servers -> Entries \cup {<< >>}] /\ todo \in [Servers -> Seq(Lines)]
    /\ \A s \in Servers :
         /\ pc[s] \notin {"idle", "dead"} => entry[s] \in Entries
         /\ pc[s] \in Inside \cup {"waiting", "stale", "removing"}
              => home[s] \in Projects
    /\ failed \in [Servers -> BOOLEAN]
    /\ calls \in 0..MaxCalls /\ faults \in 0..MaxFaults /\ acked \subseteq Entries

Init ==
    /\ ledger = [p \in Projects |-> << >>]
    /\ holder = [p \in Projects |-> NoServer]
    /\ open = [p \in Projects |-> FALSE] /\ old = [p \in Projects |-> FALSE]
    /\ global = [s \in Servers |-> << >>]
    /\ pc = [s \in Servers |-> "idle"]
    /\ home = [s \in Servers |-> NoProject]
    /\ sequence = [s \in Servers |-> 0]
    /\ entry = [s \in Servers |-> << >>]
    /\ todo = [s \in Servers |-> << >>]
    /\ failed = [s \in Servers |-> FALSE]
    /\ calls = 0 /\ faults = 0 /\ acked = {}

(***************************************************************************)
(* Reading a trace                                                         *)
(***************************************************************************)

Author(line) == line.entry.id[1]

\* Only a boundary that names both sides lets the trace_id change.
Follows(led, i) ==
    IF led[i].kind = "boundary"
    THEN /\ i > 1 /\ led[i].from = Author(led[i - 1])
         /\ led[i].from # Author(led[i])
    ELSE i > 1 => Author(led[i]) = Author(led[i - 1])

\* _read_trace_entries finds no issue up to line k.  A last line that lacks only
\* its newline ("bare") parses.
Verifies(led, k) ==
    \A i \in 1..k : /\ led[i].shape = "whole" \/ (led[i].shape = "bare" /\ i = Len(led))
                    /\ led[i].pos = i
                    /\ Follows(led, i)

Readable(led) == Verifies(led, Len(led))

\* The entries of a ledger, by the number of their line; what does not parse is
\* skipped.
ToolEntries(led) ==
    [i \in {k \in DOMAIN led : led[k].kind = "entry" /\ led[k].shape \in {"whole", "bare"}}
        |-> led[i].entry]

\* Mutant: a success of the same project resolves it, whatever the operation.
CanResolve_AnyOperation(f, e) == e.res = "ready" /\ f.dir = e.dir

CanResolve(f, e) == e.res = "ready" /\ f.op = e.op /\ f.dir = e.dir

Unresolved(es) ==
    {i \in DOMAIN es : /\ es[i].res = "failed"
                       /\ ~\E j \in DOMAIN es :
                             /\ j > i /\ es[j].resolves = es[i].id
                             /\ CanResolve(es[i], es[j])}

\* _last_unresolved_failure, 0 if there is none.
LastUnresolved(es) ==
    IF Unresolved(es) = {} THEN 0
    ELSE CHOOSE i \in Unresolved(es) : \A j \in Unresolved(es) : j <= i

(***************************************************************************)
(* Writing a trace                                                         *)
(***************************************************************************)

\* The lines for the entry e after led: a boundary too if another wrote last.
NewLines(e, led) ==
    LET k == Len(led)
        crossing == k > 0 /\ Author(led[k]) # e.id[1]
        Line(kind, pos, from) ==
            [kind |-> kind, pos |-> pos, from |-> from, entry |-> e,
             shape |-> IF kind = "entry" /\ e.breaks THEN "split" ELSE "whole"]
    IN  IF crossing
        THEN <<Line("boundary", k + 1, Author(led[k])), Line("entry", k + 2, NoServer)>>
        ELSE <<Line("entry", k + 1, NoServer)>>

\* A line appended to one that lacks its newline is one line with it.
Glue(led, new) ==
    [led EXCEPT ![Len(led)].shape = "junk"] \o
    [new EXCEPT ![1].shape = IF @ = "partial" THEN @ ELSE "junk"]

Extend(led, new) ==
    IF led # << >> /\ new # << >> /\ led[Len(led)].shape = "bare"
    THEN Glue(led, new)
    ELSE led \o new

\* What may be on the disk when writing the lines is not finished: some of them,
\* and the next one cut anywhere.
CutAt(new, k, cut) ==
    Append(SubSeq(new, 1, k - 1),
           [new[k] EXCEPT !.shape = IF @ = "split" THEN "partial" ELSE cut])
Cuts(new) ==
    {SubSeq(new, 1, k) : k \in 0..Len(new)} \cup
    {CutAt(new, k, cut) : k \in 1..Len(new), cut \in {"partial", "bare"}}

Fault == faults < MaxFaults /\ faults' = faults + 1

Writers(p) == {s \in Servers : pc[s] \in Inside /\ home[s] = p}

\* What a reader without the lock may find.
Views(p) ==
    {ledger[p]} \cup
    UNION {{Extend(ledger[p], c) : c \in Cuts(todo[w])} :
             w \in {s \in Writers(p) : pc[s] = "writing"}}

(***************************************************************************)
(* record(), until the project ledger                                      *)
(***************************************************************************)

NewEntry(s, deed) ==
    [id |-> <<s, sequence[s] + 1>>, op |-> deed[1], res |-> deed[2], breaks |-> deed[3],
     dir |-> home'[s], resolves |-> NoId]

\* A tool has returned; its result may tell the project directory.  Creating the
\* diagnostics directory can fail, after project_dir has been set.
Record(s, deed, dir) ==
    /\ pc[s] = "idle" /\ calls < MaxCalls
    /\ calls' = calls + 1
    /\ home' = [home EXCEPT ![s] = IF dir = NoProject THEN @ ELSE dir]
    /\ \/ /\ pc' = [pc EXCEPT ![s] = "noting"]
          /\ sequence' = [sequence EXCEPT ![s] = @ + 1]
          /\ entry' = [entry EXCEPT ![s] = NewEntry(s, deed)]
          /\ UNCHANGED faults
       \/ /\ dir # home[s] /\ dir # NoProject
          /\ Fault
          /\ UNCHANGED <<pc, sequence, entry>>
    /\ UNCHANGED <<files, locks, todo, failed, acked>>

\* The entries in which record() looks for a failure to resolve: none unless the
\* trace verifies.
Known(s) ==
    {IF Readable(v) THEN ToolEntries(v) ELSE << >> :
        v \in IF home[s] = NoProject THEN {global[s]} ELSE Views(home[s])}

Linked(e, es) ==
    LET u == LastUnresolved(es)
    IN  IF u # 0 /\ CanResolve(es[u], e) THEN [e EXCEPT !.resolves = es[u].id]
                                         ELSE e

Answer(s, e, traced) ==
    /\ pc' = [pc EXCEPT ![s] = "idle"]
    /\ entry' = [entry EXCEPT ![s] = << >>]
    /\ acked' = IF traced THEN acked \cup {e} ELSE acked

Proceed(s, e) ==
    IF home[s] = NoProject THEN Answer(s, e, TRUE)
    ELSE /\ pc' = [pc EXCEPT ![s] = "waiting"]
         /\ entry' = [entry EXCEPT ![s] = e]
         /\ UNCHANGED acked

\* Mutant: a failure to write the global trace does not end record().
Note_GoesOn(s) ==
    /\ pc[s] = "noting"
    /\ \E es \in Known(s) : LET e == Linked(entry[s], es)  new == NewLines(e, global[s]) IN
         /\ \/ Readable(global[s]) /\ global' = [global EXCEPT ![s] = Extend(@, new)]
            \/ UNCHANGED global
         /\ Proceed(s, e)
    /\ UNCHANGED <<ledger, locks, home, sequence, todo, failed, calls, faults>>

\* Mutant: the project ledger is written even if no project is known.
Note_NoProject(s) ==
    /\ pc[s] = "noting"
    /\ \E es \in Known(s) : LET e == Linked(entry[s], es) IN
         /\ global' = [global EXCEPT ![s] = Extend(@, NewLines(e, @))]
         /\ pc' = [pc EXCEPT ![s] = "waiting"]
         /\ entry' = [entry EXCEPT ![s] = e]
    /\ UNCHANGED <<ledger, locks, home, sequence, todo, failed, history>>

\* The failure to resolve is looked up, then the entry goes to the global trace.
\* The append is refused if that trace does not verify, and may fail at any point.
Note(s) ==
    /\ pc[s] = "noting"
    /\ \E es \in Known(s) : LET e == Linked(entry[s], es)  new == NewLines(e, global[s]) IN
         \/ /\ Readable(global[s])
            /\ global' = [global EXCEPT ![s] = Extend(@, new)]
            /\ Proceed(s, e)
            /\ UNCHANGED faults
         \/ /\ IF Readable(global[s])
               THEN Fault /\ \E cut \in Cuts(new) :
                                global' = [global EXCEPT ![s] = Extend(@, cut)]
               ELSE UNCHANGED <<global, faults>>
            /\ Answer(s, e, FALSE)
    /\ UNCHANGED <<ledger, locks, home, sequence, todo, failed, calls>>

\* A line cut within a character does not decode: the look raises.
NoteRaises(s) ==
    /\ pc[s] = "noting" /\ home[s] \in Projects
    /\ \E v \in Views(home[s]) : \E i \in DOMAIN v : v[i].shape = "partial"
    /\ Answer(s, entry[s], FALSE)
    /\ UNCHANGED <<files, locks, home, sequence, todo, failed, calls, faults>>

(***************************************************************************)
(* _trace_file_lock                                                        *)
(***************************************************************************)

\* Mutant: O_EXCL is missing.
Create_NotExclusive(s) ==
    /\ pc[s] = "waiting"
    /\ holder' = [holder EXCEPT ![home[s]] = s]
    /\ open' = [open EXCEPT ![home[s]] = TRUE]
    /\ old' = [old EXCEPT ![home[s]] = FALSE]
    /\ pc' = [pc EXCEPT ![s] = "held"]
    /\ UNCHANGED <<files, home, sequence, entry, todo, failed, history>>

Create(s) ==
    /\ pc[s] = "waiting" /\ holder[home[s]] = NoServer
    /\ holder' = [holder EXCEPT ![home[s]] = s]
    /\ open' = [open EXCEPT ![home[s]] = TRUE]
    /\ old' = [old EXCEPT ![home[s]] = FALSE]
    /\ pc' = [pc EXCEPT ![s] = "held"]
    /\ UNCHANGED <<files, home, sequence, entry, todo, failed, history>>

\* Thirty seconds pass: the holder died, stalls, or the machine slept.
LockAges(p) ==
    /\ holder[p] # NoServer /\ ~old[p]
    /\ old' = [old EXCEPT ![p] = TRUE]
    /\ UNCHANGED <<files, holder, open, servers, history>>

\* The age is looked at before the file is removed.
SeeStale(s) ==
    /\ pc[s] = "waiting" /\ holder[home[s]] # NoServer /\ old[home[s]]
    /\ pc' = [pc EXCEPT ![s] = "stale"]
    /\ UNCHANGED <<files, locks, home, sequence, entry, todo, failed, history>>

\* unlink: the lock file of the moment, unless it is open.
Unlink(p) ==
    /\ holder' = IF open[p] THEN holder ELSE [holder EXCEPT ![p] = NoServer]
    /\ old' = IF open[p] THEN old ELSE [old EXCEPT ![p] = FALSE]

TakeOver(s) ==
    /\ pc[s] = "stale"
    /\ Unlink(home[s])
    /\ pc' = [pc EXCEPT ![s] = "waiting"]
    /\ UNCHANGED <<files, open, home, sequence, entry, todo, failed, history>>

\* Mutant: the wait for the lock has no deadline.
LockTimeout_Never(s) == FALSE

\* Five seconds have passed and the file is still there.
LockTimeout(s) ==
    /\ pc[s] = "waiting" /\ holder[home[s]] # NoServer
    /\ Answer(s, entry[s], FALSE)
    /\ UNCHANGED <<files, locks, home, sequence, todo, failed, calls, faults>>

(***************************************************************************)
(* _append_jsonl, under the lock                                           *)
(***************************************************************************)

\* Mutant: the integrity of the ledger is not looked at.
Check_Trusting(s) ==
    /\ pc[s] = "held"
    /\ todo' = [todo EXCEPT ![s] = NewLines(entry[s], ledger[home[s]])]
    /\ pc' = [pc EXCEPT ![s] = "writing"]
    /\ UNCHANGED <<files, locks, home, sequence, entry, failed, history>>

\* A ledger that does not verify is not written to.
Check(s) ==
    /\ pc[s] = "held"
    /\ \/ /\ Readable(ledger[home[s]])
          /\ todo' = [todo EXCEPT ![s] = NewLines(entry[s], ledger[home[s]])]
          /\ pc' = [pc EXCEPT ![s] = "writing"]
          /\ UNCHANGED <<failed, faults>>
       \/ /\ IF Readable(ledger[home[s]]) THEN Fault ELSE UNCHANGED faults
          /\ pc' = [pc EXCEPT ![s] = "closing"]
          /\ failed' = [failed EXCEPT ![s] = TRUE]
          /\ UNCHANGED todo
    /\ UNCHANGED <<files, locks, home, sequence, entry, calls, acked>>

\* write, flush, fsync; each of them can fail.
Write(s) ==
    /\ pc[s] = "writing"
    /\ \/ ledger' = [ledger EXCEPT ![home[s]] = Extend(@, todo[s])]
          /\ UNCHANGED <<failed, faults>>
       \/ \E cut \in Cuts(todo[s]) :
            /\ ledger' = [ledger EXCEPT ![home[s]] = Extend(@, cut)]
            /\ failed' = [failed EXCEPT ![s] = TRUE]
            /\ Fault
    /\ pc' = [pc EXCEPT ![s] = "closing"]
    /\ todo' = [todo EXCEPT ![s] = << >>]
    /\ UNCHANGED <<global, locks, home, sequence, entry, calls, acked>>

Close(s) ==
    /\ pc[s] = "closing"
    /\ open' = [open EXCEPT ![home[s]] = FALSE]
    /\ pc' = [pc EXCEPT ![s] = "removing"]
    /\ UNCHANGED <<files, holder, old, home, sequence, entry, todo, failed, history>>

\* The file may be another's by now; if that one is open, unlink raises.
Remove(s) ==
    /\ pc[s] = "removing"
    /\ Unlink(home[s])
    /\ Answer(s, entry[s], ~failed[s] /\ ~open[home[s]])
    /\ failed' = [failed EXCEPT ![s] = FALSE]
    /\ UNCHANGED <<files, open, home, sequence, todo, calls, faults>>

\* The server dies: what it was writing is cut short, what it had open is closed,
\* and its lock file stays.  One that dies elsewhere leaves nothing behind and is
\* like one that makes no further call.
Crash(s) ==
    /\ pc[s] \in Inside \cup {"removing"}
    /\ Fault
    /\ pc' = [pc EXCEPT ![s] = "dead"]
    /\ IF pc[s] = "writing"
       THEN \E cut \in Cuts(todo[s]) :
              ledger' = [ledger EXCEPT ![home[s]] = Extend(@, cut)]
       ELSE UNCHANGED ledger
    /\ open' = IF pc[s] \in Inside THEN [open EXCEPT ![home[s]] = FALSE] ELSE open
    /\ entry' = [entry EXCEPT ![s] = << >>]
    /\ todo' = [todo EXCEPT ![s] = << >>]
    /\ UNCHANGED <<global, holder, old, home, sequence, failed, calls, acked>>

(***************************************************************************)
(* Specification                                                           *)
(***************************************************************************)

Step(s) == \/ Note(s) \/ NoteRaises(s) \/ Create(s) \/ SeeStale(s)
           \/ TakeOver(s) \/ LockTimeout(s) \/ Check(s) \/ Write(s) \/ Close(s) \/ Remove(s)

\* Every call has been made, or nobody is left to make one.
Finished ==
    /\ \A s \in Servers : pc[s] \in {"idle", "dead"}
    /\ calls = MaxCalls \/ \A s \in Servers : pc[s] = "dead"
    /\ UNCHANGED vars

Next == \/ \E s \in Servers :
             \/ Step(s) \/ Crash(s)
             \/ \E deed \in Deeds, d \in Dirs : Record(s, deed, d)
        \/ \E p \in Projects : LockAges(p)
        \/ Finished

Spec == Init /\ [][Next]_vars

\* A server inside record() keeps going as long as it lives: nothing in it waits
\* but the lock, and that wait has a deadline.
FairSpec == Spec /\ \A s \in Servers : WF_vars(Step(s))

(***************************************************************************)
(* Properties                                                              *)
(***************************************************************************)

\* At most one server is between the lock's creation and its close, although
\* locks are taken over and every server removes whatever lock file it finds
\* (_trace_file_lock).
OneWriter == \A p \in Projects : Cardinality(Writers(p)) <= 1

RecordedIn(led, e) ==
    \E k \in DOMAIN led : /\ led[k].kind = "entry" /\ led[k].entry = e
                          /\ led[k].shape = "whole" /\ Verifies(led, k)

\* A line glued to another, or split: the trace takes no further line.
Damaged(led) == \E k \in DOMAIN led : led[k].shape \in {"junk", "split"}

\* The trace has e for good: the chain verifies up to it.  The one exception is the
\* last entry of a trace that is damaged by it.
Keeps(led, e) == \/ RecordedIn(led, e)
                 \/ Damaged(led) /\ led[Len(led)].entry = e

\* A call answered with its own result, not with WORKFLOW_TRACE_WRITE_FAILED, is
\* in the global trace of its server and in the ledger of its project, and the
\* chain up to it verifies for good, whatever crashes, full disks and other
\* servers do.  The exceptions the code leaves: an entry appended to a line that
\* lacks only its newline, and one with a character that ends a line for
\* str.splitlines, are lost, and the trace is never written again.
AcknowledgedIsRecorded ==
    \A e \in acked : /\ Keeps(global[e.id[1]], e)
                     /\ e.dir # NoProject => Keeps(ledger[e.dir], e)

\* f is a failure of the operation that has succeeded with e, in the same place.
Overcomes(e, f) ==
    f.id = e.resolves /\ f.res = "failed" /\ e.res = "ready" /\ f.op = e.op /\ f.dir = e.dir

\* A failure in a ledger is reported unresolved (get_workflow_trace_status) until
\* the same operation has succeeded after it, and what an entry says it resolves is
\* such a failure, which its server has put into its own trace before: although
\* resolutions are decided from a look at lines that others are writing, and that
\* may be lost again.
NoFailureForgotten ==
    \A p \in Projects : LET es == ToolEntries(ledger[p]) IN
        \A i \in DOMAIN es :
            /\ /\ es[i].res = "failed"
               /\ \A j \in DOMAIN es : j > i /\ es[j].res = "ready" => es[j].op # es[i].op
               => LastUnresolved(es) # 0
            /\ es[i].resolves # NoId =>
                   LET trace == global[es[i].resolves[1]]
                   IN  \E k \in DOMAIN trace : /\ Overcomes(es[i], trace[k].entry)
                                               /\ Keeps(trace, trace[k].entry)

\* What is in a ledger is in its author's global trace, which wrote it before, in
\* the order of the author's calls: the mirror is never ahead.  Only the entry that
\* damaged the global trace can be read in the ledger alone.
MirrorFollowsGlobal ==
    \A p \in Projects : \A i \in DOMAIN ledger[p] :
        LET e == ledger[p][i].entry  s == e.id[1]
        IN  /\ Keeps(global[s], e)
            /\ \A j \in 1..i : Author(ledger[p][j]) = s
                               => ledger[p][j].entry.id[2] <= e.id[2]

\* Every call is answered unless its server dies: a lock left behind by a dead
\* server delays it, no more.
EveryCallAnswered ==
    \A s \in Servers : pc[s] = "noting" ~> pc[s] \in {"idle", "dead"}
=============================================================================
