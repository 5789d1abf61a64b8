----------------------------- MODULE TclChannel -----------------------------
(***************************************************************************)
(* One generation of the Tcl channel: the client half is                   *)
(* GuiTcpVivadoSession.run_tcl and stop (vivado/session.py), the server    *)
(* half is ::vivado_agent_mcp_handle, the Tcl procedure the bootstrap      *)
(* installs in the Vivado process (vivado/bootstrap.py).                   *)
(*                                                                         *)
(* Every request travels on a connection of its own and is numbered by the *)
(* client; the server accepts a request only if its number is the          *)
(* successor of the last one it accepted.  A command whose constraint      *)
(* inputs must be trusted (run_tcl finds the block marker in it) is a      *)
(* Guarded call: a preflight request, checks on the files it reported, and *)
(* then the command, all under one tenure of the request lock.             *)
(*                                                                         *)
(* Commands and bodies are abstract.  A reply is what the client can make  *)
(* of it: an authenticated result, an authenticated rejection, or anything *)
(* that fails _read_until_end or _parse_authenticated_response.            *)
(***************************************************************************)
EXTENDS Naturals, Sequences, FiniteSets

CONSTANTS Callers,      \* threads that call run_tcl
          Calls,        \* the calls they make, each made once
          Guarded,      \* the calls that run with trusted project inputs
          NoCaller,     \* nobody holds _request_lock
          NoCall,       \* a thread outside run_tcl
          NoItem,       \* the Tcl server is idle
          MaxReplays,   \* bound: requests presented a second time
          MaxStops      \* bound: calls of stop()

ASSUME ChannelAssumption ==
    /\ Guarded \subseteq Calls
    /\ NoCaller \notin Callers
    /\ NoCall \notin Calls
    /\ MaxReplays \in Nat
    /\ MaxStops \in Nat

Stages   == {"preflight", "command"}
Requests == Calls \X Stages
Kinds    == {"whole", "truncated", "replay"}
Items    == [req : Requests, kind : Kinds]
Outcomes == {"none", "open", "ok", "error", "tainted", "oserror", "timeout",
             "protocol_failure", "blocked"}

ASSUME ItemAssumption == NoItem \notin Items

VARIABLES
    \* the session object
    state,      \* GuiTcpVivadoSession.state
    tainted,    \* taint_reason has been set (nothing ever clears it)
    seq,        \* _sequence, the last number the client committed
    lock,       \* holder of _request_lock
    \* the threads inside run_tcl
    pc,         \* where each of them is
    cur,        \* the call it is making
    stage,      \* which of the requests of that call it is at
    pending,    \* the outcome _mark_tainted delays
    outcome,    \* how each call was answered
    late,       \* calls made when taint_reason was already set
    \* the network
    sentSeq,    \* the number each request was signed with, 0 if never sent
    wire,       \* requests that reached the server's listening socket
    reply,      \* the reply on the connection of each request
    replays,    \* how many requests were presented again
    \* the Vivado process
    alive,      \* process.poll() is None
    lastSeq,    \* ::vivado_agent_mcp_last_sequence
    busy,       \* the request whose command is running
    log,        \* the requests accepted so far, in order
    \* the thread inside stop()
    stopPc, stops

sessionVars == <<state, tainted, seq, lock>>
callerVars  == <<pc, cur, stage, pending, outcome, late>>
netVars     == <<sentSeq, wire, reply, replays>>
vivadoVars  == <<alive, lastSeq, busy, log>>
stopVars    == <<stopPc, stops>>
vars == <<sessionVars, callerVars, netVars, vivadoVars, stopVars>>

SessionType ==
    /\ state \in {"READY", "TAINTED", "STOP_FAILED", "STOPPED"}
    /\ seq \in Nat

CallerType ==
    /\ pc \in [Callers -> {"idle", "queued", "sending", "waiting",
                           "verifying", "tainting"}]
    /\ cur \in [Callers -> Calls \cup {NoCall}]
    /\ stage \in [Callers -> Stages]
    /\ pending \in [Callers -> Outcomes]
    /\ outcome \in [Calls -> Outcomes]
    /\ late \in SUBSET Calls

\* Whoever is inside a request holds the lock, and nobody else does.
LockType ==
    /\ lock \in Callers \cup {NoCaller}
    /\ \A c \in Callers : pc[c] = "idle" <=> cur[c] = NoCall
    /\ \A c \in Callers : pc[c] \in {"idle", "queued"} <=> lock # c

NetType ==
    /\ sentSeq \in [Requests -> Nat]
    /\ wire \in Seq(Items)
    /\ reply \in [Requests -> {"none", "ok", "error", "rejected", "unreadable"}]
    /\ replays \in 0..MaxReplays

VivadoType ==
    /\ lastSeq \in Nat
    /\ busy \in Items \cup {NoItem}
    /\ log \in Seq(Requests)

StopType == stopPc \in {"idle", "terminating", "polling"} /\ stops \in 0..MaxStops

FlagType == tainted \in BOOLEAN /\ alive \in BOOLEAN

TypeOK == /\ SessionType /\ CallerType /\ LockType /\ NetType /\ VivadoType
          /\ StopType /\ FlagType

\* run_tcl tells no state but TAINTED apart, so "READY" stands for every state
\* of a session that has not been tainted or stopped.
Init ==
    /\ state = "READY" /\ tainted = FALSE /\ seq = 0 /\ lock = NoCaller
    /\ pc = [c \in Callers |-> "idle"]
    /\ cur = [c \in Callers |-> NoCall]
    /\ stage = [c \in Callers |-> "command"]
    /\ pending = [c \in Callers |-> "none"]
    /\ outcome = [k \in Calls |-> "none"]
    /\ late = {}
    /\ sentSeq = [r \in Requests |-> 0]
    /\ wire = << >>
    /\ reply = [r \in Requests |-> "none"]
    /\ replays = 0
    /\ alive = TRUE /\ lastSeq = 0 /\ busy = NoItem /\ log = << >>
    /\ stopPc = "idle" /\ stops = 0

Req(c) == <<cur[c], stage[c]>>

(***************************************************************************)
(* The client: run_tcl                                                     *)
(***************************************************************************)

\* run_tcl looks at the state before it takes the lock.
RunTcl(c, k) ==
    /\ pc[c] = "idle" /\ outcome[k] = "none"
    /\ late' = IF tainted THEN late \cup {k} ELSE late
    /\ \/ /\ state = "TAINTED"
          /\ outcome' = [outcome EXCEPT ![k] = "tainted"]
          /\ UNCHANGED <<pc, cur, stage>>
       \/ /\ state # "TAINTED"
          /\ outcome' = [outcome EXCEPT ![k] = "open"]
          /\ pc' = [pc EXCEPT ![c] = "queued"]
          /\ cur' = [cur EXCEPT ![c] = k]
          /\ stage' = [stage EXCEPT ![c] =
                          IF k \in Guarded THEN "preflight" ELSE "command"]
    /\ UNCHANGED <<sessionVars, pending, netVars, vivadoVars, stopVars>>

Acquire(c) ==
    /\ pc[c] = "queued" /\ lock = NoCaller
    /\ lock' = c
    /\ pc' = [pc EXCEPT ![c] = "sending"]
    /\ UNCHANGED <<state, tainted, seq, cur, stage, pending, outcome, late,
                   netVars, vivadoVars, stopVars>>

\* Mutant: the lock is not released.
Return_KeepsLock(c, o) ==
    /\ outcome' = [outcome EXCEPT ![cur[c]] = o]
    /\ pc' = [pc EXCEPT ![c] = "idle"]
    /\ cur' = [cur EXCEPT ![c] = NoCall]
    /\ stage' = [stage EXCEPT ![c] = "command"]
    /\ pending' = [pending EXCEPT ![c] = "none"]
    /\ UNCHANGED <<lock, late>>

\* run_tcl returns to its caller with o.
Return(c, o) ==
    /\ outcome' = [outcome EXCEPT ![cur[c]] = o]
    /\ pc' = [pc EXCEPT ![c] = "idle"]
    /\ cur' = [cur EXCEPT ![c] = NoCall]
    /\ stage' = [stage EXCEPT ![c] = "command"]
    /\ pending' = [pending EXCEPT ![c] = "none"]
    /\ lock' = NoCaller
    /\ UNCHANGED late

\* What an exception out of _run_tcl_locked becomes: TimeoutError is an OSError,
\* and the command of a guarded call runs inside the try statement whose
\* except clause reports OSError as a blocked constraint input.
Raised(c, o) ==
    IF cur[c] \in Guarded /\ stage[c] = "command" THEN "blocked" ELSE o

\* Mutant: the number is consumed although nothing was sent.
SendFails_ConsumesNumber(c) ==
    /\ pc[c] = "sending"
    /\ \E o \in {"oserror", "timeout"} : Return(c, Raised(c, o))
    /\ seq' = seq + 1
    /\ UNCHANGED <<state, tainted, netVars, vivadoVars, stopVars>>

\* connect or sendall fails: the server sees nothing, or a line cut short.
SendFails(c) ==
    /\ pc[c] = "sending"
    /\ \E o \in {"oserror", "timeout"} : Return(c, Raised(c, o))
    /\ \/ UNCHANGED wire
       \/ /\ alive
          /\ wire' = Append(wire, [req |-> Req(c), kind |-> "truncated"])
    /\ UNCHANGED <<state, tainted, seq, sentSeq, reply, replays, vivadoVars,
                   stopVars>>

Send(c) ==
    /\ pc[c] = "sending" /\ alive
    /\ sentSeq' = [sentSeq EXCEPT ![Req(c)] = seq + 1]
    /\ wire' = Append(wire, [req |-> Req(c), kind |-> "whole"])
    /\ pc' = [pc EXCEPT ![c] = "waiting"]
    /\ UNCHANGED <<sessionVars, cur, stage, pending, outcome, late, reply,
                   replays, vivadoVars, stopVars>>

\* Mutant: preflight and command are two tenures of the lock.
ReadResult_ReleasesLock(c) ==
    /\ pc[c] = "waiting" /\ reply[Req(c)] \in {"ok", "error"}
    /\ seq' = seq + 1
    /\ IF stage[c] = "preflight" /\ reply[Req(c)] = "ok"
       THEN /\ pc' = [pc EXCEPT ![c] = "queued"]
            /\ stage' = [stage EXCEPT ![c] = "command"]
            /\ lock' = NoCaller
            /\ UNCHANGED <<cur, pending, outcome, late>>
       ELSE Return(c, reply[Req(c)])
    /\ UNCHANGED <<state, tainted, netVars, vivadoVars, stopVars>>

\* An authenticated, accepted reply commits the number.  A failed preflight is
\* the answer to the whole call.
ReadResult(c) ==
    /\ pc[c] = "waiting" /\ reply[Req(c)] \in {"ok", "error"}
    /\ seq' = seq + 1
    /\ IF stage[c] = "preflight" /\ reply[Req(c)] = "ok"
       THEN /\ pc' = [pc EXCEPT ![c] = "verifying"]
            /\ UNCHANGED <<lock, cur, stage, pending, outcome, late>>
       ELSE Return(c, reply[Req(c)])
    /\ UNCHANGED <<state, tainted, netVars, vivadoVars, stopVars>>

\* Between preflight and command: inputs the policy refuses end the call,
\* otherwise the files are held and the command goes out under the same lock.
Verify(c) ==
    /\ pc[c] = "verifying"
    /\ \/ Return(c, "blocked")
       \/ /\ pc' = [pc EXCEPT ![c] = "sending"]
          /\ stage' = [stage EXCEPT ![c] = "command"]
          /\ UNCHANGED <<lock, cur, pending, outcome, late>>
    /\ UNCHANGED <<state, tainted, seq, netVars, vivadoVars, stopVars>>

\* Mutant: a request whose fate is unknown commits its number.
MarkTainted_Commits(c, o) ==
    /\ state' = "TAINTED" /\ tainted' = TRUE
    /\ seq' = seq + 1
    /\ pc' = [pc EXCEPT ![c] = "tainting"]
    /\ pending' = [pending EXCEPT ![c] = o]
    /\ UNCHANGED <<lock, cur, stage, outcome, late, netVars, vivadoVars, stopVars>>

\* _mark_tainted sets the state and then, still under the lock, spends up to
\* ten seconds killing the process tree.
MarkTainted(c, o) ==
    /\ state' = "TAINTED" /\ tainted' = TRUE
    /\ pc' = [pc EXCEPT ![c] = "tainting"]
    /\ pending' = [pending EXCEPT ![c] = o]
    /\ UNCHANGED <<seq, lock, cur, stage, outcome, late, netVars, vivadoVars,
                   stopVars>>

\* Mutant: the socket has no timeout.
Timeout_Never(c) == FALSE

\* The deadline may pass although the reply is already on the connection.
Timeout(c) == pc[c] = "waiting" /\ MarkTainted(c, Raised(c, "timeout"))

\* Truncated, malformed, unauthenticated or rejected replies, and a connection
\* that breaks after the request was sent, which may lose a reply on its way.
BadReply(c) == pc[c] = "waiting" /\ MarkTainted(c, "protocol_failure")

\* The kernel drops what the process has not read when the process ends.
Dies == alive' = FALSE /\ wire' = << >> /\ busy' = NoItem

\* _terminate_process_tree: the process may survive it.
Terminate == \/ alive /\ Dies
             \/ UNCHANGED <<alive, wire, busy>>

FinishTaint(c) ==
    /\ pc[c] = "tainting"
    /\ Terminate
    /\ Return(c, pending[c])
    /\ UNCHANGED <<state, tainted, seq, sentSeq, reply, replays, lastSeq, log,
                   stopVars>>

(***************************************************************************)
(* The server: ::vivado_agent_mcp_handle, one connection at a time         *)
(***************************************************************************)

\* Mutant: only requests older than the last accepted one are refused.
InSequence_NotOlder(item) ==
    item.kind # "truncated" /\ sentSeq[item.req] >= lastSeq

\* Mutant: any authenticated request is accepted.
InSequence_Unchecked(item) == item.kind # "truncated"

\* The request is authentic and its number is the next one.
InSequence(item) == item.kind # "truncated" /\ sentSeq[item.req] = lastSeq + 1

\* The number is taken before the command runs.
Accept ==
    /\ alive /\ busy = NoItem /\ wire # << >>
    /\ InSequence(Head(wire))
    /\ lastSeq' = sentSeq[Head(wire).req]
    /\ log' = Append(log, Head(wire).req)
    /\ busy' = Head(wire)
    /\ wire' = Tail(wire)
    /\ UNCHANGED <<sessionVars, callerVars, sentSeq, reply, replays, alive,
                   stopVars>>

\* A replay comes on a connection the client is not reading.
ReplyTo(item, r) ==
    reply' = IF item.kind = "whole" THEN [reply EXCEPT ![item.req] = r]
                                    ELSE reply

Reject ==
    /\ alive /\ busy = NoItem /\ wire # << >>
    /\ ~InSequence(Head(wire))
    /\ ReplyTo(Head(wire), "rejected")
    /\ wire' = Tail(wire)
    /\ UNCHANGED <<sessionVars, callerVars, sentSeq, replays, vivadoVars,
                   stopVars>>

\* catch {uplevel ...} returns; the reply may be one the client cannot decode.
Complete ==
    /\ alive /\ busy # NoItem
    /\ \E r \in {"ok", "error", "unreadable"} : ReplyTo(busy, r)
    /\ busy' = NoItem
    /\ UNCHANGED <<sessionVars, callerVars, sentSeq, wire, replays, alive,
                   lastSeq, log, stopVars>>

\* The bytes of a request that was sent arrive a second time.
Replay(r) ==
    /\ alive /\ replays < MaxReplays /\ sentSeq[r] # 0
    /\ replays' = replays + 1
    /\ wire' = Append(wire, [req |-> r, kind |-> "replay"])
    /\ UNCHANGED <<sessionVars, callerVars, sentSeq, reply, vivadoVars, stopVars>>

ProcessExits ==
    /\ alive /\ Dies
    /\ UNCHANGED <<sessionVars, callerVars, sentSeq, reply, replays, lastSeq,
                   log, stopVars>>

(***************************************************************************)
(* stop(), from another thread and without the request lock                *)
(***************************************************************************)

StopBegin ==
    /\ stopPc = "idle" /\ stops < MaxStops
    /\ stops' = stops + 1
    /\ stopPc' = IF alive THEN "terminating" ELSE "polling"
    /\ UNCHANGED <<sessionVars, callerVars, netVars, vivadoVars>>

StopTerminate ==
    /\ stopPc = "terminating"
    /\ Terminate
    /\ stopPc' = "polling"
    /\ UNCHANGED <<sessionVars, callerVars, sentSeq, reply, replays, lastSeq,
                   log, stops>>

StopFinish ==
    /\ stopPc = "polling"
    /\ state' = IF alive THEN "STOP_FAILED" ELSE "STOPPED"
    /\ stopPc' = "idle"
    /\ UNCHANGED <<tainted, seq, lock, callerVars, netVars, vivadoVars, stops>>

(***************************************************************************)
(* Specification                                                           *)
(***************************************************************************)

Answered(k) == outcome[k] \notin {"none", "open"}

\* Every call of the instance has been made and answered.
AllAnswered == (\A k \in Calls : Answered(k)) /\ UNCHANGED vars

Progress(c) == \/ Acquire(c) \/ SendFails(c) \/ Send(c) \/ ReadResult(c)
               \/ Verify(c) \/ Timeout(c) \/ FinishTaint(c)

Server == Accept \/ Reject \/ Complete \/ ProcessExits

Stopper == StopBegin \/ StopTerminate \/ StopFinish

Next == \/ \E c \in Callers : \/ Progress(c) \/ BadReply(c)
                              \/ \E k \in Calls : RunTcl(c, k)
        \/ Server
        \/ \E r \in Requests : Replay(r)
        \/ Stopper
        \/ AllAnswered

Spec == Init /\ [][Next]_vars

\* A thread inside run_tcl keeps going: every socket operation has a timeout
\* and the process tree is killed with bounded waits.  Nothing is assumed of
\* the Vivado process: a Tcl command may never return.
FairSpec == Spec /\ \A c \in Callers : WF_vars(Progress(c))

(***************************************************************************)
(* Properties                                                              *)
(***************************************************************************)

Ran(k) == \E i \in DOMAIN log : log[i] = <<k, "command">>

\* No request is ever accepted twice, whatever arrives twice and whatever the
\* client sends after a request whose fate it does not know (the sequence check
\* of ::vivado_agent_mcp_handle).
AtMostOnce == \A i, j \in DOMAIN log : log[i] = log[j] => i = j

\* Whenever nobody is inside a request and the generation is not tainted, both
\* sides have counted the same requests: a failed connection consumes no number
\* and a committed number is never lost.
Lockstep == lock = NoCaller /\ ~tainted => lastSeq = seq

\* A command submitted after the generation was tainted never runs in it, even
\* where run_tcl's unlocked look at the state, or a stop that failed, lets the
\* request out: the request whose fate is unknown holds the next number.
NothingRunsAfterTaint == \A k \in late : ~Ran(k)

\* Nothing runs in Vivado between the preflight of a guarded call and its
\* command, so the inputs that were verified are those the command finds.
GuardedIsAtomic ==
    \A i \in DOMAIN log : \A k \in Guarded :
        log[i] = <<k, "command">> => i > 1 /\ log[i - 1] = <<k, "preflight">>

\* Every call is answered, although Vivado may never reply.
EveryCallAnswered == \A k \in Calls : outcome[k] = "open" ~> Answered(k)

(***************************************************************************)
(* The channel keeps the contract.  "error" on a guarded call may be the   *)
(* preflight's, and "blocked" may hide a command that was sent (see        *)
(* BlockedNeverRuns), so neither tells the caller what became of it.       *)
(***************************************************************************)
Verdict(k) ==
    CASE outcome[k] \in {"none", "open"}         -> outcome[k]
      [] outcome[k] = "ok"                       -> "done"
      [] outcome[k] = "error" /\ k \notin Guarded -> "done"
      [] outcome[k] \in {"tainted", "oserror"}   -> "refused"
      [] OTHER                                   -> "unknown"

Effect(k) == Cardinality({i \in DOMAIN log : log[i] = <<k, "command">>})

Contract == INSTANCE CallContract WITH verdict <- [k \in Calls |-> Verdict(k)],
                                       effect  <- [k \in Calls |-> Effect(k)]

ContractKept == Contract!Spec

\* What tests/test_session_tcp.py:973-976 asserts of a blocked constraint input:
\* the command was not sent to Vivado.
BlockedNeverRuns == \A k \in Calls : outcome[k] = "blocked" => ~Ran(k)

\* What the message of SessionTaintedError says of a tainted session: it takes
\* no further command, a new session has to be started.
TaintedSessionRefuses == \A c \in Callers : pc[c] = "waiting" => cur[c] \notin late
=============================================================================
