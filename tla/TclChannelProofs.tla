-------------------------- MODULE TclChannelProofs --------------------------
(***************************************************************************)
(* Proofs about the Tcl channel, for any number of threads, calls,         *)
(* replays and stops.                                                      *)
(***************************************************************************)
EXTENDS TclChannel, FiniteSetTheorems, SequenceTheorems, TLAPS

(***************************************************************************)
(* The inductive invariant                                                 *)
(***************************************************************************)

Inside(c) == pc[c] \notin {"idle", "queued"}

\* A thread works on an open call, no two on the same; what it is about to answer
\* is an answer, and only a preflight leads to a verification.
Ownership ==
    /\ \A c \in Callers : cur[c] # NoCall => outcome[cur[c]] = "open"
    /\ \A c, d \in Callers : cur[c] # NoCall /\ cur[c] = cur[d] => c = d
    /\ \A c \in Callers : pc[c] = "tainting" => pending[c] \notin {"none", "open"}
    /\ \A c \in Callers : pc[c] = "verifying" => stage[c] = "preflight"

\* What has not been made, or not been reached, has not been sent.
Unsent ==
    /\ \A k \in Calls : outcome[k] = "none" =>
          sentSeq[<<k, "preflight">>] = 0 /\ sentSeq[<<k, "command">>] = 0
    /\ \A c \in Callers : pc[c] \in {"queued", "sending"} => sentSeq[Req(c)] = 0
    /\ \A c \in Callers : cur[c] # NoCall /\ stage[c] = "preflight" =>
          sentSeq[<<cur[c], "command">>] = 0

\* The server accepts request number i as its i-th.
LogNumbered ==
    /\ Len(log) = lastSeq
    /\ \A i \in 1..Len(log) : sentSeq[log[i]] = i

Logged(r) == sentSeq[r] \in 1..Len(log) /\ log[sentSeq[r]] = r

\* Only an accepted request runs, and only one that ran has a result.
Heard ==
    /\ \A r \in Requests : reply[r] \in {"ok", "error", "unreadable"} => Logged(r)
    /\ busy # NoItem => Logged(busy.req)

\* The client commits what the server accepted; until something taints the
\* session the only number beyond that is the one a thread waits for.
Committed ==
    /\ seq <= lastSeq
    /\ \A c \in Callers : pc[c] = "waiting" => sentSeq[Req(c)] = seq + 1
    /\ ~tainted => \A r \in Requests :
          sentSeq[r] <= seq \/ \E c \in Callers : pc[c] = "waiting" /\ r = Req(c)

\* From its preflight to its command a guarded call is the last one committed,
\* and the command follows the preflight in number.
GuardHeld ==
    /\ \A c \in Callers :
          cur[c] \in Guarded /\ (pc[c] = "verifying" \/ stage[c] = "command") =>
              /\ pc[c] # "queued"
              /\ Logged(<<cur[c], "preflight">>)
              /\ sentSeq[<<cur[c], "preflight">>] = seq
    /\ \A k \in Guarded : sentSeq[<<k, "command">>] # 0 =>
          /\ Logged(<<k, "preflight">>)
          /\ sentSeq[<<k, "command">>] = sentSeq[<<k, "preflight">>] + 1

IInv == TypeOK /\ Ownership /\ Unsent /\ LogNumbered /\ Heard /\ Committed /\ GuardHeld

(***************************************************************************)
(* Types                                                                   *)
(***************************************************************************)

LEMMA TypeInit == Init => TypeOK
<1> SUFFICES ASSUME Init PROVE TypeOK
  OBVIOUS
<1>1. SessionType /\ StopType
  BY ChannelAssumption DEF Init, SessionType, StopType, ChannelAssumption
<1>2. CallerType
  BY DEF Init, CallerType, Outcomes, Stages
<1>3. LockType
  BY ChannelAssumption DEF Init, LockType, ChannelAssumption
<1>4. NetType
  BY ChannelAssumption DEF Init, NetType, ChannelAssumption
<1>5. VivadoType
  BY DEF Init, VivadoType
<1>6. FlagType
  BY DEF Init, FlagType
<1> QED
  BY <1>1, <1>2, <1>3, <1>4, <1>5, <1>6 DEF TypeOK

\* The head of a queue that is not empty is one of its items.
LEMMA HeadType ==
    ASSUME TypeOK, wire # << >>
    PROVE  Head(wire) \in Items /\ Tail(wire) \in Seq(Items) /\ Head(wire).req \in Requests
<1>1. wire \in Seq(Items)
  BY DEF TypeOK, NetType
<1>2. Head(wire) \in Items /\ Tail(wire) \in Seq(Items)
  BY <1>1, HeadTailProperties
<1> QED
  BY <1>2 DEF Items

LEMMA ReqType ==
    ASSUME TypeOK, NEW c \in Callers, cur[c] # NoCall
    PROVE  cur[c] \in Calls /\ Req(c) \in Requests
  BY DEF TypeOK, CallerType, Req, Requests

\* Return keeps the types of what it writes.
LEMMA ReturnType ==
    ASSUME TypeOK, NEW c \in Callers, Inside(c), NEW o \in Outcomes, Return(c, o)
    PROVE  CallerType' /\ LockType'
<1>1. CallerType'
  BY ReqType DEF Return, TypeOK, CallerType, LockType, Inside, Stages, Outcomes
<1>2. LockType'
  BY ChannelAssumption DEF Return, TypeOK, CallerType, LockType, Inside, ChannelAssumption
<1> QED
  BY <1>1, <1>2

\* Killing the process keeps the types of what it writes.
LEMMA TerminateType ==
    ASSUME TypeOK, Terminate
    PROVE  alive' \in BOOLEAN /\ wire' \in Seq(Items) /\ busy' \in Items \cup {NoItem}
<1>1. CASE alive /\ Dies
  <2>1. alive' \in BOOLEAN
    BY <1>1 DEF Dies
  <2>2. wire' \in Seq(Items) /\ busy' \in Items \cup {NoItem}
    BY <1>1 DEF Dies
  <2> QED
    BY <2>1, <2>2
<1>2. CASE UNCHANGED <<alive, wire, busy>>
  BY <1>2 DEF TypeOK, FlagType, NetType, VivadoType
<1> QED
  BY <1>1, <1>2 DEF Terminate

\* No step leaves the declared types.
LEMMA TypeStep ==
    ASSUME TypeOK, [Next]_vars
    PROVE  TypeOK'
<1> USE DEF sessionVars, callerVars, netVars, vivadoVars, stopVars
<1>1. ASSUME NEW c \in Callers, NEW k \in Calls, RunTcl(c, k) PROVE TypeOK'
  <2>1. CallerType'
    BY <1>1 DEF RunTcl, TypeOK, CallerType, Stages, Outcomes
  <2>2. LockType'
    BY <1>1, ChannelAssumption DEF RunTcl, TypeOK, CallerType, LockType, ChannelAssumption
  <2> QED
    BY <1>1, <2>1, <2>2 DEF RunTcl, TypeOK, SessionType, NetType, VivadoType, StopType, FlagType
<1>2. ASSUME NEW c \in Callers, Acquire(c) PROVE TypeOK'
  <2>1. CallerType' /\ LockType'
    BY <1>2, ChannelAssumption DEF Acquire, TypeOK, CallerType, LockType, ChannelAssumption
  <2> QED
    BY <1>2, <2>1 DEF Acquire, TypeOK, SessionType, NetType, VivadoType, StopType, FlagType
<1>3. ASSUME NEW c \in Callers, SendFails(c) PROVE TypeOK'
  <2>1. CallerType' /\ LockType'
    <3>1. PICK o \in {"oserror", "timeout"} : Return(c, Raised(c, o))
      BY <1>3 DEF SendFails
    <3>2. Raised(c, o) \in Outcomes
      BY DEF Raised, Outcomes
    <3> QED
      BY <1>3, <3>1, <3>2, ReturnType DEF SendFails, Inside
  <2>2. NetType'
    <3>1. pc[c] = "sending"
      BY <1>3 DEF SendFails
    <3>2. [req |-> Req(c), kind |-> "truncated"] \in Items
      BY <3>1, ReqType DEF TypeOK, LockType, Items, Kinds
    <3>3. wire' = wire \/ wire' = Append(wire, [req |-> Req(c), kind |-> "truncated"])
      BY <1>3, Zenon DEF SendFails
    <3>4. UNCHANGED <<sentSeq, reply, replays>>
      BY <1>3 DEF SendFails
    <3>5. wire' \in Seq(Items)
      <4>1. wire \in Seq(Items)
        BY DEF TypeOK, NetType
      <4> QED
        BY <3>2, <3>3, <4>1, AppendProperties
    <3> QED
      BY <3>4, <3>5 DEF TypeOK, NetType
  <2> QED
    BY <1>3, <2>1, <2>2 DEF SendFails, TypeOK, SessionType, VivadoType, StopType, FlagType
<1>4. ASSUME NEW c \in Callers, Send(c) PROVE TypeOK'
  <2>1. CallerType' /\ LockType'
    BY <1>4 DEF Send, TypeOK, CallerType, LockType
  <2>2. NetType'
    <3>1. Req(c) \in Requests /\ [req |-> Req(c), kind |-> "whole"] \in Items
      BY <1>4, ReqType DEF Send, TypeOK, LockType, Items, Kinds
    <3> QED
      BY <1>4, <3>1 DEF Send, TypeOK, NetType, SessionType
  <2> QED
    BY <1>4, <2>1, <2>2 DEF Send, TypeOK, SessionType, VivadoType, StopType, FlagType
<1>5. ASSUME NEW c \in Callers, ReadResult(c) PROVE TypeOK'
  <2>1. CallerType' /\ LockType'
    <3>1. CASE stage[c] = "preflight" /\ reply[Req(c)] = "ok"
      BY <1>5, <3>1 DEF ReadResult, TypeOK, CallerType, LockType
    <3>2. CASE ~(stage[c] = "preflight" /\ reply[Req(c)] = "ok")
      <4>1. reply[Req(c)] \in Outcomes /\ Return(c, reply[Req(c)])
        BY <1>5, <3>2 DEF ReadResult, Outcomes
      <4> QED
        BY <1>5, <4>1, ReturnType DEF ReadResult, Inside
    <3> QED
      BY <3>1, <3>2
  <2> QED
    BY <1>5, <2>1 DEF ReadResult, TypeOK, SessionType, NetType, VivadoType, StopType, FlagType
<1>6. ASSUME NEW c \in Callers, Verify(c) PROVE TypeOK'
  <2>1. CallerType' /\ LockType'
    <3>1. CASE Return(c, "blocked")
      BY <1>6, <3>1, ReturnType DEF Verify, Inside, Outcomes
    <3>2. CASE ~Return(c, "blocked")
      BY <1>6, <3>2 DEF Verify, TypeOK, CallerType, LockType, Stages
    <3> QED
      BY <3>1, <3>2
  <2> QED
    BY <1>6, <2>1 DEF Verify, TypeOK, SessionType, NetType, VivadoType, StopType, FlagType
<1>7. ASSUME NEW c \in Callers, NEW o \in Outcomes, pc[c] = "waiting", MarkTainted(c, o)
      PROVE  TypeOK'
  <2>1. CallerType' /\ LockType'
    BY <1>7 DEF MarkTainted, TypeOK, CallerType, LockType
  <2>2. FlagType'
    BY <1>7 DEF MarkTainted, TypeOK, FlagType
  <2> QED
    BY <1>7, <2>1, <2>2 DEF MarkTainted, TypeOK, SessionType, NetType, VivadoType, StopType
<1>8. ASSUME NEW c \in Callers, FinishTaint(c) PROVE TypeOK'
  <2>1. CallerType' /\ LockType'
    <3>1. Inside(c) /\ Return(c, pending[c])
      BY <1>8 DEF FinishTaint, Inside
    <3> QED
      BY <3>1, ReturnType DEF TypeOK, CallerType
  <2>2. Terminate /\ UNCHANGED <<tainted, sentSeq, reply, replays, lastSeq, log>>
    BY <1>8 DEF FinishTaint
  <2>3. FlagType'
    BY <2>2, TerminateType DEF TypeOK, FlagType
  <2>4. NetType' /\ VivadoType'
    BY <2>2, TerminateType DEF TypeOK, NetType, VivadoType
  <2>5. SessionType' /\ StopType'
    <3>1. UNCHANGED <<state, seq, stopPc, stops>>
      BY <1>8 DEF FinishTaint
    <3> QED
      BY <3>1 DEF TypeOK, SessionType, StopType
  <2> QED
    BY <2>1, <2>3, <2>4, <2>5 DEF TypeOK
<1>9. CASE Accept
  <2>1. Head(wire) \in Items /\ Tail(wire) \in Seq(Items) /\ Head(wire).req \in Requests
    BY <1>9, HeadType DEF Accept
  <2>2. VivadoType' /\ NetType'
    BY <1>9, <2>1 DEF Accept, TypeOK, VivadoType, NetType
  <2> QED
    BY <1>9, <2>2 DEF Accept, TypeOK, SessionType, CallerType, LockType, StopType, FlagType
<1>10. ASSUME NEW item \in Items, ReplyTo(item, "ok") \/ ReplyTo(item, "error")
                  \/ ReplyTo(item, "unreadable") \/ ReplyTo(item, "rejected")
       PROVE  reply' \in [Requests -> {"none", "ok", "error", "rejected", "unreadable"}]
  BY <1>10 DEF ReplyTo, TypeOK, NetType, Items
<1>11. CASE Reject
  <2>1. Head(wire) \in Items /\ Tail(wire) \in Seq(Items)
    BY <1>11, HeadType DEF Reject
  <2>2. NetType'
    BY <1>10, <1>11, <2>1 DEF Reject, TypeOK, NetType
  <2> QED
    BY <1>11, <2>2
    DEF Reject, TypeOK, SessionType, CallerType, LockType, VivadoType, StopType, FlagType
<1>12. CASE Complete
  <2>1. NetType'
    BY <1>10, <1>12 DEF Complete, TypeOK, NetType, VivadoType
  <2> QED
    BY <1>12, <2>1
    DEF Complete, TypeOK, SessionType, CallerType, LockType, VivadoType, StopType, FlagType
<1>13. ASSUME NEW r \in Requests, Replay(r) PROVE TypeOK'
  <2>1. [req |-> r, kind |-> "replay"] \in Items
    BY DEF Items, Kinds
  <2>2. NetType'
    BY <1>13, <2>1, ChannelAssumption DEF Replay, TypeOK, NetType, ChannelAssumption
  <2> QED
    BY <1>13, <2>2
    DEF Replay, TypeOK, SessionType, CallerType, LockType, VivadoType, StopType, FlagType
<1>14. CASE ProcessExits
  <2>1. FlagType'
    BY <1>14 DEF ProcessExits, Dies, TypeOK, FlagType
  <2> QED
    BY <1>14, <2>1
    DEF ProcessExits, Dies, TypeOK, SessionType, CallerType, LockType, NetType, VivadoType,
        StopType
<1>15. CASE Stopper
  <2>1. FlagType' /\ wire' \in Seq(Items) /\ busy' \in Items \cup {NoItem}
    BY <1>15, TerminateType
    DEF Stopper, StopBegin, StopTerminate, StopFinish, TypeOK, FlagType, NetType, VivadoType
  <2>2. NetType' /\ VivadoType'
    BY <1>15, <2>1
    DEF Stopper, StopBegin, StopTerminate, StopFinish, TypeOK, NetType, VivadoType
  <2>3. StopType' /\ SessionType'
    BY <1>15, ChannelAssumption
    DEF Stopper, StopBegin, StopTerminate, StopFinish, TypeOK, StopType, SessionType,
        ChannelAssumption
  <2>4. CallerType' /\ LockType'
    BY <1>15
    DEF Stopper, StopBegin, StopTerminate, StopFinish, TypeOK, CallerType, LockType
  <2> QED
    BY <2>1, <2>2, <2>3, <2>4 DEF TypeOK
<1>16. CASE UNCHANGED vars
  BY <1>16
  DEF vars, TypeOK, SessionType, CallerType, LockType, NetType, VivadoType, StopType, FlagType
<1>17. ASSUME NEW c \in Callers, Timeout(c) \/ BadReply(c) PROVE TypeOK'
  <2>1. Raised(c, "timeout") \in Outcomes /\ "protocol_failure" \in Outcomes
    BY DEF Raised, Outcomes
  <2> QED
    BY <1>7, <1>17, <2>1 DEF Timeout, BadReply
<1> QED
  BY <1>1, <1>2, <1>3, <1>4, <1>5, <1>6, <1>8, <1>9, <1>11, <1>12, <1>13, <1>14, <1>15,
     <1>16, <1>17
  DEF Next, Progress, Server, AllAnswered

\* Every variable keeps its type, and the request lock is held by the one
\* thread that is inside a request (run_tcl's with self._request_lock).
THEOREM ChannelTyped == Spec => []TypeOK
<1>1. Init => TypeOK
  BY TypeInit
<1>2. TypeOK /\ [Next]_vars => TypeOK'
  BY TypeStep
<1> QED
  BY <1>1, <1>2, PTL DEF Spec

(***************************************************************************)
(* The steps                                                               *)
(***************************************************************************)

\* A return closes the call and leaves the other threads alone.
LEMMA ReturnKeeps ==
    ASSUME TypeOK, Ownership, NEW c \in Callers, Inside(c),
           NEW o \in Outcomes \ {"none", "open"}, Return(c, o)
    PROVE  /\ Ownership'
           /\ pc'[c] = "idle" /\ cur'[c] = NoCall
           /\ \A d \in Callers \ {c} :
                 pc'[d] = pc[d] /\ cur'[d] = cur[d] /\ stage'[d] = stage[d]
           /\ \A k \in Calls : outcome'[k] = "none" => outcome[k] = "none"
<1>1. cur[c] # NoCall /\ cur[c] \in Calls
  BY DEF TypeOK, CallerType, LockType, Inside
<1>2. /\ pc'[c] = "idle" /\ cur'[c] = NoCall
      /\ \A d \in Callers \ {c} : /\ pc'[d] = pc[d] /\ cur'[d] = cur[d]
                                  /\ stage'[d] = stage[d] /\ pending'[d] = pending[d]
  BY DEF Return, TypeOK, CallerType
<1>3. /\ outcome'[cur[c]] = o
      /\ \A k \in Calls \ {cur[c]} : outcome'[k] = outcome[k]
  BY <1>1 DEF Return, TypeOK, CallerType
<1>4. ASSUME NEW d \in Callers, cur'[d] # NoCall PROVE outcome'[cur'[d]] = "open"
  <2>1. d # c /\ cur'[d] = cur[d] /\ cur[d] \in Calls
    BY <1>2, <1>4 DEF TypeOK, CallerType
  <2>2. cur[d] # cur[c]
    BY <1>1, <2>1 DEF Ownership
  <2> QED
    BY <1>3, <1>4, <2>1, <2>2 DEF Ownership
<1>5. \A d, e \in Callers : cur'[d] # NoCall /\ cur'[d] = cur'[e] => d = e
  BY <1>2 DEF Ownership
<1>6. /\ \A d \in Callers : pc'[d] = "tainting" => pending'[d] \notin {"none", "open"}
      /\ \A d \in Callers : pc'[d] = "verifying" => stage'[d] = "preflight"
  BY <1>2 DEF Ownership
<1>7. Ownership'
  BY <1>4, <1>5, <1>6 DEF Ownership
<1>8. \A k \in Calls : outcome'[k] = "none" => outcome[k] = "none"
  BY <1>3
<1> QED
  BY <1>2, <1>7, <1>8

\* The steps of a thread that end its call.
Returns(c) ==
    \/ SendFails(c)
    \/ ReadResult(c) /\ ~(stage[c] = "preflight" /\ reply[Req(c)] = "ok")
    \/ Verify(c) /\ Return(c, "blocked")
    \/ FinishTaint(c)

LEMMA ReturnsReturn ==
    ASSUME TypeOK, Ownership, NEW c \in Callers, Returns(c)
    PROVE  Inside(c) /\ \E o \in Outcomes \ {"none", "open"} : Return(c, o)
<1>1. CASE SendFails(c)
  <2>1. Inside(c) /\ \E o \in {"oserror", "timeout"} : Return(c, Raised(c, o))
    BY <1>1 DEF SendFails, Inside
  <2>2. \A o \in {"oserror", "timeout"} : Raised(c, o) \in Outcomes \ {"none", "open"}
    BY DEF Raised, Outcomes
  <2> QED
    BY <2>1, <2>2
<1>2. CASE ReadResult(c) /\ ~(stage[c] = "preflight" /\ reply[Req(c)] = "ok")
  BY <1>2 DEF ReadResult, Inside, Outcomes
<1>3. CASE Verify(c) /\ Return(c, "blocked")
  BY <1>3 DEF Verify, Inside, Outcomes
<1>4. CASE FinishTaint(c)
  <2>1. pc[c] = "tainting" /\ Return(c, pending[c])
    BY <1>4 DEF FinishTaint
  <2> QED
    BY <2>1 DEF Inside, Ownership, TypeOK, CallerType
<1> QED
  BY <1>1, <1>2, <1>3, <1>4 DEF Returns

\* The two steps that lead from a preflight to its command.
EndsPreflight(c) == ReadResult(c) /\ stage[c] = "preflight" /\ reply[Req(c)] = "ok"
StartsCommand(c) == Verify(c) /\ ~Return(c, "blocked")

ThreadStep(c) == \/ Acquire(c) \/ Send(c) \/ Returns(c) \/ EndsPreflight(c)
                 \/ StartsCommand(c) \/ Timeout(c) \/ BadReply(c)

OtherStep == \/ Accept \/ Reject \/ Complete \/ ProcessExits
             \/ (\E r \in Requests : Replay(r)) \/ Stopper \/ UNCHANGED vars

\* Every step is one of these.
LEMMA StepCases ==
    ASSUME [Next]_vars
    PROVE  \/ \E c \in Callers : ThreadStep(c) \/ \E k \in Calls : RunTcl(c, k)
           \/ OtherStep
<1>1. ASSUME NEW c \in Callers, Progress(c) \/ BadReply(c) PROVE ThreadStep(c)
  BY <1>1 DEF Progress, Returns, ThreadStep, EndsPreflight, StartsCommand
<1>2. CASE Next
  BY <1>1, <1>2 DEF Next, Server, AllAnswered, OtherStep
<1> QED
  BY <1>2 DEF OtherStep

LEMMA OwnershipStep ==
    ASSUME TypeOK, Ownership, [Next]_vars
    PROVE  Ownership'
<1> USE DEF sessionVars, callerVars, netVars, vivadoVars, stopVars
<1>1. ASSUME NEW c \in Callers, NEW k \in Calls, RunTcl(c, k) PROVE Ownership'
  <2>1. CASE state = "TAINTED"
    BY <1>1, <2>1 DEF RunTcl, Ownership, TypeOK, CallerType
  <2>2. CASE state # "TAINTED"
    <3>1. /\ outcome[k] = "none" /\ outcome' = [outcome EXCEPT ![k] = "open"]
          /\ pc' = [pc EXCEPT ![c] = "queued"] /\ cur' = [cur EXCEPT ![c] = k]
          /\ \A d \in Callers \ {c} : stage'[d] = stage[d]
          /\ pending' = pending
      BY <1>1, <2>2 DEF RunTcl, TypeOK, CallerType
    <3>2. \A d \in Callers : cur[d] # k
      BY <3>1, ChannelAssumption DEF Ownership, ChannelAssumption
    <3> QED
      BY <3>1, <3>2 DEF Ownership, TypeOK, CallerType
  <2> QED
    BY <2>1, <2>2
<1>2. ASSUME NEW c \in Callers, ThreadStep(c) PROVE Ownership'
  <2>1. CASE Acquire(c)
    BY <2>1 DEF Acquire, Ownership, TypeOK, CallerType
  <2>2. CASE Send(c)
    BY <2>2 DEF Send, Ownership, TypeOK, CallerType
  <2>3. CASE Returns(c)
    BY <2>3, ReturnsReturn, ReturnKeeps
  <2>4. CASE EndsPreflight(c)
    BY <2>4 DEF EndsPreflight, ReadResult, Ownership, TypeOK, CallerType
  <2>5. CASE StartsCommand(c)
    BY <2>5 DEF StartsCommand, Verify, Ownership, TypeOK, CallerType
  <2>6. CASE Timeout(c) \/ BadReply(c)
    <3>1. PICK o \in Outcomes \ {"none", "open"} : MarkTainted(c, o)
      BY <2>6 DEF Timeout, BadReply, Raised, Outcomes
    <3> QED
      BY <3>1 DEF MarkTainted, Ownership, TypeOK, CallerType
  <2> QED
    BY <1>2, <2>1, <2>2, <2>3, <2>4, <2>5, <2>6 DEF ThreadStep
<1>3. CASE OtherStep
  <2>1. UNCHANGED callerVars
    BY <1>3
    DEF OtherStep, Accept, Reject, Complete, ProcessExits, Replay, Stopper, StopBegin,
        StopTerminate, StopFinish, vars
  <2> QED
    BY <2>1 DEF Ownership
<1> QED
  BY <1>1, <1>2, <1>3, StepCases

LEMMA UnsentStep ==
    ASSUME TypeOK, Ownership, Unsent, [Next]_vars
    PROVE  Unsent'
<1> USE DEF sessionVars, callerVars, netVars, vivadoVars, stopVars
<1>1. ASSUME NEW c \in Callers, NEW k \in Calls, RunTcl(c, k) PROVE Unsent'
  <2>1. CASE state = "TAINTED"
    BY <1>1, <2>1 DEF RunTcl, Unsent, TypeOK, CallerType, Req
  <2>2. CASE state # "TAINTED"
    <3>1. /\ outcome[k] = "none" /\ outcome' = [outcome EXCEPT ![k] = "open"]
          /\ pc' = [pc EXCEPT ![c] = "queued"] /\ cur' = [cur EXCEPT ![c] = k]
          /\ stage'[c] \in {"preflight", "command"}
          /\ \A d \in Callers \ {c} : stage'[d] = stage[d]
          /\ sentSeq' = sentSeq
      BY <1>1, <2>2 DEF RunTcl, TypeOK, CallerType
    <3>2. sentSeq[<<k, "preflight">>] = 0 /\ sentSeq[<<k, "command">>] = 0
      BY <3>1 DEF Unsent
    <3>3. /\ pc'[c] = "queued" /\ cur'[c] = k
          /\ \A d \in Callers \ {c} : pc'[d] = pc[d] /\ cur'[d] = cur[d]
          /\ \A j \in Calls : outcome'[j] = "none" => outcome[j] = "none"
      BY <3>1 DEF TypeOK, CallerType
    <3>4. \A d \in Callers : pc'[d] \in {"queued", "sending"} => sentSeq'[Req(d)'] = 0
      BY <3>1, <3>2, <3>3 DEF Unsent, Req
    <3>5. \A d \in Callers : cur'[d] # NoCall /\ stage'[d] = "preflight" =>
            sentSeq'[<<cur'[d], "command">>] = 0
      BY <3>1, <3>2, <3>3 DEF Unsent
    <3> QED
      BY <3>1, <3>3, <3>4, <3>5 DEF Unsent
  <2> QED
    BY <2>1, <2>2
<1>2. ASSUME NEW c \in Callers, ThreadStep(c) PROVE Unsent'
  <2>1. CASE Acquire(c)
    BY <2>1 DEF Acquire, Unsent, TypeOK, CallerType, Req
  <2>2. CASE Send(c)
    <3>1. cur[c] \in Calls /\ outcome[cur[c]] = "open" /\ Req(c) \in Requests
      BY <2>2, ReqType DEF Send, TypeOK, LockType, Ownership
    <3>2. /\ pc'[c] = "waiting" /\ UNCHANGED <<cur, stage, outcome>>
          /\ \A d \in Callers \ {c} : pc'[d] = pc[d]
          /\ \A r \in Requests \ {Req(c)} : sentSeq'[r] = sentSeq[r]
      BY <2>2 DEF Send, TypeOK, CallerType, NetType
    <3>3. \A d \in Callers \ {c} : cur[d] # NoCall => cur[d] \in Calls /\ cur[d] # cur[c]
      BY <2>2, <3>1 DEF Ownership, TypeOK, CallerType, LockType
    <3>4. \A k \in Calls : outcome'[k] = "none" =>
            sentSeq'[<<k, "preflight">>] = 0 /\ sentSeq'[<<k, "command">>] = 0
      BY <3>1, <3>2 DEF Unsent, Req, Requests, Stages
    <3>5. \A d \in Callers : pc'[d] \in {"queued", "sending"} => sentSeq'[Req(d)'] = 0
      <4>1. SUFFICES ASSUME NEW d \in Callers, pc'[d] \in {"queued", "sending"}
                     PROVE  sentSeq'[Req(d)'] = 0
        OBVIOUS
      <4>2. d # c /\ pc[d] = pc'[d] /\ cur[d] # NoCall /\ Req(d)' = Req(d)
        BY <3>2, <4>1 DEF TypeOK, LockType, Req
      <4>3. Req(d) \in Requests \ {Req(c)}
        BY <3>3, <4>2, ReqType DEF Req
      <4> QED
        BY <3>2, <4>1, <4>2, <4>3 DEF Unsent
    <3>6. \A d \in Callers : cur'[d] # NoCall /\ stage'[d] = "preflight" =>
            sentSeq'[<<cur'[d], "command">>] = 0
      <4>1. SUFFICES ASSUME NEW d \in Callers, cur[d] # NoCall, stage[d] = "preflight"
                     PROVE  sentSeq'[<<cur[d], "command">>] = 0
        BY <3>2
      <4>2. <<cur[d], "command">> \in Requests \ {Req(c)}
        BY <3>1, <3>3, <4>1 DEF Req, Requests, Stages
      <4> QED
        BY <3>2, <4>1, <4>2 DEF Unsent
    <3> QED
      BY <3>4, <3>5, <3>6 DEF Unsent
  <2>3. CASE Returns(c)
    <3>1. sentSeq' = sentSeq
      BY <2>3 DEF Returns, SendFails, ReadResult, Verify, FinishTaint
    <3>2. /\ pc'[c] = "idle" /\ cur'[c] = NoCall
          /\ \A d \in Callers \ {c} :
                pc'[d] = pc[d] /\ cur'[d] = cur[d] /\ stage'[d] = stage[d]
          /\ \A k \in Calls : outcome'[k] = "none" => outcome[k] = "none"
      BY <2>3, ReturnsReturn, ReturnKeeps
    <3> QED
      BY <3>1, <3>2 DEF Unsent, Req
  <2>4. CASE EndsPreflight(c)
    BY <2>4 DEF EndsPreflight, ReadResult, Unsent, TypeOK, CallerType, Req
  <2>5. CASE StartsCommand(c)
    <3>1. /\ pc[c] = "verifying" /\ pc' = [pc EXCEPT ![c] = "sending"]
          /\ stage' = [stage EXCEPT ![c] = "command"]
          /\ UNCHANGED <<cur, outcome, sentSeq>>
      BY <2>5 DEF StartsCommand, Verify
    <3>2. cur[c] # NoCall /\ stage[c] = "preflight"
      BY <3>1 DEF Ownership, TypeOK, LockType
    <3> QED
      BY <3>1, <3>2 DEF Unsent, TypeOK, CallerType, Req
  <2>6. CASE Timeout(c) \/ BadReply(c)
    BY <2>6 DEF Timeout, BadReply, MarkTainted, Unsent, TypeOK, CallerType, Req
  <2> QED
    BY <1>2, <2>1, <2>2, <2>3, <2>4, <2>5, <2>6 DEF ThreadStep
<1>3. CASE OtherStep
  <2>1. UNCHANGED <<callerVars, sentSeq>>
    BY <1>3
    DEF OtherStep, Accept, Reject, Complete, ProcessExits, Replay, Stopper, StopBegin,
        StopTerminate, StopFinish, vars
  <2> QED
    BY <2>1 DEF Unsent, Req
<1> QED
  BY <1>1, <1>2, <1>3, StepCases

\* What a request that has not been sent implies of the log.
LEMMA NotLogged ==
    ASSUME TypeOK, LogNumbered, NEW r \in Requests, sentSeq[r] = 0
    PROVE  \A i \in 1..Len(log) : log[i] # r
  BY DEF LogNumbered

LEMMA LogNumberedStep ==
    ASSUME TypeOK, Ownership, Unsent, LogNumbered, [Next]_vars
    PROVE  LogNumbered'
<1> USE DEF sessionVars, callerVars, netVars, vivadoVars, stopVars
<1>1. CASE Accept
  <2>1. Head(wire).req \in Requests /\ log \in Seq(Requests)
    BY <1>1, HeadType DEF Accept, TypeOK, VivadoType
  <2>2. /\ lastSeq' = lastSeq + 1 /\ lastSeq' = sentSeq[Head(wire).req]
        /\ log' = Append(log, Head(wire).req) /\ sentSeq' = sentSeq
    BY <1>1 DEF Accept, InSequence
  <2>3. /\ Len(log') = Len(log) + 1 /\ log'[Len(log) + 1] = Head(wire).req
        /\ \A i \in 1..Len(log) : log'[i] = log[i]
    BY <2>1, <2>2, AppendProperties
  <2>4. Len(log) \in Nat
    BY <2>1, LenProperties
  <2> QED
    BY <2>2, <2>3, <2>4 DEF LogNumbered
<1>2. ASSUME NEW c \in Callers, Send(c) PROVE LogNumbered'
  <2>1. Req(c) \in Requests /\ sentSeq[Req(c)] = 0
    BY <1>2, ReqType DEF Send, Unsent, TypeOK, LockType
  <2>2. \A i \in 1..Len(log) : log[i] \in Requests /\ log[i] # Req(c)
    <3>1. log \in Seq(Requests)
      BY DEF TypeOK, VivadoType
    <3> QED
      BY <2>1, <3>1, NotLogged, ElementOfSeq
  <2>3. UNCHANGED <<log, lastSeq>> /\ sentSeq' = [sentSeq EXCEPT ![Req(c)] = seq + 1]
    BY <1>2 DEF Send
  <2> QED
    BY <2>2, <2>3 DEF LogNumbered, TypeOK, NetType
<1>3. ASSUME NEW c \in Callers, ThreadStep(c), ~Send(c) PROVE LogNumbered'
  <2>1. UNCHANGED <<log, lastSeq, sentSeq>>
    BY <1>3
    DEF ThreadStep, Acquire, Returns, SendFails, EndsPreflight, ReadResult, StartsCommand,
        Verify, FinishTaint, Timeout, BadReply, MarkTainted
  <2> QED
    BY <2>1 DEF LogNumbered
<1>4. ASSUME NEW c \in Callers, NEW k \in Calls, RunTcl(c, k) PROVE LogNumbered'
  BY <1>4 DEF RunTcl, LogNumbered
<1>5. CASE OtherStep /\ ~Accept
  <2>1. UNCHANGED <<log, lastSeq, sentSeq>>
    BY <1>5
    DEF OtherStep, Reject, Complete, ProcessExits, Replay, Stopper, StopBegin,
        StopTerminate, StopFinish, vars
  <2> QED
    BY <2>1 DEF LogNumbered
<1> QED
  BY <1>1, <1>2, <1>3, <1>4, <1>5, StepCases

\* The log only grows, and a request that is in it has been sent.
LEMMA LoggedStep ==
    ASSUME TypeOK, Ownership, Unsent, LogNumbered, [Next]_vars, NEW r \in Requests, Logged(r)
    PROVE  Logged(r)' /\ sentSeq'[r] = sentSeq[r]
<1> USE DEF sessionVars, callerVars, netVars, vivadoVars, stopVars
<1>1. CASE Accept
  <2>1. Head(wire).req \in Requests /\ log \in Seq(Requests)
    BY <1>1, HeadType DEF Accept, TypeOK, VivadoType
  <2>2. log' = Append(log, Head(wire).req) /\ sentSeq' = sentSeq
    BY <1>1 DEF Accept
  <2>3. /\ Len(log') = Len(log) + 1 /\ Len(log) \in Nat
        /\ \A i \in 1..Len(log) : log'[i] = log[i]
    BY <2>1, <2>2, AppendProperties, LenProperties
  <2> QED
    BY <2>2, <2>3 DEF Logged
<1>2. ASSUME NEW c \in Callers, Send(c) PROVE Logged(r)' /\ sentSeq'[r] = sentSeq[r]
  <2>1. sentSeq[Req(c)] = 0
    BY <1>2 DEF Send, Unsent
  <2>2. log' = log /\ sentSeq' = [sentSeq EXCEPT ![Req(c)] = seq + 1]
    BY <1>2 DEF Send
  <2>3. sentSeq[r] # 0
    BY DEF Logged
  <2> QED
    BY <2>1, <2>2, <2>3 DEF Logged, TypeOK, NetType
<1>3. ASSUME NEW c \in Callers, ThreadStep(c), ~Send(c)
      PROVE  Logged(r)' /\ sentSeq'[r] = sentSeq[r]
  <2>1. UNCHANGED <<log, sentSeq>>
    BY <1>3
    DEF ThreadStep, Acquire, Returns, SendFails, EndsPreflight, ReadResult, StartsCommand,
        Verify, FinishTaint, Timeout, BadReply, MarkTainted
  <2> QED
    BY <2>1 DEF Logged
<1>4. ASSUME NEW c \in Callers, NEW k \in Calls, RunTcl(c, k)
      PROVE  Logged(r)' /\ sentSeq'[r] = sentSeq[r]
  BY <1>4 DEF RunTcl, Logged
<1>5. CASE OtherStep /\ ~Accept
  <2>1. UNCHANGED <<log, sentSeq>>
    BY <1>5
    DEF OtherStep, Reject, Complete, ProcessExits, Replay, Stopper, StopBegin,
        StopTerminate, StopFinish, vars
  <2> QED
    BY <2>1 DEF Logged
<1> QED
  BY <1>1, <1>2, <1>3, <1>4, <1>5, StepCases

LEMMA HeardStep ==
    ASSUME TypeOK, Ownership, Unsent, LogNumbered, Heard, [Next]_vars
    PROVE  Heard'
<1> USE DEF sessionVars, callerVars, netVars, vivadoVars, stopVars
<1> DEFINE Results == {"ok", "error", "unreadable"}
<1>0. busy # NoItem => busy \in Items /\ busy.req \in Requests
  BY DEF TypeOK, VivadoType, Items
<1> DEFINE Stays(r) == sentSeq'[r] \in 1..Len(log') /\ log'[sentSeq'[r]] = r
<1>s. \A r \in Requests : Logged(r) => Stays(r)
  BY LoggedStep DEF Logged
\* A step that answers nobody and starts nothing.
<1>1. ASSUME \A r \in Requests : reply'[r] \in Results => reply[r] \in Results,
             busy' \in {busy, NoItem}
      PROVE  Heard'
  <2>1. \A r \in Requests : reply'[r] \in Results => Stays(r)
    BY <1>1, <1>s DEF Heard
  <2>2. busy' # NoItem => busy' = busy /\ Stays(busy.req)
    BY <1>0, <1>1, <1>s DEF Heard
  <2> QED
    BY <2>1, <2>2 DEF Heard, Logged
<1>2. CASE Accept
  <2>1. Head(wire).req \in Requests /\ log \in Seq(Requests)
    BY <1>2, HeadType DEF Accept, TypeOK, VivadoType
  <2>2. /\ sentSeq' = sentSeq /\ sentSeq[Head(wire).req] = lastSeq + 1
        /\ log' = Append(log, Head(wire).req) /\ busy' = Head(wire) /\ reply' = reply
    BY <1>2 DEF Accept, InSequence
  <2>3. /\ Len(log') = Len(log) + 1 /\ log'[Len(log) + 1] = Head(wire).req
        /\ Len(log) = lastSeq /\ Len(log) \in Nat
    BY <2>1, <2>2, AppendProperties, LenProperties DEF LogNumbered
  <2>4. Stays(busy'.req)
    BY <2>2, <2>3
  <2>5. \A r \in Requests : reply'[r] \in Results => Stays(r)
    BY <2>2, <1>s DEF Heard
  <2> QED
    BY <2>4, <2>5 DEF Heard, Logged
<1>3. CASE Complete
  <2>1. busy # NoItem /\ busy' = NoItem
    BY <1>3 DEF Complete
  <2>2. \A r \in Requests : reply'[r] = reply[r] \/ r = busy.req
    BY <1>3 DEF Complete, ReplyTo, TypeOK, NetType
  <2>3. \A r \in Requests : reply'[r] \in Results => Logged(r)
    BY <2>1, <2>2 DEF Heard
  <2>4. \A r \in Requests : reply'[r] \in Results => Stays(r)
    BY <2>3, <1>s
  <2> QED
    BY <2>1, <2>4 DEF Heard, Logged
<1>4. CASE Reject
  <2>1. busy' = busy /\ Head(wire).req \in Requests
    BY <1>4, HeadType DEF Reject
  <2>2. \A r \in Requests : reply'[r] \in Results => reply[r] \in Results
    BY <1>4 DEF Reject, ReplyTo, TypeOK, NetType
  <2> QED
    BY <1>1, <2>1, <2>2
<1>5. ASSUME NEW c \in Callers, ThreadStep(c) PROVE Heard'
  <2>1. reply' = reply
    BY <1>5
    DEF ThreadStep, Acquire, Send, Returns, SendFails, EndsPreflight, ReadResult,
        StartsCommand, Verify, FinishTaint, Timeout, BadReply, MarkTainted
  <2>2. busy' \in {busy, NoItem}
    BY <1>5
    DEF ThreadStep, Acquire, Send, Returns, SendFails, EndsPreflight, ReadResult,
        StartsCommand, Verify, FinishTaint, Timeout, BadReply, MarkTainted, Terminate, Dies
  <2> QED
    BY <1>1, <2>1, <2>2
<1>6. ASSUME NEW c \in Callers, NEW k \in Calls, RunTcl(c, k) PROVE Heard'
  BY <1>1, <1>6 DEF RunTcl
<1>7. CASE OtherStep /\ ~Accept /\ ~Reject /\ ~Complete
  <2>1. reply' = reply /\ busy' \in {busy, NoItem}
    BY <1>7
    DEF OtherStep, ProcessExits, Replay, Stopper, StopBegin, StopTerminate, StopFinish,
        Terminate, Dies, vars
  <2> QED
    BY <1>1, <2>1
<1> QED
  BY <1>2, <1>3, <1>4, <1>5, <1>6, <1>7, StepCases

\* A number the server has accepted is at most the last one.
LEMMA LoggedBound ==
    ASSUME TypeOK, LogNumbered, NEW r \in Requests, Logged(r)
    PROVE  0 < sentSeq[r] /\ sentSeq[r] <= lastSeq
  BY DEF Logged, LogNumbered, TypeOK, NetType, VivadoType

\* Nobody else is inside a request.
LEMMA Alone ==
    ASSUME TypeOK, NEW c \in Callers, NEW d \in Callers, Inside(c), Inside(d)
    PROVE  c = d
  BY DEF TypeOK, LockType, Inside

LEMMA CommittedStep ==
    ASSUME TypeOK, TypeOK', Ownership, Unsent, LogNumbered, Heard, Committed, [Next]_vars
    PROVE  Committed'
<1> USE DEF sessionVars, callerVars, netVars, vivadoVars, stopVars
<1>0. \A c \in Callers : pc[c] = "waiting" => Req(c) \in Requests
  BY ReqType DEF TypeOK, LockType
\* A step that commits, sends and taints nothing, and after which the same
\* threads wait.
<1>1. ASSUME UNCHANGED <<seq, sentSeq, tainted>>, lastSeq <= lastSeq',
             \A c \in Callers : /\ pc'[c] = "waiting" <=> pc[c] = "waiting"
                                /\ pc[c] = "waiting" => Req(c)' = Req(c)
      PROVE  Committed'
  <2>1. seq' <= lastSeq'
    BY <1>1 DEF Committed, TypeOK, SessionType, VivadoType
  <2>2. \A c \in Callers : pc'[c] = "waiting" => sentSeq'[Req(c)'] = seq' + 1
    BY <1>1 DEF Committed, Req
  <2>3. ASSUME ~tainted', NEW r \in Requests
        PROVE  sentSeq'[r] <= seq' \/ \E c \in Callers : pc'[c] = "waiting" /\ r = Req(c)'
    <3>1. ~tainted
      BY <1>1, <2>3
    <3>2. sentSeq[r] <= seq \/ \E c \in Callers : pc[c] = "waiting" /\ r = Req(c)
      BY <3>1 DEF Committed
    <3> QED
      BY <1>1, <3>2 DEF Req
  <2> QED
    BY <2>1, <2>2, <2>3 DEF Committed
<1>2. CASE Accept
  <2>1. lastSeq' = lastSeq + 1
    BY <1>2 DEF Accept, InSequence
  <2>2. UNCHANGED <<seq, sentSeq, tainted, callerVars>>
    BY <1>2 DEF Accept
  <2>3. lastSeq <= lastSeq'
    BY <2>1 DEF TypeOK, VivadoType
  <2> QED
    BY <1>1, <2>2, <2>3 DEF Req
<1>3. CASE OtherStep /\ ~Accept
  <2>1. UNCHANGED <<seq, sentSeq, tainted, callerVars, lastSeq>>
    BY <1>3
    DEF OtherStep, Reject, Complete, ProcessExits, Replay, Stopper, StopBegin, StopTerminate,
        StopFinish, vars
  <2> QED
    BY <1>1, <2>1 DEF Req, TypeOK, VivadoType
<1>4. ASSUME NEW c \in Callers, NEW k \in Calls, RunTcl(c, k) PROVE Committed'
  <2>1. UNCHANGED <<seq, sentSeq, tainted, lastSeq>> /\ pc[c] = "idle"
    BY <1>4 DEF RunTcl
  <2>2. /\ pc'[c] # "waiting"
        /\ \A d \in Callers \ {c} :
              pc'[d] = pc[d] /\ cur'[d] = cur[d] /\ stage'[d] = stage[d]
    BY <1>4 DEF RunTcl, TypeOK, CallerType
  <2> QED
    BY <1>1, <2>1, <2>2 DEF Req, TypeOK, VivadoType
<1>5. ASSUME NEW c \in Callers, Acquire(c) PROVE Committed'
  <2>1. UNCHANGED <<seq, sentSeq, tainted, lastSeq, cur, stage>>
    BY <1>5 DEF Acquire
  <2>2. \A d \in Callers : pc'[d] = "waiting" <=> pc[d] = "waiting"
    BY <1>5 DEF Acquire, TypeOK, CallerType
  <2> QED
    BY <1>1, <2>1, <2>2 DEF Req, TypeOK, VivadoType
<1>6. ASSUME NEW c \in Callers, Send(c) PROVE Committed'
  <2>1. /\ UNCHANGED <<seq, lastSeq, tainted, cur, stage>>
        /\ pc[c] = "sending" /\ Req(c) \in Requests
    BY <1>6, ReqType DEF Send, TypeOK, LockType
  <2>2. /\ sentSeq'[Req(c)] = seq + 1
        /\ \A r \in Requests \ {Req(c)} : sentSeq'[r] = sentSeq[r]
        /\ \A d \in Callers : pc'[d] = "waiting" <=> d = c \/ pc[d] = "waiting"
    BY <1>6, <2>1 DEF Send, TypeOK, CallerType, NetType
  <2>3. \A d \in Callers : pc[d] # "waiting"
    BY <2>1, Alone DEF Inside
  <2>4. \A d \in Callers : Req(d)' = Req(d)
    BY <2>1 DEF Req
  <2> QED
    BY <2>1, <2>2, <2>3, <2>4 DEF Committed
<1>7. ASSUME NEW c \in Callers, ReadResult(c) PROVE Committed'
  <2>1. /\ pc[c] = "waiting" /\ Req(c) \in Requests /\ Logged(Req(c))
        /\ sentSeq[Req(c)] = seq + 1
    BY <1>7, <1>0 DEF ReadResult, Heard, Committed
  <2>2. seq' = seq + 1 /\ UNCHANGED <<tainted, sentSeq, lastSeq>>
    BY <1>7 DEF ReadResult
  <2>3. seq' <= lastSeq'
    BY <2>1, <2>2, LoggedBound
  <2>4. \A d \in Callers : pc'[d] # "waiting"
    <3>1. \A d \in Callers \ {c} : pc[d] # "waiting"
      BY <2>1, Alone DEF Inside
    <3> QED
      BY <1>7, <3>1 DEF ReadResult, Return, TypeOK, CallerType
  <2>5. ~tainted => \A r \in Requests : sentSeq[r] <= seq + 1
    <3>1. \A d \in Callers : pc[d] = "waiting" => d = c
      BY <2>1, Alone DEF Inside
    <3>2. ~tainted => \A r \in Requests : sentSeq[r] <= seq \/ r = Req(c)
      BY <3>1 DEF Committed
    <3> QED
      BY <2>1, <3>2, SMTT(30) DEF TypeOK, SessionType, NetType
  <2>6. ~tainted' => \A r \in Requests : sentSeq'[r] <= seq'
    BY <2>2, <2>5
  <2> QED
    BY <2>3, <2>4, <2>6 DEF Committed
<1>8. ASSUME NEW c \in Callers, Returns(c) \/ StartsCommand(c), ~ReadResult(c) PROVE Committed'
  <2>1. UNCHANGED <<seq, sentSeq, tainted, lastSeq>>
    BY <1>8 DEF Returns, SendFails, StartsCommand, Verify, FinishTaint
  <2>2. /\ pc[c] # "waiting" /\ pc'[c] # "waiting"
        /\ \A d \in Callers \ {c} :
              pc'[d] = pc[d] /\ cur'[d] = cur[d] /\ stage'[d] = stage[d]
    <3>1. CASE Returns(c)
      <4>1. pc[c] # "waiting"
        BY <1>8, <3>1 DEF Returns, SendFails, Verify, FinishTaint
      <4> QED
        BY <3>1, <4>1, ReturnsReturn, ReturnKeeps
    <3>2. CASE StartsCommand(c)
      BY <3>2 DEF StartsCommand, Verify, TypeOK, CallerType
    <3> QED
      BY <1>8, <3>1, <3>2
  <2> QED
    BY <1>1, <2>1, <2>2 DEF Req, TypeOK, VivadoType
<1>9. ASSUME NEW c \in Callers, Timeout(c) \/ BadReply(c) PROVE Committed'
  <2>1. /\ UNCHANGED <<seq, sentSeq, lastSeq, cur, stage>> /\ tainted'
        /\ \A d \in Callers : pc'[d] = "waiting" => pc[d] = "waiting"
    BY <1>9 DEF Timeout, BadReply, MarkTainted, TypeOK, CallerType
  <2> QED
    BY <2>1 DEF Committed, Req
<1> QED
  BY <1>2, <1>3, <1>4, <1>5, <1>6, <1>7, <1>8, <1>9, StepCases DEF ThreadStep, EndsPreflight

LEMMA GuardHeldStep ==
    ASSUME TypeOK, TypeOK', Ownership, Unsent, LogNumbered, Heard, Committed, GuardHeld,
           [Next]_vars
    PROVE  GuardHeld'
<1> USE DEF sessionVars, callerVars, netVars, vivadoVars, stopVars
<1> DEFINE Past(c)  == cur[c] \in Guarded /\ (pc[c] = "verifying" \/ stage[c] = "command")
           Past2(c) == cur'[c] \in Guarded /\ (pc'[c] = "verifying" \/ stage'[c] = "command")
           Stays(r) == sentSeq'[r] \in 1..Len(log') /\ log'[sentSeq'[r]] = r
           Kept(k)  == sentSeq'[<<k, "command">>] # 0 =>
                          /\ Stays(<<k, "preflight">>)
                          /\ sentSeq'[<<k, "command">>] = sentSeq'[<<k, "preflight">>] + 1
<1>1. \A k \in Guarded : <<k, "preflight">> \in Requests /\ <<k, "command">> \in Requests
  BY ChannelAssumption DEF ChannelAssumption, Requests, Stages
<1>2. \A r \in Requests : Logged(r) => Stays(r) /\ sentSeq'[r] = sentSeq[r]
  BY LoggedStep DEF Logged
\* The second half survives a step that sends no guarded command.
<1>3. ASSUME NEW k \in Guarded, sentSeq'[<<k, "command">>] = sentSeq[<<k, "command">>]
      PROVE  Kept(k)
  BY <1>1, <1>2, <1>3 DEF GuardHeld
<1>3a. sentSeq' = sentSeq => \A k \in Guarded : Kept(k)
  BY <1>3
\* The first half survives a step that commits nothing and takes no thread into
\* the guarded region.
<1>4. ASSUME seq' = seq, \A k \in Guarded : Kept(k),
             \A c \in Callers : Past2(c) =>
                 Past(c) /\ cur'[c] = cur[c] /\ pc'[c] \in {pc[c], "sending", "waiting", "tainting"}
      PROVE  GuardHeld'
  <2>1. ASSUME NEW c \in Callers, Past2(c)
        PROVE  /\ pc'[c] # "queued" /\ Stays(<<cur'[c], "preflight">>)
               /\ sentSeq'[<<cur'[c], "preflight">>] = seq'
    <3>1. Past(c) /\ cur'[c] = cur[c] /\ pc'[c] \in {pc[c], "sending", "waiting", "tainting"}
      BY <1>4, <2>1
    <3>2. /\ pc[c] # "queued" /\ Logged(<<cur[c], "preflight">>)
          /\ sentSeq[<<cur[c], "preflight">>] = seq
      BY <3>1 DEF GuardHeld
    <3>3. <<cur[c], "preflight">> \in Requests
      BY <1>1, <3>1
    <3>4. Stays(<<cur[c], "preflight">>) /\ sentSeq'[<<cur[c], "preflight">>] = seq
      BY <1>2, <3>2, <3>3
    <3> QED
      BY <1>4, <3>1, <3>2, <3>4
  <2> QED
    BY <1>4, <2>1 DEF GuardHeld, Logged
\* A thread past its preflight is inside its request, so it is the only one there.
<1>5. ASSUME NEW c \in Callers, Inside(c), NEW d \in Callers, Past(d) PROVE d = c
  <2>1. pc[d] # "queued" /\ cur[d] # NoCall
    BY <1>5, ChannelAssumption DEF GuardHeld, ChannelAssumption
  <2>2. Inside(d)
    BY <2>1 DEF Inside, TypeOK, LockType
  <2> QED
    BY <1>5, <2>2, Alone
<1>6. ASSUME NEW c \in Callers, NEW k \in Calls, RunTcl(c, k) PROVE GuardHeld'
  <2>1. /\ UNCHANGED <<seq, sentSeq>>
        /\ \A d \in Callers \ {c} :
              pc'[d] = pc[d] /\ cur'[d] = cur[d] /\ stage'[d] = stage[d]
    BY <1>6 DEF RunTcl, TypeOK, CallerType
  <2>2. cur[c] \notin Guarded
    BY <1>6, ChannelAssumption DEF RunTcl, ChannelAssumption, TypeOK, LockType
  <2>3. ~Past2(c)
    BY <1>6, <2>2 DEF RunTcl, TypeOK, CallerType
  <2> QED
    BY <1>3, <1>4, <2>1, <2>3
<1>7. ASSUME NEW c \in Callers, Acquire(c) PROVE GuardHeld'
  <2>1. UNCHANGED <<seq, sentSeq, cur, stage>> /\ pc[c] = "queued" /\ pc'[c] = "sending"
        /\ \A d \in Callers \ {c} : pc'[d] = pc[d]
    BY <1>7 DEF Acquire, TypeOK, CallerType
  <2> QED
    BY <1>3, <1>4, <2>1
<1>8. ASSUME NEW c \in Callers, Send(c) PROVE GuardHeld'
  <2>1. /\ UNCHANGED <<seq, cur, stage>> /\ pc[c] = "sending" /\ pc'[c] = "waiting"
        /\ \A d \in Callers \ {c} : pc'[d] = pc[d]
        /\ Req(c) \in Requests /\ sentSeq'[Req(c)] = seq + 1
        /\ \A r \in Requests \ {Req(c)} : sentSeq'[r] = sentSeq[r]
    BY <1>8, ReqType DEF Send, TypeOK, CallerType, NetType, LockType
  <2>2. ASSUME NEW k \in Guarded PROVE Kept(k)
    <3>1. CASE Req(c) = <<k, "command">>
      <4>1. Past(c) /\ cur[c] = k
        BY <3>1 DEF Req
      <4>2. Logged(<<k, "preflight">>) /\ sentSeq[<<k, "preflight">>] = seq
        BY <4>1 DEF GuardHeld
      <4> QED
        BY <1>1, <1>2, <2>1, <3>1, <4>2
    <3>2. CASE Req(c) # <<k, "command">>
      BY <1>1, <1>3, <2>1, <3>2
    <3> QED
      BY <3>1, <3>2
  <2> QED
    BY <1>4, <2>1, <2>2
<1>9. ASSUME NEW c \in Callers, Returns(c) PROVE GuardHeld'
  <2>1. Inside(c) /\ sentSeq' = sentSeq
    BY <1>9 DEF Returns, SendFails, ReadResult, Verify, FinishTaint, Inside
  <2>2. /\ cur'[c] = NoCall
        /\ \A d \in Callers \ {c} :
              pc'[d] = pc[d] /\ cur'[d] = cur[d] /\ stage'[d] = stage[d]
    BY <1>9, ReturnsReturn, ReturnKeeps
  <2>3. \A d \in Callers : ~Past2(d)
    BY <1>5, <2>1, <2>2, ChannelAssumption DEF ChannelAssumption
  <2>4. \A k \in Guarded : Kept(k)
    BY <1>3a, <2>1
  <2> QED
    BY <2>3, <2>4 DEF GuardHeld, Logged
<1>10. ASSUME NEW c \in Callers, EndsPreflight(c) PROVE GuardHeld'
  <2>1. /\ pc[c] = "waiting" /\ reply[Req(c)] \in {"ok", "error"} /\ stage[c] = "preflight"
        /\ seq' = seq + 1 /\ UNCHANGED <<sentSeq, log, cur, stage>>
        /\ pc'[c] = "verifying" /\ \A d \in Callers \ {c} : pc'[d] = pc[d]
    BY <1>10 DEF EndsPreflight, ReadResult, TypeOK, CallerType
  <2>2. Req(c) \in Requests /\ Req(c) = <<cur[c], "preflight">>
    BY <2>1, ReqType DEF Req, TypeOK, LockType
  <2>3. Stays(<<cur[c], "preflight">>) /\ sentSeq'[<<cur[c], "preflight">>] = seq'
    BY <2>1, <2>2 DEF Heard, Committed, Logged
  <2>4. \A d \in Callers : Past2(d) => d = c
    BY <1>5, <2>1 DEF Inside
  <2>5. \A k \in Guarded : Kept(k)
    BY <1>3a, <2>1
  <2> QED
    BY <2>1, <2>3, <2>4, <2>5 DEF GuardHeld, Logged
<1>11. ASSUME NEW c \in Callers, StartsCommand(c) PROVE GuardHeld'
  <2>1. /\ UNCHANGED <<seq, sentSeq, cur>> /\ pc[c] = "verifying" /\ pc'[c] = "sending"
        /\ \A d \in Callers \ {c} : pc'[d] = pc[d] /\ stage'[d] = stage[d]
    BY <1>11 DEF StartsCommand, Verify, TypeOK, CallerType
  <2> QED
    BY <1>3, <1>4, <2>1
<1>12. ASSUME NEW c \in Callers, Timeout(c) \/ BadReply(c) PROVE GuardHeld'
  <2>1. /\ UNCHANGED <<seq, sentSeq, cur, stage>> /\ pc'[c] = "tainting"
        /\ \A d \in Callers \ {c} : pc'[d] = pc[d]
    BY <1>12 DEF Timeout, BadReply, MarkTainted, TypeOK, CallerType
  <2> QED
    BY <1>3, <1>4, <2>1
<1>13. CASE OtherStep
  <2>1. UNCHANGED <<seq, sentSeq, cur, pc, stage>>
    BY <1>13
    DEF OtherStep, Accept, Reject, Complete, ProcessExits, Replay, Stopper, StopBegin,
        StopTerminate, StopFinish, vars
  <2> QED
    BY <1>3, <1>4, <2>1
<1> QED
  BY <1>6, <1>7, <1>8, <1>9, <1>10, <1>11, <1>12, <1>13, StepCases DEF ThreadStep

(***************************************************************************)
(* The invariant is inductive                                              *)
(***************************************************************************)

LEMMA InvInit == Init => IInv
<1> SUFFICES ASSUME Init PROVE IInv
  OBVIOUS
<1>1. TypeOK
  BY TypeInit
<1>2. Ownership
  BY DEF Init, Ownership
<1>3. Unsent
  BY DEF Init, Unsent, Requests, Stages
<1>4. LogNumbered
  BY DEF Init, LogNumbered
<1>5. Heard
  BY DEF Init, Heard
<1>6. Committed
  BY DEF Init, Committed
<1>7. GuardHeld
  BY ChannelAssumption DEF Init, GuardHeld, ChannelAssumption, Requests, Stages
<1> QED
  BY <1>1, <1>2, <1>3, <1>4, <1>5, <1>6, <1>7 DEF IInv

LEMMA InvStep == IInv /\ [Next]_vars => IInv'
<1> SUFFICES ASSUME IInv, [Next]_vars PROVE IInv'
  OBVIOUS
<1>1. TypeOK /\ Ownership /\ Unsent /\ LogNumbered /\ Heard /\ Committed /\ GuardHeld
  BY DEF IInv
<1>2. TypeOK'
  BY <1>1, TypeStep
<1>3. Ownership' /\ Unsent'
  BY <1>1, OwnershipStep, UnsentStep
<1>4. LogNumbered' /\ Heard'
  BY <1>1, LogNumberedStep, HeardStep
<1>5. Committed'
  BY <1>1, <1>2, CommittedStep
<1>6. GuardHeld'
  BY <1>1, <1>2, GuardHeldStep
<1> QED
  BY <1>2, <1>3, <1>4, <1>5, <1>6 DEF IInv

\* The inductive invariant holds of every reachable state: who owns a call, what
\* has been sent, and how the two counters and the server's log relate.
THEOREM ChannelInvariant == Spec => []IInv
  BY InvInit, InvStep, PTL DEF Spec

\* Nobody waits and nothing is tainted: both sides have counted the same.
LEMMA InStep ==
    ASSUME IInv, ~tainted, \A c \in Callers : pc[c] # "waiting"
    PROVE  lastSeq = seq /\ \A r \in Requests : sentSeq[r] <= seq
<1>1. seq \in Nat /\ lastSeq \in Nat /\ seq <= lastSeq /\ log \in Seq(Requests)
  BY DEF IInv, TypeOK, SessionType, VivadoType, Committed
<1>2. \A r \in Requests : sentSeq[r] <= seq
  BY DEF IInv, Committed
<1>3. ASSUME lastSeq > seq PROVE FALSE
  <2>1. lastSeq \in 1..Len(log) /\ sentSeq[log[lastSeq]] = lastSeq
    BY <1>1, <1>3 DEF IInv, LogNumbered
  <2>2. log[lastSeq] \in Requests
    BY <1>1, <2>1, ElementOfSeq
  <2> QED
    BY <1>1, <1>2, <1>3, <2>1, <2>2
<1> QED
  BY <1>1, <1>2, <1>3

(***************************************************************************)
(* What the channel promises                                               *)
(***************************************************************************)

\* No request is accepted twice: the sequence check of
\* ::vivado_agent_mcp_handle (bootstrap.py) keeps replays and re-sent numbers
\* out, for any number of them.
THEOREM AtMostOnceHolds == Spec => []AtMostOnce
<1>1. IInv => AtMostOnce
  <2>1. SUFFICES ASSUME IInv, NEW i \in DOMAIN log, NEW j \in DOMAIN log, log[i] = log[j]
                 PROVE  i = j
    BY DEF AtMostOnce
  <2>2. i \in 1..Len(log) /\ j \in 1..Len(log)
    BY <2>1, LenProperties DEF IInv, TypeOK, VivadoType
  <2> QED
    BY <2>1, <2>2 DEF IInv, LogNumbered
<1> QED
  BY <1>1, ChannelInvariant, PTL

\* Between two requests of a session that is not tainted both ends hold the same
\* number, so the next request of run_tcl is accepted: no failure before the send
\* and no answer loses or invents a number (_sequence against
\* ::vivado_agent_mcp_last_sequence).
THEOREM LockstepHolds == Spec => []Lockstep
<1>1. IInv => Lockstep
  <2>1. SUFFICES ASSUME IInv, lock = NoCaller, ~tainted PROVE lastSeq = seq
    BY DEF Lockstep
  <2>2. \A c \in Callers : pc[c] # "waiting"
    <3>1. LockType /\ lock \notin Callers
      BY <2>1, ChannelAssumption DEF IInv, TypeOK, ChannelAssumption
    <3> QED
      BY <3>1 DEF LockType
  <2> QED
    BY <2>1, <2>2, InStep
<1> QED
  BY <1>1, ChannelInvariant, PTL

\* The command of a guarded call is the very next thing Vivado runs after its
\* preflight, whatever other threads, replays and stops do: the lock that
\* _run_with_trusted_project_inputs holds and the numbering leave no gap.
THEOREM GuardedIsAtomicHolds == Spec => []GuardedIsAtomic
<1>1. IInv => GuardedIsAtomic
  <2>1. SUFFICES ASSUME IInv, NEW i \in DOMAIN log, NEW k \in Guarded,
                        log[i] = <<k, "command">>
                 PROVE  i > 1 /\ log[i - 1] = <<k, "preflight">>
    BY DEF GuardedIsAtomic
  <2>2. i \in 1..Len(log) /\ Len(log) \in Nat
    BY <2>1, LenProperties DEF IInv, TypeOK, VivadoType
  <2>3. sentSeq[<<k, "command">>] = i
    BY <2>1, <2>2 DEF IInv, LogNumbered
  <2>4. /\ Logged(<<k, "preflight">>)
        /\ sentSeq[<<k, "command">>] = sentSeq[<<k, "preflight">>] + 1
    BY <2>1, <2>2, <2>3 DEF IInv, GuardHeld
  <2>5. sentSeq[<<k, "preflight">>] = i - 1 /\ i > 1
    BY <2>2, <2>3, <2>4 DEF Logged
  <2> QED
    BY <2>4, <2>5 DEF Logged
<1> QED
  BY <1>1, ChannelInvariant, PTL

(***************************************************************************)
(* After a taint                                                           *)
(***************************************************************************)

\* No number is further ahead than the next one; what is on the wire has one.
Counted == \A r \in Requests : sentSeq[r] <= seq + 1
Carried == \A i \in DOMAIN wire : wire[i].kind = "truncated" \/ sentSeq[wire[i].req] # 0

\* Of what is on the wire with the next number, r comes first.
First(r) ==
    \E i \in DOMAIN wire :
        /\ wire[i].req = r /\ wire[i].kind # "truncated"
        /\ \A j \in 1..(i - 1) : \/ wire[j].kind = "truncated" \/ wire[j].req = r
                                 \/ sentSeq[wire[j].req] # seq + 1

\* The next number is r's: it was accepted, or will be, or nothing is any more.
Claims(r) == Logged(r) \/ (lastSeq = seq /\ (~alive \/ First(r)))

Flight == ~tainted => /\ late = {}
                      /\ \A c \in Callers : pc[c] = "waiting" => Claims(Req(c))

\* The request whose fate is unknown keeps the next number for ever: nobody
\* waits for it, so its answer is never read and the number never committed.
Barrier ==
    tainted => \E r \in Requests :
        /\ sentSeq[r] = seq + 1 /\ r[1] \notin late
        /\ \A c \in Callers : pc[c] = "waiting" => Req(c) # r
        /\ Claims(r)

Barred == \A i \in 1..Len(log) : log[i][1] \notin late

TaintInv == Counted /\ Carried /\ Flight /\ Barrier /\ Barred

\* A number is given once, by Send, and is the next one.
LEMMA NumberStep ==
    ASSUME TypeOK, Ownership, Unsent, [Next]_vars, NEW r \in Requests
    PROVE  \/ sentSeq'[r] = sentSeq[r]
           \/ /\ sentSeq[r] = 0 /\ sentSeq'[r] = seq + 1 /\ seq' = seq
              /\ \E c \in Callers : Send(c) /\ r = Req(c)
<1> USE DEF sessionVars, callerVars, netVars, vivadoVars, stopVars
<1>1. ASSUME NEW c \in Callers, Send(c)
      PROVE  \/ sentSeq'[r] = sentSeq[r]
             \/ sentSeq[r] = 0 /\ sentSeq'[r] = seq + 1 /\ seq' = seq /\ r = Req(c)
  <2>1. sentSeq[Req(c)] = 0 /\ seq' = seq /\ sentSeq' = [sentSeq EXCEPT ![Req(c)] = seq + 1]
    BY <1>1 DEF Send, Unsent
  <2> QED
    BY <2>1 DEF TypeOK, NetType
<1>2. ASSUME NEW c \in Callers, ThreadStep(c), ~Send(c) PROVE sentSeq' = sentSeq
  BY <1>2
  DEF ThreadStep, Acquire, Returns, SendFails, EndsPreflight, ReadResult, StartsCommand,
      Verify, FinishTaint, Timeout, BadReply, MarkTainted
<1>3. ASSUME NEW c \in Callers, NEW k \in Calls, RunTcl(c, k) PROVE sentSeq' = sentSeq
  BY <1>3 DEF RunTcl
<1>4. CASE OtherStep
  BY <1>4
  DEF OtherStep, Accept, Reject, Complete, ProcessExits, Replay, Stopper, StopBegin,
      StopTerminate, StopFinish, vars
<1> QED
  BY <1>1, <1>2, <1>3, <1>4, StepCases

\* The client's number moves only when a result is read.
LEMMA SeqStep ==
    ASSUME TypeOK, [Next]_vars
    PROVE  seq' = seq \/ (seq' = seq + 1 /\ \E c \in Callers : ReadResult(c))
<1> USE DEF sessionVars, callerVars, netVars, vivadoVars, stopVars
<1>1. ASSUME NEW c \in Callers, ReadResult(c) PROVE seq' = seq + 1
  BY <1>1 DEF ReadResult
<1>2. ASSUME NEW c \in Callers, ThreadStep(c), ~ReadResult(c) PROVE seq' = seq
  BY <1>2
  DEF ThreadStep, Acquire, Send, Returns, SendFails, EndsPreflight, StartsCommand,
      Verify, FinishTaint, Timeout, BadReply, MarkTainted
<1>3. ASSUME NEW c \in Callers, NEW k \in Calls, RunTcl(c, k) PROVE seq' = seq
  BY <1>3 DEF RunTcl
<1>4. CASE OtherStep
  BY <1>4
  DEF OtherStep, Accept, Reject, Complete, ProcessExits, Replay, Stopper, StopBegin,
      StopTerminate, StopFinish, vars
<1> QED
  BY <1>1, <1>2, <1>3, <1>4, StepCases

\* A thread waits because it has just sent, or waits on for the same request.
LEMMA WaitStep ==
    ASSUME TypeOK, Ownership, [Next]_vars, NEW c \in Callers, pc'[c] = "waiting"
    PROVE  Send(c) \/ (pc[c] = "waiting" /\ Req(c)' = Req(c) /\ seq' = seq)
<1> USE DEF sessionVars, callerVars, netVars, vivadoVars, stopVars
<1>1. ASSUME NEW d \in Callers, NEW k \in Calls, RunTcl(d, k)
      PROVE  pc[c] = "waiting" /\ Req(c)' = Req(c) /\ seq' = seq
  BY <1>1 DEF RunTcl, Req, TypeOK, CallerType
<1>2. ASSUME NEW d \in Callers, ThreadStep(d), ~ReadResult(d)
      PROVE  Send(c) \/ (pc[c] = "waiting" /\ Req(c)' = Req(c) /\ seq' = seq)
  <2>1. CASE Acquire(d)
    BY <2>1 DEF Acquire, Req, TypeOK, CallerType
  <2>2. CASE Send(d)
    BY <2>2 DEF Send, Req, TypeOK, CallerType
  <2>3. CASE Returns(d)
    <3>1. c # d /\ pc'[c] = pc[c] /\ cur'[c] = cur[c] /\ stage'[c] = stage[c]
      BY <2>3, ReturnsReturn, ReturnKeeps
    <3>2. seq' = seq
      BY <1>2, <2>3 DEF Returns, SendFails, Verify, FinishTaint
    <3> QED
      BY <3>1, <3>2 DEF Req
  <2>4. CASE StartsCommand(d)
    BY <2>4 DEF StartsCommand, Verify, Req, TypeOK, CallerType
  <2>5. CASE Timeout(d) \/ BadReply(d)
    BY <2>5 DEF Timeout, BadReply, MarkTainted, Req, TypeOK, CallerType
  <2> QED
    BY <1>2, <2>1, <2>2, <2>3, <2>4, <2>5 DEF ThreadStep, EndsPreflight
<1>3. ASSUME NEW d \in Callers, ReadResult(d) PROVE FALSE
  <2>1. pc[d] = "waiting" /\ \A e \in Callers \ {d} : pc'[e] = pc[e]
    BY <1>3 DEF ReadResult, Return, TypeOK, CallerType
  <2>2. pc'[d] # "waiting"
    BY <1>3 DEF ReadResult, Return, TypeOK, CallerType
  <2>3. c # d /\ pc[c] = "waiting"
    BY <2>1, <2>2
  <2> QED
    BY <2>1, <2>3, Alone DEF Inside
<1>4. CASE OtherStep
  <2>1. UNCHANGED <<pc, cur, stage, seq>>
    BY <1>4
    DEF OtherStep, Accept, Reject, Complete, ProcessExits, Replay, Stopper, StopBegin,
        StopTerminate, StopFinish, vars
  <2> QED
    BY <2>1 DEF Req
<1> QED
  BY <1>1, <1>2, <1>3, <1>4, StepCases

\* A process that has ended stays so, and a taint is never taken back.
LEMMA Lasting ==
    ASSUME [Next]_vars, TypeOK
    PROVE  (~alive => ~alive') /\ (tainted => tainted')
<1> USE DEF sessionVars, callerVars, netVars, vivadoVars, stopVars
<1>1. ASSUME NEW c \in Callers, ThreadStep(c)
      PROVE  (~alive => ~alive') /\ (tainted => tainted')
  BY <1>1
  DEF ThreadStep, Acquire, Send, Returns, SendFails, EndsPreflight, ReadResult,
      StartsCommand, Verify, FinishTaint, Timeout, BadReply, MarkTainted, Terminate, Dies
<1>2. ASSUME NEW c \in Callers, NEW k \in Calls, RunTcl(c, k)
      PROVE  (~alive => ~alive') /\ (tainted => tainted')
  BY <1>2 DEF RunTcl
<1>3. CASE OtherStep /\ ~Stopper
  <2>1. tainted' = tainted
    BY <1>3 DEF OtherStep, Accept, Reject, Complete, ProcessExits, Replay, vars
  <2>2. ~alive => alive' = alive
    BY <1>3 DEF OtherStep, Accept, Reject, Complete, ProcessExits, Replay, vars
  <2> QED
    BY <2>1, <2>2
<1>4. CASE Stopper
  <2>1. tainted' = tainted
    BY <1>4 DEF Stopper, StopBegin, StopTerminate, StopFinish
  <2>2. ~alive => ~alive'
    BY <1>4 DEF Stopper, StopBegin, StopTerminate, StopFinish, Terminate, Dies
  <2> QED
    BY <2>1, <2>2
<1> QED
  BY <1>1, <1>2, <1>3, <1>4, StepCases

\* What a step may do to the wire.
LEMMA WireStep ==
    ASSUME TypeOK, [Next]_vars
    PROVE  \/ wire' = wire
           \/ wire' = << >> /\ ~alive'
           \/ (Accept \/ Reject) /\ wire # << >> /\ wire' = Tail(wire)
           \/ \E item \in Items : /\ wire' = Append(wire, item)
                                  /\ item.kind = "truncated" \/ sentSeq'[item.req] # 0
<1> USE DEF sessionVars, callerVars, netVars, vivadoVars, stopVars
<1>1. ASSUME Terminate \/ Dies PROVE wire' = wire \/ (wire' = << >> /\ ~alive')
  BY <1>1 DEF Terminate, Dies
<1>2. ASSUME NEW c \in Callers, SendFails(c)
      PROVE  wire' = wire \/ \E item \in Items :
                wire' = Append(wire, item) /\ item.kind = "truncated"
  <2>1. Req(c) \in Requests
    BY <1>2, ReqType DEF SendFails, TypeOK, LockType
  <2>2. [req |-> Req(c), kind |-> "truncated"] \in Items
    BY <2>1 DEF Items, Kinds
  <2>3. wire' = wire \/ wire' = Append(wire, [req |-> Req(c), kind |-> "truncated"])
    BY <1>2, Zenon DEF SendFails
  <2> QED
    BY <2>2, <2>3
<1>3. ASSUME NEW c \in Callers, Send(c)
      PROVE  \E item \in Items : wire' = Append(wire, item) /\ sentSeq'[item.req] # 0
  <2>1. Req(c) \in Requests
    BY <1>3, ReqType DEF Send, TypeOK, LockType
  <2>2. [req |-> Req(c), kind |-> "whole"] \in Items
    BY <2>1 DEF Items, Kinds
  <2>3. wire' = Append(wire, [req |-> Req(c), kind |-> "whole"]) /\ sentSeq'[Req(c)] # 0
    BY <1>3, <2>1 DEF Send, TypeOK, NetType, SessionType
  <2> QED
    BY <2>2, <2>3
<1>4. ASSUME NEW c \in Callers, ThreadStep(c), ~SendFails(c), ~Send(c)
      PROVE  wire' = wire \/ (wire' = << >> /\ ~alive')
  BY <1>1, <1>4
  DEF ThreadStep, Acquire, Returns, EndsPreflight, ReadResult, StartsCommand, Verify,
      FinishTaint, Timeout, BadReply, MarkTainted
<1>5. ASSUME NEW c \in Callers, NEW k \in Calls, RunTcl(c, k) PROVE wire' = wire
  BY <1>5 DEF RunTcl
<1>6. ASSUME NEW r \in Requests, Replay(r)
      PROVE  \E item \in Items : wire' = Append(wire, item) /\ sentSeq'[item.req] # 0
  <2>1. [req |-> r, kind |-> "replay"] \in Items
    BY DEF Items, Kinds
  <2> QED
    BY <1>6, <2>1 DEF Replay
<1>7. CASE OtherStep /\ \A r \in Requests : ~Replay(r)
  BY <1>1, <1>7
  DEF OtherStep, Accept, Reject, Complete, ProcessExits, Stopper, StopBegin, StopTerminate,
      StopFinish, vars
<1> QED
  BY <1>2, <1>3, <1>4, <1>5, <1>6, <1>7, StepCases DEF OtherStep

LEMMA WireType ==
    ASSUME TypeOK
    PROVE  /\ wire \in Seq(Items) /\ Len(wire) \in Nat /\ DOMAIN wire = 1..Len(wire)
           /\ \A i \in DOMAIN wire : wire[i] \in Items /\ wire[i].req \in Requests
<1>1. wire \in Seq(Items)
  BY DEF TypeOK, NetType
<1>2. Len(wire) \in Nat /\ DOMAIN wire = 1..Len(wire) /\ wire \in [1..Len(wire) -> Items]
  BY <1>1, LenProperties
<1> QED
  BY <1>1, <1>2 DEF Items

\* A request keeps its number once it has one.
LEMMA NumberKept ==
    ASSUME TypeOK, Ownership, Unsent, [Next]_vars, NEW r \in Requests, sentSeq[r] # 0
    PROVE  sentSeq'[r] = sentSeq[r]
  BY NumberStep

LEMMA CountedStep ==
    ASSUME TypeOK, TypeOK', Ownership, Unsent, Counted, [Next]_vars
    PROVE  Counted'
<1>1. SUFFICES ASSUME NEW r \in Requests PROVE sentSeq'[r] <= seq' + 1
  BY DEF Counted
<1>2. sentSeq[r] \in Nat /\ seq \in Nat /\ sentSeq[r] <= seq + 1
  BY DEF Counted, TypeOK, NetType, SessionType
<1>3. seq' \in {seq, seq + 1}
  BY SeqStep
<1> QED
  BY <1>2, <1>3, NumberStep

LEMMA CarriedStep ==
    ASSUME TypeOK, Ownership, Unsent, Carried, [Next]_vars
    PROVE  Carried'
<1> DEFINE Fine(item) == item.kind = "truncated" \/ sentSeq'[item.req] # 0
<1>1. \A i \in DOMAIN wire : Fine(wire[i])
  <2>1. SUFFICES ASSUME NEW i \in DOMAIN wire, wire[i].kind # "truncated"
                 PROVE  sentSeq'[wire[i].req] # 0
    OBVIOUS
  <2>2. sentSeq[wire[i].req] # 0 /\ wire[i].req \in Requests
    BY <2>1, WireType DEF Carried
  <2> QED
    BY <2>2, NumberKept
<1>2. SUFFICES \A i \in DOMAIN wire' : Fine(wire'[i])
  BY DEF Carried
<1>3. CASE wire' = wire
  BY <1>1, <1>3
<1>4. CASE wire' = << >>
  BY <1>4
<1>5. CASE wire # << >> /\ wire' = Tail(wire)
  <2>1. \A i \in DOMAIN wire' : i + 1 \in DOMAIN wire /\ wire'[i] = wire[i + 1]
    BY <1>5, WireType
  <2> QED
    BY <1>1, <2>1
<1>6. ASSUME NEW item \in Items, wire' = Append(wire, item), Fine(item)
      PROVE  \A i \in DOMAIN wire' : Fine(wire'[i])
  <2>1. \A i \in DOMAIN wire' : wire'[i] = item \/ (i \in DOMAIN wire /\ wire'[i] = wire[i])
    BY <1>6, WireType
  <2> QED
    BY <1>1, <1>6, <2>1
<1> QED
  BY <1>3, <1>4, <1>5, <1>6, WireStep

\* The server's number moves only when it accepts.
LEMMA LastSeqStep ==
    ASSUME [Next]_vars, ~Accept
    PROVE  lastSeq' = lastSeq /\ log' = log
<1> USE DEF sessionVars, callerVars, netVars, vivadoVars, stopVars
<1>1. ASSUME NEW c \in Callers, ThreadStep(c) PROVE lastSeq' = lastSeq /\ log' = log
  BY <1>1
  DEF ThreadStep, Acquire, Send, Returns, SendFails, EndsPreflight, ReadResult,
      StartsCommand, Verify, FinishTaint, Timeout, BadReply, MarkTainted
<1>2. ASSUME NEW c \in Callers, NEW k \in Calls, RunTcl(c, k)
      PROVE  lastSeq' = lastSeq /\ log' = log
  BY <1>2 DEF RunTcl
<1>3. CASE OtherStep
  BY <1>3
  DEF OtherStep, Reject, Complete, ProcessExits, Replay, Stopper, StopBegin,
      StopTerminate, StopFinish, vars
<1> QED
  BY <1>1, <1>2, <1>3, StepCases

\* What the server accepts is the last entry of its log.
LEMMA AcceptLogs ==
    ASSUME TypeOK, LogNumbered, Accept, NEW r, r = Head(wire).req
    PROVE  /\ r \in Requests /\ Logged(r)'
           /\ log' = Append(log, r)
           /\ sentSeq' = sentSeq /\ sentSeq[r] = lastSeq + 1
<1>1. r \in Requests /\ log \in Seq(Requests)
  BY HeadType DEF Accept, TypeOK, VivadoType
<1>2. /\ sentSeq' = sentSeq /\ sentSeq[r] = lastSeq + 1
      /\ log' = Append(log, r) /\ Len(log) = lastSeq
  BY DEF Accept, InSequence, LogNumbered
<1>3. /\ Len(log') = Len(log) + 1 /\ log'[Len(log) + 1] = r
      /\ Len(log) \in Nat
  BY <1>1, <1>2, AppendProperties, LenProperties
<1> QED
  BY <1>1, <1>2, <1>3 DEF Logged

\* The wire is a queue: what comes first stays first until it is served, and the
\* server accepts no other request with the next number before it.
LEMMA FirstStep ==
    ASSUME TypeOK, Ownership, Unsent, LogNumbered, Carried, [Next]_vars,
           NEW r \in Requests, sentSeq[r] = seq + 1, seq' = seq, lastSeq = seq, First(r)
    PROVE  First(r)' \/ ~alive' \/ Logged(r)'
<1>1. PICK i \in DOMAIN wire :
        /\ wire[i].req = r /\ wire[i].kind # "truncated"
        /\ \A j \in 1..(i - 1) : \/ wire[j].kind = "truncated" \/ wire[j].req = r
                                 \/ sentSeq[wire[j].req] # seq + 1
  BY DEF First
<1> DEFINE Behind(item) == \/ item.kind = "truncated" \/ item.req = r
                           \/ sentSeq'[item.req] # seq' + 1
<1>2. \A j \in 1..(i - 1) : Behind(wire[j])
  <2>1. SUFFICES ASSUME NEW j \in 1..(i - 1), wire[j].kind # "truncated", wire[j].req # r
                 PROVE  sentSeq'[wire[j].req] # seq' + 1
    OBVIOUS
  <2>2. j \in DOMAIN wire
    BY WireType
  <2>3. wire[j].req \in Requests /\ sentSeq[wire[j].req] # 0 /\ sentSeq[wire[j].req] # seq + 1
    BY <1>1, <2>1, <2>2, WireType DEF Carried
  <2>4. sentSeq'[wire[j].req] = sentSeq[wire[j].req]
    BY <2>3, NumberKept
  <2> QED
    BY <2>3, <2>4
<1>3. CASE wire' = wire
  BY <1>1, <1>2, <1>3 DEF First
<1>4. CASE wire # << >> /\ wire' = Tail(wire) /\ (Accept \/ Reject)
  <2>1. i \in 1..Len(wire) /\ Len(wire) \in Nat /\ Head(wire) = wire[1]
    BY <1>4, WireType
  <2>2. CASE i = 1
    <3>1. InSequence(Head(wire)) /\ Head(wire).req = r
      BY <1>1, <2>1, <2>2 DEF InSequence
    <3>2. Accept
      BY <1>4, <3>1 DEF Reject
    <3> QED
      BY <3>1, <3>2, AcceptLogs
  <2>3. CASE i # 1 /\ Accept
    <3>1. InSequence(Head(wire)) /\ 1 \in 1..(i - 1)
      BY <2>1, <2>3 DEF Accept
    <3>2. Head(wire).req = r
      BY <1>1, <2>1, <3>1 DEF InSequence
    <3> QED
      BY <2>3, <3>2, AcceptLogs
  <2>4. CASE i # 1
    <3>1. i - 1 \in DOMAIN wire' /\ \A j \in 1..(i - 1) : wire'[j] = wire[j + 1]
      BY <1>4, <2>1, <2>4, WireType
    <3>2. wire'[i - 1] = wire[i]
      BY <2>1, <2>4, <3>1
    <3>3. ASSUME NEW j \in 1..(i - 2) PROVE Behind(wire'[j])
      <4>1. j \in 1..(i - 1) /\ j + 1 \in 1..(i - 1)
        BY <2>1
      <4>2. wire'[j] = wire[j + 1] /\ Behind(wire[j + 1])
        BY <1>2, <3>1, <4>1
      <4> QED
        BY <4>2
    <3>4. (i - 1) - 1 = i - 2
      BY <2>1
    <3> QED
      BY <1>1, <3>1, <3>2, <3>3, <3>4 DEF First
  <2> QED
    BY <1>4, <2>2, <2>3, <2>4
<1>5. ASSUME NEW item \in Items, wire' = Append(wire, item) PROVE First(r)'
  <2>1. i \in 1..Len(wire) /\ Len(wire) \in Nat
    BY WireType
  <2>2. i \in DOMAIN wire' /\ \A j \in 1..i : wire'[j] = wire[j]
    BY <1>5, <2>1, WireType
  <2>3. wire'[i] = wire[i] /\ \A j \in 1..(i - 1) : wire'[j] = wire[j]
    BY <2>1, <2>2
  <2> QED
    BY <1>1, <1>2, <2>2, <2>3 DEF First
<1> QED
  BY <1>3, <1>4, <1>5, WireStep

LEMMA ClaimStep ==
    ASSUME TypeOK, Ownership, Unsent, LogNumbered, Carried, [Next]_vars,
           NEW r \in Requests, sentSeq[r] = seq + 1, seq' = seq, Claims(r)
    PROVE  Claims(r)'
<1>1. CASE Logged(r)
  BY <1>1, LoggedStep DEF Claims
<1>2. CASE lastSeq = seq /\ ~Accept
  <2>1. lastSeq' = lastSeq
    BY <1>2, LastSeqStep
  <2>2. CASE ~alive
    BY <1>2, <2>1, <2>2, Lasting DEF Claims
  <2>3. CASE First(r)
    BY <1>2, <2>1, <2>3, FirstStep DEF Claims
  <2> QED
    BY <1>1, <2>2, <2>3 DEF Claims
<1>3. CASE lastSeq = seq /\ Accept
  <2>1. alive /\ InSequence(Head(wire)) /\ wire # << >>
    BY <1>3 DEF Accept
  <2>2. CASE First(r)
    <3>1. PICK i \in DOMAIN wire :
            /\ wire[i].req = r /\ wire[i].kind # "truncated"
            /\ \A j \in 1..(i - 1) : \/ wire[j].kind = "truncated" \/ wire[j].req = r
                                     \/ sentSeq[wire[j].req] # seq + 1
      BY <2>2 DEF First
    <3>2. Head(wire) = wire[1] /\ i \in 1..Len(wire) /\ Len(wire) \in Nat
      BY <2>1, WireType
    <3>3. Head(wire).req = r
      BY <1>3, <2>1, <3>1, <3>2 DEF InSequence
    <3> QED
      BY <1>3, <3>3, AcceptLogs DEF Claims
  <2> QED
    BY <1>1, <2>1, <2>2 DEF Claims
<1> QED
  BY <1>1, <1>2, <1>3 DEF Claims

\* Calls that are made after a taint are late; a call is late only if it has not
\* been made before, so that nothing of it has been sent.
LEMMA LateStep ==
    ASSUME TypeOK, [Next]_vars
    PROVE  \/ late' = late
           \/ /\ tainted /\ tainted'
              /\ \E k \in Calls : outcome[k] = "none" /\ late' = late \cup {k}
<1> USE DEF sessionVars, callerVars, netVars, vivadoVars, stopVars
<1>1. ASSUME NEW c \in Callers, ThreadStep(c) PROVE late' = late
  BY <1>1
  DEF ThreadStep, Acquire, Send, Returns, SendFails, EndsPreflight, ReadResult,
      StartsCommand, Verify, FinishTaint, Timeout, BadReply, MarkTainted, Return
<1>2. ASSUME NEW c \in Callers, NEW k \in Calls, RunTcl(c, k)
      PROVE  late' = late \/ (tainted /\ tainted' /\ outcome[k] = "none" /\ late' = late \cup {k})
  BY <1>2 DEF RunTcl
<1>3. CASE OtherStep
  BY <1>3
  DEF OtherStep, Accept, Reject, Complete, ProcessExits, Replay, Stopper, StopBegin,
      StopTerminate, StopFinish, vars
<1> QED
  BY <1>1, <1>2, <1>3, StepCases

\* A request that has a number does not become late.
LEMMA SentNotLate ==
    ASSUME TypeOK, Unsent, [Next]_vars, NEW r \in Requests, sentSeq[r] # 0, r[1] \notin late
    PROVE  r[1] \notin late'
<1>1. r[1] \in Calls /\ r \in {<<r[1], "preflight">>, <<r[1], "command">>}
  BY DEF Requests, Stages
<1>2. outcome[r[1]] # "none"
  BY <1>1 DEF Unsent
<1> QED
  BY <1>2, LateStep

\* Only a thread that waits can taint the session.
LEMMA TaintStep ==
    ASSUME TypeOK, [Next]_vars, ~tainted, tainted'
    PROVE  \E c \in Callers : /\ pc[c] = "waiting" /\ pc'[c] = "tainting"
                             /\ UNCHANGED <<cur, stage, late, sentSeq, seq, lastSeq, log, wire, alive>>
<1> USE DEF sessionVars, callerVars, netVars, vivadoVars, stopVars
<1>1. ASSUME NEW c \in Callers, ThreadStep(c), ~Timeout(c), ~BadReply(c)
      PROVE  tainted' = tainted
  BY <1>1
  DEF ThreadStep, Acquire, Send, Returns, SendFails, EndsPreflight, ReadResult,
      StartsCommand, Verify, FinishTaint
<1>2. ASSUME NEW c \in Callers, Timeout(c) \/ BadReply(c)
      PROVE  /\ pc[c] = "waiting" /\ pc'[c] = "tainting"
             /\ UNCHANGED <<cur, stage, late, sentSeq, seq, lastSeq, log, wire, alive>>
  BY <1>2 DEF Timeout, BadReply, MarkTainted, TypeOK, CallerType
<1>3. ASSUME NEW c \in Callers, NEW k \in Calls, RunTcl(c, k) PROVE tainted' = tainted
  BY <1>3 DEF RunTcl
<1>4. CASE OtherStep
  <2>1. tainted' = tainted
    BY <1>4
    DEF OtherStep, Accept, Reject, Complete, ProcessExits, Replay, Stopper, StopBegin,
        StopTerminate, StopFinish, vars
  <2> QED
    BY <2>1
<1> QED
  BY <1>1, <1>2, <1>3, <1>4, StepCases DEF ThreadStep

LEMMA FlightStep ==
    ASSUME IInv, Carried, Flight, [Next]_vars
    PROVE  Flight'
<1> USE DEF IInv
<1>1. SUFFICES ASSUME ~tainted'
               PROVE  late' = {} /\ \A c \in Callers : pc'[c] = "waiting" => Claims(Req(c))'
  BY DEF Flight
<1>2. ~tainted
  BY <1>1, Lasting
<1>3. late' = {}
  BY <1>2, LateStep DEF Flight
<1>4. ASSUME NEW c \in Callers, Send(c) PROVE Claims(Req(c))'
  <2>1. /\ pc[c] = "sending" /\ alive /\ UNCHANGED <<seq, lastSeq, cur, stage>>
        /\ wire' = Append(wire, [req |-> Req(c), kind |-> "whole"])
        /\ sentSeq' = [sentSeq EXCEPT ![Req(c)] = seq + 1]
    BY <1>4 DEF Send, sessionVars, vivadoVars
  <2>2. \A d \in Callers : pc[d] # "waiting"
    BY <2>1, Alone DEF Inside
  <2>3. lastSeq = seq /\ \A r \in Requests : sentSeq[r] <= seq
    BY <1>2, <2>2, InStep
  <2>4. Req(c) \in Requests /\ Req(c)' = Req(c) /\ seq \in Nat
    BY <2>1, ReqType DEF TypeOK, LockType, SessionType, Req
  <2> DEFINE item == [req |-> Req(c), kind |-> "whole"]
  <2>5. /\ Len(wire) + 1 \in DOMAIN wire' /\ wire'[Len(wire) + 1] = item
        /\ \A j \in 1..Len(wire) : wire'[j] = wire[j] /\ wire[j].req \in Requests
    BY <2>1, WireType
  <2>6. ASSUME NEW j \in 1..((Len(wire) + 1) - 1)
        PROVE  wire'[j].req = Req(c) \/ sentSeq'[wire'[j].req] # seq' + 1
    <3>1. j \in 1..Len(wire)
      BY WireType
    <3>2. wire'[j] = wire[j] /\ wire[j].req \in Requests
      BY <2>5, <3>1
    <3>3. CASE wire[j].req # Req(c)
      <4>1. sentSeq'[wire[j].req] = sentSeq[wire[j].req]
        BY <2>1, <3>2, <3>3 DEF TypeOK, NetType
      <4>2. sentSeq[wire[j].req] \in Nat /\ sentSeq[wire[j].req] <= seq
        BY <2>3, <3>2 DEF TypeOK, NetType
      <4> QED
        BY <2>1, <2>4, <3>2, <4>1, <4>2
    <3> QED
      BY <3>2, <3>3
  <2>7. First(Req(c))'
    BY <2>4, <2>5, <2>6 DEF First
  <2> QED
    BY <2>1, <2>3, <2>7 DEF Claims
<1>5. ASSUME NEW c \in Callers, pc[c] = "waiting", Req(c)' = Req(c), seq' = seq
      PROVE  Claims(Req(c))'
  <2>1. Req(c) \in Requests /\ sentSeq[Req(c)] = seq + 1 /\ Claims(Req(c))
    BY <1>2, <1>5, ReqType DEF TypeOK, LockType, Committed, Flight
  <2>2. ASSUME NEW r \in Requests, r = Req(c) PROVE Claims(r)'
    BY <1>5, <2>1, <2>2, ClaimStep
  <2> QED
    BY <1>5, <2>1, <2>2
<1> QED
  BY <1>3, <1>4, <1>5, WaitStep

LEMMA BarrierStep ==
    ASSUME IInv, Carried, Flight, Barrier, [Next]_vars
    PROVE  Barrier'
<1> USE DEF IInv
<1>1. SUFFICES ASSUME tainted' PROVE Barrier'
  BY DEF Barrier
<1>2. CASE tainted
  <2>1. PICK r \in Requests : /\ sentSeq[r] = seq + 1 /\ r[1] \notin late /\ Claims(r)
                             /\ \A c \in Callers : pc[c] = "waiting" => Req(c) # r
    BY <1>2 DEF Barrier
  <2>2. sentSeq[r] # 0 /\ seq \in Nat /\ lastSeq \in Nat
    BY <2>1 DEF TypeOK, SessionType, VivadoType
  <2>3. sentSeq'[r] = sentSeq[r] /\ r[1] \notin late'
    BY <2>1, <2>2, NumberKept, SentNotLate
  \* A result that is read belongs to a request with r's number, hence to r.
  <2>4. ASSUME NEW c \in Callers, ReadResult(c) PROVE FALSE
    <3>1. /\ pc[c] = "waiting" /\ Req(c) \in Requests /\ Logged(Req(c))
          /\ sentSeq[Req(c)] = seq + 1
      BY <2>4, ReqType DEF ReadResult, TypeOK, LockType, Heard, Committed
    <3>2. lastSeq # seq
      BY <2>2, <3>1, LoggedBound
    <3>3. Logged(r)
      BY <2>1, <3>2 DEF Claims
    <3> QED
      BY <2>1, <3>1, <3>3 DEF Logged
  <2>5. seq' = seq
    BY <2>4, SeqStep
  <2>6. Claims(r)'
    BY <2>1, <2>5, ClaimStep
  <2>7. ASSUME NEW c \in Callers, pc'[c] = "waiting" PROVE Req(c)' # r
    <3>1. CASE Send(c)
      <4>1. sentSeq[Req(c)] = 0 /\ Req(c)' = Req(c)
        BY <3>1 DEF Send, Unsent, Req
      <4> QED
        BY <2>2, <4>1
    <3> QED
      BY <2>1, <2>7, <3>1, WaitStep
  <2> QED
    BY <2>1, <2>3, <2>5, <2>6, <2>7 DEF Barrier
<1>3. CASE ~tainted
  <2>1. PICK c \in Callers :
          /\ pc[c] = "waiting" /\ pc'[c] = "tainting"
          /\ UNCHANGED <<cur, stage, late, sentSeq, seq, lastSeq, log, wire, alive>>
    BY <1>1, <1>3, TaintStep
  <2>2. Req(c) \in Requests /\ sentSeq[Req(c)] = seq + 1 /\ Claims(Req(c)) /\ late = {}
    BY <1>3, <2>1, ReqType DEF TypeOK, LockType, Committed, Flight
  <2>3. PICK r \in Requests : r = Req(c)
    BY <2>2
  <2>4. sentSeq'[r] = seq' + 1 /\ r[1] \notin late'
    BY <2>1, <2>2, <2>3
  <2>5. Claims(r)'
    BY <2>1, <2>2, <2>3 DEF Claims, Logged, First
  <2>6. ASSUME NEW d \in Callers, pc'[d] = "waiting" PROVE FALSE
    <3>1. pc[d] = "waiting" \/ Send(d)
      BY <2>6, WaitStep
    <3>2. Inside(c) /\ Inside(d)
      BY <2>1, <3>1 DEF Inside, Send
    <3> QED
      BY <2>1, <2>6, <3>2, Alone
  <2> QED
    BY <2>4, <2>5, <2>6 DEF Barrier
<1> QED
  BY <1>2, <1>3

LEMMA BarredStep ==
    ASSUME IInv, Counted, Flight, Barrier, Barred, [Next]_vars
    PROVE  Barred'
<1> USE DEF IInv
<1>0. log \in Seq(Requests) /\ Len(log) \in Nat /\ Len(log) = lastSeq /\ seq \in Nat
  BY LenProperties DEF TypeOK, VivadoType, LogNumbered, SessionType
<1>1. ASSUME NEW i \in 1..Len(log) PROVE log[i][1] \notin late'
  <2>1. log[i] \in Requests /\ sentSeq[log[i]] = i /\ log[i][1] \notin late
    BY <1>0, <1>1, ElementOfSeq DEF LogNumbered, Barred
  <2> QED
    BY <1>0, <2>1, SentNotLate
<1>2. CASE ~Accept
  BY <1>1, <1>2, LastSeqStep DEF Barred
<1>3. CASE Accept
  <2>1. PICK q : q = Head(wire).req
    OBVIOUS
  <2>2. q \in Requests /\ log' = Append(log, q) /\ sentSeq[q] = lastSeq + 1
    BY <1>3, <2>1, AcceptLogs
  <2>3. late' = late /\ alive
    BY <1>3 DEF Accept, callerVars
  <2>4. q[1] \notin late
    <3>1. CASE ~tainted
      BY <3>1 DEF Flight
    <3>2. CASE tainted
      <4>1. PICK r \in Requests : sentSeq[r] = seq + 1 /\ r[1] \notin late /\ Claims(r)
        BY <3>2 DEF Barrier
      <4>2. lastSeq + 1 <= seq + 1
        BY <2>2 DEF Counted
      <4>3. ~Logged(r)
        BY <1>0, <4>1, <4>2 DEF Logged
      <4>4. lastSeq = seq /\ First(r)
        BY <2>3, <4>1, <4>3 DEF Claims
      <4>5. PICK i \in DOMAIN wire :
              /\ wire[i].req = r /\ wire[i].kind # "truncated"
              /\ \A j \in 1..(i - 1) : \/ wire[j].kind = "truncated" \/ wire[j].req = r
                                       \/ sentSeq[wire[j].req] # seq + 1
        BY <4>4 DEF First
      <4>6. Head(wire) = wire[1] /\ i \in 1..Len(wire) /\ Len(wire) \in Nat
        BY <1>3, WireType DEF Accept
      <4>7. q = r
        BY <1>3, <2>1, <2>2, <4>4, <4>5, <4>6 DEF Accept, InSequence
      <4> QED
        BY <4>1, <4>7
    <3> QED
      BY <3>1, <3>2
  <2>5. \A i \in 1..Len(log') : (i \in 1..Len(log) /\ log'[i] = log[i]) \/ log'[i] = q
    BY <1>0, <2>2, AppendProperties
  <2> QED
    BY <1>1, <2>3, <2>4, <2>5 DEF Barred
<1> QED
  BY <1>2, <1>3

LEMMA TaintInvInit == Init => TaintInv
  BY DEF Init, TaintInv, Counted, Carried, Flight, Barrier, Barred, Requests

LEMMA TaintInvStep == IInv /\ IInv' /\ TaintInv /\ [Next]_vars => TaintInv'
<1> SUFFICES ASSUME IInv, IInv', TaintInv, [Next]_vars PROVE TaintInv'
  OBVIOUS
<1>1. Counted' /\ Carried'
  BY CountedStep, CarriedStep DEF IInv, TaintInv
<1>2. Flight' /\ Barrier' /\ Barred'
  BY FlightStep, BarrierStep, BarredStep DEF TaintInv
<1> QED
  BY <1>1, <1>2 DEF TaintInv

\* What is submitted to a generation after its taint never runs in it, although
\* run_tcl looks at the state without the lock and stop() may write over it: the
\* request whose fate is unknown stands before it with the number it would need.
THEOREM NothingRunsAfterTaintHolds == Spec => []NothingRunsAfterTaint
<1>1. Spec => []TaintInv
  BY TaintInvInit, TaintInvStep, ChannelInvariant, PTL DEF Spec
<1>2. IInv /\ TaintInv => NothingRunsAfterTaint
  <2>1. SUFFICES ASSUME IInv, Barred, NEW k \in late, NEW i \in DOMAIN log,
                        log[i] = <<k, "command">>
                 PROVE  FALSE
    BY DEF TaintInv, NothingRunsAfterTaint, Ran
  <2>2. i \in 1..Len(log)
    BY <2>1, LenProperties DEF IInv, TypeOK, VivadoType
  <2>3. log[i][1] = k
    BY <2>1
  <2> QED
    BY <2>1, <2>2, <2>3 DEF Barred
<1> QED
  BY <1>1, <1>2, ChannelInvariant, PTL

(***************************************************************************)
(* The contract                                                            *)
(***************************************************************************)

\* What a delayed answer says, and which calls have a preflight.
Doubt == \A c \in Callers :
    /\ pc[c] = "tainting" => pending[c] \in {"timeout", "blocked", "protocol_failure"}
    /\ cur[c] # NoCall /\ stage[c] = "preflight" => cur[c] \in Guarded

\* A command that was refused has no number and gets none; one that is done is
\* in Vivado's log.
Refused(o)  == o \in {"tainted", "oserror"}
Done(k, o)  == o = "ok" \/ (o = "error" /\ k \notin Guarded)
Answers == \A k \in Calls :
    /\ Refused(outcome[k]) => sentSeq[<<k, "command">>] = 0
    /\ Done(k, outcome[k]) => Logged(<<k, "command">>)

LEMMA DoubtStep ==
    ASSUME TypeOK, Ownership, Doubt, [Next]_vars
    PROVE  Doubt'
<1> USE DEF sessionVars, callerVars, netVars, vivadoVars, stopVars
<1>1. ASSUME NEW c \in Callers, NEW k \in Calls, RunTcl(c, k) PROVE Doubt'
  BY <1>1 DEF RunTcl, Doubt, TypeOK, CallerType
<1>2. ASSUME NEW c \in Callers, ThreadStep(c) PROVE Doubt'
  <2>1. CASE Acquire(c)
    BY <2>1 DEF Acquire, Doubt, TypeOK, CallerType
  <2>2. CASE Send(c)
    BY <2>2 DEF Send, Doubt, TypeOK, CallerType
  <2>3. CASE Returns(c)
    <3>1. PICK o \in Outcomes : Return(c, o)
      BY <2>3, ReturnsReturn
    <3> QED
      BY <3>1 DEF Return, Doubt, TypeOK, CallerType
  <2>4. CASE EndsPreflight(c)
    BY <2>4 DEF EndsPreflight, ReadResult, Doubt, TypeOK, CallerType
  <2>5. CASE StartsCommand(c)
    BY <2>5 DEF StartsCommand, Verify, Doubt, TypeOK, CallerType
  <2>6. CASE Timeout(c) \/ BadReply(c)
    <3>1. PICK o \in {"timeout", "blocked", "protocol_failure"} : MarkTainted(c, o)
      BY <2>6 DEF Timeout, BadReply, Raised
    <3> QED
      BY <3>1 DEF MarkTainted, Doubt, TypeOK, CallerType
  <2> QED
    BY <1>2, <2>1, <2>2, <2>3, <2>4, <2>5, <2>6 DEF ThreadStep
<1>3. CASE OtherStep
  <2>1. UNCHANGED callerVars
    BY <1>3
    DEF OtherStep, Accept, Reject, Complete, ProcessExits, Replay, Stopper, StopBegin,
        StopTerminate, StopFinish, vars
  <2> QED
    BY <2>1 DEF Doubt
<1> QED
  BY <1>1, <1>2, <1>3, StepCases

\* How a call is answered: turned away as it is made, or by the thread that
\* works on it.
LEMMA OutcomeStep ==
    ASSUME TypeOK, Ownership, [Next]_vars, NEW k \in Calls
    PROVE  \/ outcome'[k] = outcome[k]
           \/ /\ UNCHANGED <<sentSeq, log>>
              /\ outcome' = [outcome EXCEPT ![k] = outcome'[k]]
              /\ \/ outcome[k] = "none" /\ outcome'[k] \in {"open", "tainted"}
                 \/ /\ outcome[k] = "open" /\ outcome'[k] \in Outcomes \ {"none", "open"}
                    /\ \E c \in Callers :
                          Returns(c) /\ cur[c] = k /\ Return(c, outcome'[k])
<1> USE DEF sessionVars, callerVars, netVars, vivadoVars, stopVars
<1>1. ASSUME NEW c \in Callers, NEW j \in Calls, RunTcl(c, j)
      PROVE  \/ outcome'[k] = outcome[k]
             \/ /\ UNCHANGED <<sentSeq, log>>
                /\ outcome' = [outcome EXCEPT ![k] = outcome'[k]]
                /\ outcome[k] = "none" /\ outcome'[k] \in {"open", "tainted"}
  BY <1>1 DEF RunTcl, TypeOK, CallerType
<1>2. ASSUME NEW c \in Callers, Returns(c)
      PROVE  \/ outcome'[k] = outcome[k]
             \/ /\ UNCHANGED <<sentSeq, log>>
                /\ outcome' = [outcome EXCEPT ![k] = outcome'[k]]
                /\ outcome[k] = "open" /\ outcome'[k] \in Outcomes \ {"none", "open"}
                /\ cur[c] = k /\ Return(c, outcome'[k])
  <2>1. PICK o \in Outcomes \ {"none", "open"} : Return(c, o)
    BY <1>2, ReturnsReturn
  <2>2. UNCHANGED <<sentSeq, log>>
    BY <1>2 DEF Returns, SendFails, ReadResult, Verify, FinishTaint
  <2>3. cur[c] # NoCall /\ cur[c] \in Calls /\ outcome[cur[c]] = "open"
    BY <1>2, ReturnsReturn DEF Inside, TypeOK, LockType, CallerType, Ownership
  <2>4. outcome' = [outcome EXCEPT ![cur[c]] = o]
    BY <2>1 DEF Return
  <2> QED
    BY <2>1, <2>2, <2>3, <2>4 DEF TypeOK, CallerType
<1>3. ASSUME NEW c \in Callers, ThreadStep(c), ~Returns(c) PROVE outcome' = outcome
  BY <1>3
  DEF ThreadStep, Acquire, Send, EndsPreflight, ReadResult, StartsCommand, Verify, Timeout,
      BadReply, MarkTainted
<1>4. CASE OtherStep
  BY <1>4
  DEF OtherStep, Accept, Reject, Complete, ProcessExits, Replay, Stopper, StopBegin,
      StopTerminate, StopFinish, vars
<1> QED
  BY <1>1, <1>2, <1>3, <1>4, StepCases

\* What a return tells is true of the command.
LEMMA ReturnTells ==
    ASSUME IInv, Doubt, NEW c \in Callers, Returns(c),
           NEW o \in Outcomes \ {"none", "open"}, Return(c, o)
    PROVE  /\ Refused(o) => sentSeq[<<cur[c], "command">>] = 0
           /\ Done(cur[c], o) => Logged(<<cur[c], "command">>)
<1> USE DEF IInv
<1>1. cur[c] \in Calls /\ cur[c] # NoCall /\ Inside(c)
  BY ReturnsReturn DEF Inside, TypeOK, LockType, CallerType
<1>2. outcome'[cur[c]] = o
  BY <1>1 DEF Return, TypeOK, CallerType
<1>3. ASSUME NEW p \in Outcomes, Return(c, p) PROVE o = p
  BY <1>1, <1>2, <1>3 DEF Return, TypeOK, CallerType
<1>4. CASE SendFails(c)
  <2>1. PICK p \in {"oserror", "timeout"} : Return(c, Raised(c, p))
    BY <1>4 DEF SendFails
  <2>2. o = Raised(c, p)
    BY <1>3, <2>1 DEF Raised, Outcomes
  <2>3. ~Done(cur[c], o)
    BY <2>2 DEF Raised, Done
  <2>4. stage[c] = "command" => sentSeq[<<cur[c], "command">>] = 0
    BY <1>4 DEF SendFails, Unsent, Req
  <2>5. stage[c] = "preflight" => sentSeq[<<cur[c], "command">>] = 0
    BY <1>1 DEF Unsent
  <2> QED
    BY <2>3, <2>4, <2>5 DEF TypeOK, CallerType, Stages
<1>5. CASE ReadResult(c) /\ ~(stage[c] = "preflight" /\ reply[Req(c)] = "ok")
  <2>1. reply[Req(c)] \in {"ok", "error"} /\ Return(c, reply[Req(c)])
    BY <1>5 DEF ReadResult
  <2>2. o = reply[Req(c)] /\ Req(c) \in Requests
    BY <1>1, <1>3, <2>1, ReqType DEF Outcomes
  <2>3. Logged(Req(c)) /\ ~Refused(o)
    BY <2>1, <2>2 DEF Heard, Refused
  <2>4. Done(cur[c], o) => stage[c] = "command"
    BY <1>1, <1>5, <2>1, <2>2 DEF Doubt, Done, TypeOK, CallerType, Stages
  <2> QED
    BY <2>3, <2>4 DEF Req
<1>6. CASE Verify(c) /\ Return(c, "blocked")
  <2>1. o = "blocked"
    BY <1>3, <1>6 DEF Outcomes
  <2> QED
    BY <2>1 DEF Refused, Done
<1>7. CASE FinishTaint(c)
  <2>1. pc[c] = "tainting" /\ Return(c, pending[c])
    BY <1>7 DEF FinishTaint
  <2>2. o = pending[c] /\ pending[c] \in {"timeout", "blocked", "protocol_failure"}
    BY <1>3, <2>1 DEF TypeOK, CallerType, Doubt
  <2> QED
    BY <2>2 DEF Refused, Done
<1> QED
  BY <1>4, <1>5, <1>6, <1>7 DEF Returns

LEMMA AnswersStep ==
    ASSUME IInv, Doubt, Answers, [Next]_vars
    PROVE  Answers'
<1> USE DEF IInv
<1>1. SUFFICES ASSUME NEW k \in Calls, NEW r, r = <<k, "command">>
               PROVE  /\ Refused(outcome'[k]) => sentSeq'[r] = 0
                      /\ Done(k, outcome'[k]) => Logged(r)'
  BY DEF Answers, Logged, Refused, Done
<1>2. r \in Requests
  BY <1>1 DEF Requests, Stages
<1>3. CASE outcome'[k] = outcome[k]
  <2>1. ASSUME Refused(outcome[k]) PROVE sentSeq'[r] = 0
    <3>1. sentSeq[r] = 0
      BY <1>1, <2>1 DEF Answers
    <3>2. ASSUME NEW c \in Callers, Send(c), r = Req(c) PROVE FALSE
      <4>1. cur[c] = k /\ cur[c] # NoCall
        BY <1>1, <3>2, ChannelAssumption DEF Send, Req, ChannelAssumption
      <4> QED
        BY <2>1, <4>1 DEF Ownership, Refused
    <3> QED
      BY <1>2, <3>1, <3>2, NumberStep
  <2>2. ASSUME Done(k, outcome[k]) PROVE Logged(r)'
    BY <1>1, <1>2, <2>2, LoggedStep DEF Answers
  <2> QED
    BY <1>3, <2>1, <2>2
<1>4. CASE /\ outcome[k] = "none" /\ outcome'[k] \in {"open", "tainted"}
           /\ UNCHANGED <<sentSeq, log>>
  BY <1>1, <1>4 DEF Unsent, Refused, Done
<1>5. ASSUME NEW c \in Callers, Returns(c), cur[c] = k, Return(c, outcome'[k]),
             outcome'[k] \in Outcomes \ {"none", "open"}, UNCHANGED <<sentSeq, log>>
      PROVE  /\ Refused(outcome'[k]) => sentSeq'[r] = 0
             /\ Done(k, outcome'[k]) => Logged(r)'
  BY <1>1, <1>5, ReturnTells DEF Logged
<1> QED
  BY <1>3, <1>4, <1>5, OutcomeStep

\* The command of a call is in the log once or not at all.
LEMMA EffectIs ==
    ASSUME IInv, NEW k \in Calls
    PROVE  /\ Logged(<<k, "command">>) => Effect(k) = 1
           /\ ~Logged(<<k, "command">>) => Effect(k) = 0
<1> DEFINE r == <<k, "command">>
           S == {i \in DOMAIN log : log[i] = r}
<1>1. DOMAIN log = 1..Len(log) /\ \A i \in 1..Len(log) : sentSeq[log[i]] = i
  BY LenProperties DEF IInv, TypeOK, VivadoType, LogNumbered
<1>2. Logged(r) => S = {sentSeq[r]}
  BY <1>1 DEF Logged
<1>3. ~Logged(r) => S = {}
  BY <1>1 DEF Logged
<1> QED
  BY <1>2, <1>3, FS_Singleton, FS_EmptySet DEF Effect

\* What an answer means to the caller.
LEMMA VerdictIs ==
    ASSUME TypeOK, NEW k \in Calls
    PROVE  /\ outcome[k] \in {"none", "open"} => Verdict(k) = outcome[k]
           /\ Done(k, outcome[k]) => Verdict(k) = "done"
           /\ Refused(outcome[k]) => Verdict(k) = "refused"
           /\ ~Done(k, outcome[k]) /\ ~Refused(outcome[k]) /\ outcome[k] \notin {"none", "open"}
                 => Verdict(k) = "unknown"
  BY DEF Verdict, Done, Refused

\* A command takes effect when the server accepts it, and never again.
LEMMA EffectStep ==
    ASSUME IInv, Accept, NEW k \in Calls
    PROVE  \/ Head(wire).req # <<k, "command">> /\ Effect(k)' = Effect(k)
           \/ /\ Head(wire).req = <<k, "command">> /\ Effect(k) = 0 /\ Effect(k)' = 1
              /\ sentSeq[<<k, "command">>] # 0 /\ ~Logged(<<k, "command">>)
<1> USE DEF IInv
<1>1. PICK r : r = Head(wire).req
  OBVIOUS
<1> DEFINE S == {i \in DOMAIN log : log[i] = <<k, "command">>}
           T == {i \in DOMAIN log' : log'[i] = <<k, "command">>}
<1>2. log' = Append(log, r) /\ sentSeq[r] = lastSeq + 1 /\ r \in Requests
  BY <1>1, AcceptLogs
<1>3. log \in Seq(Requests) /\ Len(log) \in Nat /\ lastSeq = Len(log)
  BY LenProperties DEF TypeOK, VivadoType, LogNumbered
<1>4. /\ DOMAIN log = 1..Len(log) /\ DOMAIN log' = 1..(Len(log) + 1)
      /\ log'[Len(log) + 1] = r /\ \A i \in 1..Len(log) : log'[i] = log[i]
  BY <1>2, <1>3, AppendProperties, LenProperties
<1>5. CASE r # <<k, "command">>
  <2>1. ASSUME NEW i \in 1..(Len(log) + 1) PROVE i \in S <=> i \in T
    <3>1. CASE i = Len(log) + 1
      BY <1>3, <1>4, <1>5, <3>1
    <3>2. CASE i \in 1..Len(log)
      <4>1. i \in DOMAIN log /\ i \in DOMAIN log' /\ log'[i] = log[i]
        BY <1>3, <1>4, <3>2
      <4> QED
        BY <4>1
    <3> QED
      BY <1>3, <3>1, <3>2
  <2>2. S \subseteq 1..(Len(log) + 1) /\ T \subseteq 1..(Len(log) + 1)
    BY <1>3, <1>4
  <2>3. S = T
    BY <2>1, <2>2
  <2> QED
    BY <1>1, <1>5, <2>3 DEF Effect
<1>6. CASE r = <<k, "command">>
  <2>1. ~Logged(<<k, "command">>) /\ sentSeq[<<k, "command">>] # 0
    BY <1>2, <1>3, <1>6 DEF Logged
  <2>2. ASSUME NEW i \in 1..Len(log), log[i] = r PROVE FALSE
    BY <1>2, <1>3, <2>2 DEF LogNumbered
  <2>3. S = {} /\ T = {Len(log) + 1}
    BY <1>3, <1>4, <1>6, <2>2
  <2>4. Cardinality(S) = 0 /\ Cardinality(T) = 1
    BY <2>3, FS_Singleton, FS_EmptySet
  <2> QED
    BY <1>1, <1>6, <2>1, <2>4 DEF Effect
<1> QED
  BY <1>5, <1>6

\* Every step of the channel is one of the contract's, or none of its business.
LEMMA ContractStep ==
    ASSUME IInv, IInv', Answers, Answers', Doubt, [Next]_vars
    PROVE  [Contract!Next]_(Contract!vars)
<1> USE DEF IInv
<1> DEFINE verdict == [k \in Calls |-> Verdict(k)]
           effect  == [k \in Calls |-> Effect(k)]
<1>1. CASE Accept
  <2>1. outcome' = outcome
    BY <1>1 DEF Accept, callerVars
  <2>2. verdict' = verdict
    BY <2>1 DEF Verdict
  <2>3. PICK r \in Requests : r = Head(wire).req
    BY <1>1, AcceptLogs
  <2>4. CASE r[2] = "command"
    <3>1. PICK k \in Calls : r = <<k, "command">>
      BY <2>4 DEF Requests
    <3>2. /\ Effect(k) = 0 /\ Effect(k)' = 1
          /\ sentSeq[<<k, "command">>] # 0 /\ ~Logged(<<k, "command">>)
      BY <1>1, <2>3, <3>1, EffectStep
    <3>3. ASSUME NEW j \in Calls, j # k PROVE Effect(j)' = Effect(j)
      <4>1. Head(wire).req # <<j, "command">>
        BY <2>3, <3>1, <3>3
      <4> QED
        BY <1>1, <4>1, EffectStep
    <3>4. effect' = [effect EXCEPT ![k] = 1]
      BY <3>2, <3>3
    <3>5. outcome[k] # "none" /\ ~Done(k, outcome[k]) /\ ~Refused(outcome[k])
      BY <3>2 DEF Unsent, Answers
    <3>6. verdict[k] \in {"open", "unknown"}
      BY <3>5, VerdictIs
    <3>7. Contract!TakeEffect(k)
      BY <2>2, <3>2, <3>4, <3>6 DEF Contract!TakeEffect
    <3> QED
      BY <3>7 DEF Contract!Next
  <2>5. CASE r[2] # "command"
    <3>1. ASSUME NEW k \in Calls PROVE Effect(k)' = Effect(k)
      <4>1. Head(wire).req # <<k, "command">>
        BY <2>3, <2>5
      <4> QED
        BY <1>1, <4>1, EffectStep
    <3>2. effect' = effect
      BY <3>1
    <3> QED
      BY <2>2, <3>2 DEF Contract!vars
  <2> QED
    BY <2>4, <2>5
<1>2. CASE ~Accept
  <2>1. \A k \in Calls : Effect(k)' = Effect(k)
    BY <1>2, LastSeqStep DEF Effect
  <2>2. effect' = effect
    BY <2>1
  <2>3. CASE outcome' = outcome
    <3>1. verdict' = verdict
      BY <2>3 DEF Verdict
    <3> QED
      BY <2>2, <3>1 DEF Contract!vars
  <2>4. ASSUME NEW k \in Calls, outcome'[k] # outcome[k]
        PROVE  Contract!Next
    <3> DEFINE v == Verdict(k)'
    <3>1. UNCHANGED <<sentSeq, log>> /\ outcome' = [outcome EXCEPT ![k] = outcome'[k]]
      BY <2>4, OutcomeStep
    <3>2. \A j \in Calls \ {k} : Verdict(j)' = Verdict(j)
      BY <3>1 DEF Verdict, TypeOK, CallerType
    <3>3. verdict' = [verdict EXCEPT ![k] = v]
      BY <3>2
    <3>4. CASE outcome[k] = "none" /\ outcome'[k] \in {"open", "tainted"}
      <4>1. verdict[k] = "none" /\ v \in {"open", "refused"}
        BY <3>4 DEF Verdict
      <4>2. Contract!Make(k) \/ Contract!TurnAway(k)
        BY <2>2, <3>3, <4>1 DEF Contract!Make, Contract!TurnAway
      <4> QED
        BY <4>2 DEF Contract!Next
    <3>5. CASE outcome[k] = "open" /\ outcome'[k] \in Outcomes \ {"none", "open"}
      <4>1. verdict[k] = "open" /\ v \in {"done", "refused", "unknown"}
        BY <3>5 DEF Verdict
      <4>2. ASSUME v = "done" PROVE effect[k] = 1
        <5>1. Done(k, outcome'[k])
          BY <3>5, <4>2 DEF Verdict, Done
        <5>2. Logged(<<k, "command">>)
          BY <3>1, <5>1 DEF Answers, Logged
        <5> QED
          BY <5>2, EffectIs
      <4>3. ASSUME v = "refused" PROVE effect[k] = 0
        <5>1. Refused(outcome'[k])
          BY <3>5, <4>3 DEF Verdict, Refused
        <5>2. ~Logged(<<k, "command">>)
          BY <3>1, <5>1 DEF Answers, Logged
        <5> QED
          BY <5>2, EffectIs
      <4>4. Contract!Answer(k)
        BY <2>2, <3>3, <4>1, <4>2, <4>3 DEF Contract!Answer
      <4> QED
        BY <4>4 DEF Contract!Next
    <3> QED
      BY <2>4, <3>4, <3>5, OutcomeStep
  <2> QED
    BY <2>3, <2>4 DEF TypeOK, CallerType
<1> QED
  BY <1>1, <1>2
\* The channel keeps its contract with whoever calls run_tcl: a command takes
\* effect at most once, a result is only ever reported of a command that took
\* effect, and a call that was turned away (tainted session, no connection) has no
\* effect, not even later.
THEOREM ContractKeptHolds == Spec => ContractKept
<1> DEFINE AInv == IInv /\ Doubt /\ Answers
<1>1. Init => Contract!Init /\ Doubt /\ Answers
  <2>1. ASSUME Init PROVE Contract!Init
    <3>1. \A k \in Calls : Verdict(k) = "none"
      BY <2>1 DEF Init, Verdict
    <3>2. ASSUME NEW k \in Calls PROVE Effect(k) = 0
      <4>1. {i \in DOMAIN log : log[i] = <<k, "command">>} = {}
        BY <2>1 DEF Init
      <4> QED
        BY <4>1, FS_EmptySet DEF Effect
    <3> QED
      BY <3>1, <3>2 DEF Contract!Init
  <2>2. Init => Doubt /\ Answers
    BY DEF Init, Doubt, Answers, Refused, Done
  <2> QED
    BY <2>1, <2>2
<1>2. AInv /\ [Next]_vars => AInv'
  <2> SUFFICES ASSUME AInv, [Next]_vars PROVE AInv'
    OBVIOUS
  <2>1. IInv' /\ Doubt' /\ Answers'
    BY InvStep, DoubtStep, AnswersStep DEF IInv
  <2> QED
    BY <2>1
<1>3. AInv /\ AInv' /\ [Next]_vars => [Contract!Next]_(Contract!vars)
  BY ContractStep
<1>4. Spec => []AInv
  BY <1>1, <1>2, InvInit, PTL DEF Spec
<1> QED
  BY <1>1, <1>3, <1>4, PTL DEF Spec, ContractKept, Contract!Spec

=============================================================================
