------------------------ MODULE WorkflowTraceProofs ------------------------
(***************************************************************************)
(* Proofs about the workflow trace, for any number of servers, projects,   *)
(* operations, calls and faults.                                           *)
(***************************************************************************)
EXTENDS WorkflowTrace, Integers, FiniteSetTheorems, SequenceTheorems,
        WellFoundedInduction, TLAPS

(***************************************************************************)
(* The inductive invariant                                                 *)
(***************************************************************************)

\* The part of TypeOK that the lock rests on.
LockTyped ==
    /\ pc \in [Servers -> {"idle", "noting", "waiting", "stale",
                           "removing", "dead"} \cup Inside]
    /\ home \in [Servers -> Dirs]
    /\ holder \in [Projects -> Servers \cup {NoServer}]
    /\ open \in [Projects -> BOOLEAN]
    /\ \A s \in Servers : pc[s] \in Inside \cup {"waiting", "stale", "removing"}
                            => home[s] \in Projects

\* A writer's lock file is its own, and is open: nobody can remove it.
LockOwned ==
    \A s \in Servers : pc[s] \in Inside => holder[home[s]] = s /\ open[home[s]]

LockInv == LockTyped /\ LockOwned

(***************************************************************************)
(* The invariant holds                                                     *)
(***************************************************************************)

\* A server starts outside of every lock.
LEMMA LockInit == ASSUME Init PROVE LockInv
  BY DEF Init, LockInv, LockTyped, LockOwned, Inside, Dirs

\* An unlink takes no open lock file.
LEMMA UnlinkSpares ==
    ASSUME LockTyped, NEW p \in Projects, Unlink(p)
    PROVE  /\ holder' \in [Projects -> Servers \cup {NoServer}]
           /\ \A q \in Projects : open[q] => holder'[q] = holder[q]
  BY DEF Unlink, LockTyped

\* A step that leaves the locks alone and moves one server to a place outside of
\* the lock, with its directory in place if it is going for the lock.
LEMMA Outside ==
    ASSUME LockInv, NEW s \in Servers, NEW at,
           at \in {"idle", "noting", "waiting", "stale", "removing", "dead"},
           at \in {"waiting", "stale", "removing"} => home[s] \in Projects,
           pc' = [pc EXCEPT ![s] = at],
           UNCHANGED <<home, holder, open>>
    PROVE  LockInv'
  BY DEF LockInv, LockTyped, LockOwned, Inside

\* Every step of every server keeps the invariant.
LEMMA LockNext == ASSUME TraceAssumption, LockInv, [Next]_vars PROVE LockInv'
<1> USE DEF Inside
<1>1. ASSUME NEW s \in Servers, Note(s) PROVE LockInv'
  <2>1. UNCHANGED <<home, holder, open>>
    BY <1>1 DEF Note, locks
  <2>2. \/ pc' = [pc EXCEPT ![s] = "idle"]
        \/ home[s] # NoProject /\ pc' = [pc EXCEPT ![s] = "waiting"]
    BY <1>1 DEF Note, Proceed, Answer
  <2>3. home[s] # NoProject => home[s] \in Projects
    BY DEF LockInv, LockTyped, Dirs
  <2> QED BY <2>1, <2>2, <2>3, Outside
<1>2. ASSUME NEW s \in Servers, NoteRaises(s) PROVE LockInv'
  BY <1>2, Outside DEF NoteRaises, Answer, locks
<1>3. ASSUME NEW s \in Servers, Create(s) PROVE LockInv'
  <2>1. home[s] \in Projects /\ holder[home[s]] = NoServer
    BY <1>3 DEF Create, LockInv, LockTyped
  <2>2. \A t \in Servers : pc[t] \in Inside => home[t] # home[s]
    BY <2>1 DEF LockInv, LockOwned, TraceAssumption
  <2>3. LockTyped'
    BY <1>3, <2>1 DEF Create, LockInv, LockTyped
  <2>4. LockOwned'
    BY <1>3, <2>1, <2>2 DEF Create, LockInv, LockTyped, LockOwned
  <2> QED BY <2>3, <2>4 DEF LockInv
<1>4. ASSUME NEW s \in Servers, SeeStale(s) PROVE LockInv'
  BY <1>4, Outside DEF SeeStale, locks, LockInv, LockTyped
<1>5. ASSUME NEW s \in Servers, TakeOver(s) PROVE LockInv'
  <2>1. home[s] \in Projects
    BY <1>5 DEF TakeOver, LockInv, LockTyped
  <2>2. /\ holder' \in [Projects -> Servers \cup {NoServer}]
        /\ \A q \in Projects : open[q] => holder'[q] = holder[q]
    BY <1>5, <2>1, UnlinkSpares DEF TakeOver, LockInv
  <2> QED BY <1>5, <2>1, <2>2 DEF TakeOver, LockInv, LockTyped, LockOwned
<1>6. ASSUME NEW s \in Servers, LockTimeout(s) PROVE LockInv'
  BY <1>6, Outside DEF LockTimeout, Answer, locks
<1>7. ASSUME NEW s \in Servers, Check(s) PROVE LockInv'
  <2>1. pc[s] = "held" /\ UNCHANGED <<home, holder, open>>
    BY <1>7 DEF Check, locks
  <2>2. pc' = [pc EXCEPT ![s] = "writing"] \/ pc' = [pc EXCEPT ![s] = "closing"]
    BY <1>7 DEF Check
  <2> QED BY <2>1, <2>2 DEF LockInv, LockTyped, LockOwned
<1>8. ASSUME NEW s \in Servers, Write(s) PROVE LockInv'
  <2>1. /\ pc[s] = "writing" /\ pc' = [pc EXCEPT ![s] = "closing"]
        /\ UNCHANGED <<home, holder, open>>
    BY <1>8 DEF Write, locks
  <2> QED BY <2>1 DEF LockInv, LockTyped, LockOwned
<1>9. ASSUME NEW s \in Servers, Close(s) PROVE LockInv'
  <2>1. home[s] \in Projects /\ holder[home[s]] = s
    BY <1>9 DEF Close, LockInv, LockTyped, LockOwned
  <2> QED BY <1>9, <2>1 DEF Close, LockInv, LockTyped, LockOwned
<1>10. ASSUME NEW s \in Servers, Remove(s) PROVE LockInv'
  <2>1. home[s] \in Projects
    BY <1>10 DEF Remove, LockInv, LockTyped
  <2>2. /\ holder' \in [Projects -> Servers \cup {NoServer}]
        /\ \A q \in Projects : open[q] => holder'[q] = holder[q]
    BY <1>10, <2>1, UnlinkSpares DEF Remove, LockInv
  <2>3. pc' = [pc EXCEPT ![s] = "idle"] /\ UNCHANGED <<open, home>>
    BY <1>10 DEF Remove, Answer
  <2> QED BY <2>1, <2>2, <2>3 DEF LockInv, LockTyped, LockOwned
<1>11. ASSUME NEW s \in Servers, Crash(s) PROVE LockInv'
  <2>1. /\ pc[s] \in Inside \cup {"removing"} /\ pc' = [pc EXCEPT ![s] = "dead"]
        /\ UNCHANGED <<holder, home>>
        /\ open' = IF pc[s] \in Inside THEN [open EXCEPT ![home[s]] = FALSE] ELSE open
    BY <1>11 DEF Crash
  <2>2. home[s] \in Projects
    BY <2>1 DEF LockInv, LockTyped
  <2>3. pc[s] \in Inside => \A t \in Servers :
           t # s /\ pc[t] \in Inside => home[t] # home[s]
    BY DEF LockInv, LockOwned
  <2> QED BY <2>1, <2>2, <2>3 DEF LockInv, LockTyped, LockOwned
<1>12. ASSUME NEW s \in Servers, NEW deed \in Deeds, NEW d \in Dirs, Record(s, deed, d)
       PROVE  LockInv'
  <2>1. /\ pc[s] = "idle" /\ home' = [home EXCEPT ![s] = IF d = NoProject THEN @ ELSE d]
        /\ UNCHANGED <<holder, open>>
        /\ pc' = [pc EXCEPT ![s] = "noting"] \/ pc' = pc
    BY <1>12 DEF Record, locks
  <2> QED BY <2>1 DEF LockInv, LockTyped, LockOwned
<1>13. ASSUME NEW p \in Projects, LockAges(p) PROVE LockInv'
  BY <1>13 DEF LockAges, servers, LockInv, LockTyped, LockOwned
<1>14. ASSUME UNCHANGED vars PROVE LockInv'
  BY <1>14 DEF vars, locks, servers, LockInv, LockTyped, LockOwned
<1> QED
  BY <1>1, <1>2, <1>3, <1>4, <1>5, <1>6, <1>7, <1>8, <1>9, <1>10, <1>11, <1>12,
     <1>13, <1>14 DEF Next, Step, Finished

\* A server between the creation of its lock file and its close holds the lock of
\* its project (_trace_file_lock), whoever takes over or removes what.
THEOREM LockInvariant == Spec => []LockInv
<1>1. Init => LockInv
  BY LockInit
<1>2. LockInv /\ [Next]_vars => LockInv'
  BY LockNext, TraceAssumption
<1> QED BY <1>1, <1>2, PTL DEF Spec

(***************************************************************************)
(* At most one writer                                                      *)
(***************************************************************************)

\* No ledger is ever written by two servers at once (_append_jsonl under
\* _trace_file_lock), although locks are taken over and whatever lock file is
\* found is removed.
THEOREM OneWriterHolds == Spec => []OneWriter
<1>1. LockInv => OneWriter
  <2> SUFFICES ASSUME LockInv, NEW p \in Projects
               PROVE  Cardinality(Writers(p)) <= 1
    BY DEF OneWriter
  <2>1. Writers(p) \subseteq {holder[p]}
    BY DEF Writers, LockInv, LockOwned
  <2>2. IsFiniteSet({holder[p]}) /\ Cardinality({holder[p]}) = 1
    BY FS_Singleton
  <2> QED BY <2>1, <2>2, FS_Subset
<1> QED BY <1>1, LockInvariant, PTL

(***************************************************************************)
(* Lines of a ledger                                                       *)
(***************************************************************************)

\* A nonempty set of numbers up to n has a largest one.
LEMMA Highest ==
    ASSUME NEW n \in Nat, NEW S, S \subseteq 1..n, S # {}
    PROVE  \E i \in S : \A j \in S : j <= i
<1> DEFINE T == {n - i : i \in S}
<1>1. T \subseteq Nat /\ T # {}
  <2>1. \A i \in S : n - i \in Nat
    OBVIOUS
  <2> QED
    BY <2>1
<1>2. PICK x \in T : \A y \in T : ~(<<y, x>> \in OpToRel(<, Nat))
  BY <1>1, NatLessThanWellFounded, WFMin
<1>3. \A y \in T : ~(y < x)
  BY <1>1, <1>2 DEF OpToRel
<1>4. PICK i \in S : x = n - i
  OBVIOUS
<1>5. \A j \in S : n - j \in T
  OBVIOUS
<1> HIDE DEF T
<1> QED
  BY <1>3, <1>4, <1>5

\* A line that is cut or glued keeps what it says.
LEMMA Reshaped ==
    ASSUME NEW line \in Lines, NEW shape \in Shapes
    PROVE  /\ [line EXCEPT !.shape = shape] \in Lines
           /\ [line EXCEPT !.shape = shape].shape = shape
           /\ [line EXCEPT !.shape = shape].kind = line.kind
           /\ [line EXCEPT !.shape = shape].pos = line.pos
           /\ [line EXCEPT !.shape = shape].from = line.from
           /\ [line EXCEPT !.shape = shape].entry = line.entry
  BY DEF Lines, Shapes

LEMMA Junked ==
    ASSUME NEW led \in Seq(Lines), led # << >>
    PROVE  LET junk == [led EXCEPT ![Len(led)].shape = "junk"]
           IN  /\ junk \in Seq(Lines) /\ Len(junk) = Len(led)
               /\ junk[Len(led)].shape = "junk"
               /\ \A i \in 1..Len(led) :
                    /\ junk[i].kind = led[i].kind /\ junk[i].pos = led[i].pos
                    /\ junk[i].from = led[i].from /\ junk[i].entry = led[i].entry
                    /\ i < Len(led) => junk[i] = led[i]
<1> DEFINE last == [led[Len(led)] EXCEPT !.shape = "junk"]
           junk == [led EXCEPT ![Len(led)] = last]
<1>1. Len(led) \in 1..Len(led) /\ led[Len(led)] \in Lines
  OBVIOUS
<1>2. /\ last \in Lines /\ last.shape = "junk"
      /\ last.kind = led[Len(led)].kind /\ last.pos = led[Len(led)].pos
      /\ last.from = led[Len(led)].from /\ last.entry = led[Len(led)].entry
  BY <1>1, Reshaped DEF Shapes
<1> HIDE DEF last
<1>3. /\ junk \in Seq(Lines) /\ Len(junk) = Len(led)
      /\ \A i \in 1..Len(led) : junk[i] = IF i = Len(led) THEN last ELSE led[i]
  BY <1>1, <1>2, ExceptSeq
<1>4. junk = [led EXCEPT ![Len(led)].shape = "junk"]
  BY DEF last
<1> HIDE DEF junk
<1>5. /\ junk[Len(led)].shape = "junk"
      /\ \A i \in 1..Len(led) :
           /\ junk[i].kind = led[i].kind /\ junk[i].pos = led[i].pos
           /\ junk[i].from = led[i].from /\ junk[i].entry = led[i].entry
           /\ i < Len(led) => junk[i] = led[i]
  BY <1>1, <1>2, <1>3
<1> QED
  BY <1>3, <1>4, <1>5

\* The first of the lines that are glued to another keeps what it says, too.
LEMMA GluedTo ==
    ASSUME NEW new \in Seq(Lines), new # << >>
    PROVE  LET glued == [new EXCEPT ![1].shape = IF @ = "partial" THEN @ ELSE "junk"]
           IN  /\ glued \in Seq(Lines) /\ Len(glued) = Len(new)
               /\ \A j \in 1..Len(new) : glued[j].entry = new[j].entry
<1> DEFINE shape == IF new[1].shape = "partial" THEN new[1].shape ELSE "junk"
           first == [new[1] EXCEPT !.shape = shape]
           glued == [new EXCEPT ![1] = first]
<1>1. 1 \in 1..Len(new) /\ new[1] \in Lines
  OBVIOUS
<1>2. first \in Lines /\ first.entry = new[1].entry
  <2>1. shape \in Shapes
    BY DEF Shapes
  <2> QED
    BY <1>1, <2>1, Reshaped
<1>3. glued = [new EXCEPT ![1].shape = IF @ = "partial" THEN @ ELSE "junk"]
  OBVIOUS
<1> HIDE DEF first
<1>4. /\ glued \in Seq(Lines) /\ Len(glued) = Len(new)
      /\ \A j \in 1..Len(new) : glued[j] = IF j = 1 THEN first ELSE new[j]
  BY <1>1, <1>2, ExceptSeq
<1> HIDE DEF glued
<1>5. \A j \in 1..Len(new) : glued[j].entry = new[j].entry
  BY <1>2, <1>4
<1> QED
  BY <1>3, <1>4, <1>5

\* What an append leaves of the lines that were there, and what it adds.
Grows(led, new, longer) ==
    /\ longer \in Seq(Lines) /\ Len(longer) = Len(led) + Len(new)
    /\ \A i \in 1..Len(led) :
         /\ longer[i].kind = led[i].kind /\ longer[i].pos = led[i].pos
         /\ longer[i].from = led[i].from /\ longer[i].entry = led[i].entry
         /\ led[i].shape # "bare" \/ i < Len(led) => longer[i] = led[i]
    /\ \A j \in 1..Len(new) : longer[Len(led) + j].entry = new[j].entry

\* Two sequences, one after the other.
LEMMA Joined ==
    ASSUME NEW one \in Seq(Lines), NEW two \in Seq(Lines)
    PROVE  /\ one \o two \in Seq(Lines) /\ Len(one \o two) = Len(one) + Len(two)
           /\ \A i \in 1..Len(one) : (one \o two)[i] = one[i]
           /\ \A j \in 1..Len(two) : (one \o two)[Len(one) + j] = two[j]
  OBVIOUS

\* An append changes nothing but the last line, if that one has no newline.
LEMMA ExtendGrows ==
    ASSUME NEW led \in Seq(Lines), NEW new \in Seq(Lines)
    PROVE  Grows(led, new, Extend(led, new))
<1>1. CASE ~(led # << >> /\ new # << >> /\ led[Len(led)].shape = "bare")
  <2>1. Extend(led, new) = led \o new
    BY <1>1 DEF Extend
  <2> QED
    BY <2>1, Joined DEF Grows
<1>2. CASE led # << >> /\ new # << >> /\ led[Len(led)].shape = "bare"
  <2> DEFINE junk == [led EXCEPT ![Len(led)].shape = "junk"]
             glued == [new EXCEPT ![1].shape = IF @ = "partial" THEN @ ELSE "junk"]
  <2>1. Extend(led, new) = junk \o glued
    BY <1>2 DEF Extend, Glue
  <2>2. /\ junk \in Seq(Lines) /\ Len(junk) = Len(led)
        /\ \A i \in 1..Len(led) :
             /\ junk[i].kind = led[i].kind /\ junk[i].pos = led[i].pos
             /\ junk[i].from = led[i].from /\ junk[i].entry = led[i].entry
             /\ led[i].shape # "bare" \/ i < Len(led) => junk[i] = led[i]
    BY <1>2, Junked
  <2>3. /\ glued \in Seq(Lines) /\ Len(glued) = Len(new)
        /\ \A j \in 1..Len(new) : glued[j].entry = new[j].entry
    BY <1>2, GluedTo
  <2> HIDE DEF junk, glued
  <2>4. /\ junk \o glued \in Seq(Lines) /\ Len(junk \o glued) = Len(led) + Len(new)
        /\ \A i \in 1..Len(led) : (junk \o glued)[i] = junk[i]
        /\ \A j \in 1..Len(new) : (junk \o glued)[Len(led) + j] = glued[j]
    <3>1. /\ junk \o glued \in Seq(Lines) /\ Len(junk \o glued) = Len(junk) + Len(glued)
          /\ \A i \in 1..Len(junk) : (junk \o glued)[i] = junk[i]
          /\ \A j \in 1..Len(glued) : (junk \o glued)[Len(junk) + j] = glued[j]
      BY <2>2, <2>3, Joined
    <3>2. Len(junk) = Len(led) /\ Len(glued) = Len(new)
      BY <2>2, <2>3
    <3> QED
      BY <3>1, <3>2
  <2> QED
    BY <1>2, <2>1, <2>2, <2>3, <2>4 DEF Grows
<1> QED
  BY <1>1, <1>2

\* A line that lacks its newline becomes junk.
LEMMA ExtendGlues ==
    ASSUME NEW led \in Seq(Lines), NEW new \in Seq(Lines), new # << >>,
           led # << >>, led[Len(led)].shape = "bare"
    PROVE  Damaged(Extend(led, new))
<1> DEFINE junk == [led EXCEPT ![Len(led)].shape = "junk"]
           glued == [new EXCEPT ![1].shape = IF @ = "partial" THEN @ ELSE "junk"]
<1>1. Extend(led, new) = junk \o glued
  BY DEF Extend, Glue
<1>2. junk \in Seq(Lines) /\ Len(junk) = Len(led) /\ junk[Len(led)].shape = "junk"
  BY Junked
<1>3. glued \in Seq(Lines)
  BY GluedTo
<1> HIDE DEF junk, glued
<1>4. Len(led) \in 1..Len(led) /\ Len(led) \in DOMAIN (junk \o glued)
  BY <1>2, <1>3
<1>5. (junk \o glued)[Len(led)].shape = "junk"
  BY <1>2, <1>3, <1>4, Joined
<1> QED
  BY <1>1, <1>4, <1>5 DEF Damaged

\* Lines cut short are some of those that were to be written.
LEMMA CutsAreOf ==
    ASSUME NEW new \in Seq(Lines), NEW c \in Cuts(new)
    PROVE  /\ c \in Seq(Lines)
           /\ \A i \in 1..Len(c) : \E j \in 1..Len(new) : c[i].entry = new[j].entry
<1>1. CASE \E k \in 0..Len(new) : c = SubSeq(new, 1, k)
  BY <1>1
<1>2. ASSUME NEW k \in 1..Len(new), NEW cut \in {"partial", "bare"},
             c = CutAt(new, k, cut)
      PROVE  /\ c \in Seq(Lines)
             /\ \A i \in 1..Len(c) : \E j \in 1..Len(new) : c[i].entry = new[j].entry
  <2>1. /\ SubSeq(new, 1, k - 1) \in Seq(Lines) /\ Len(SubSeq(new, 1, k - 1)) = k - 1
        /\ \A i \in 1..(k - 1) : SubSeq(new, 1, k - 1)[i] = new[i]
    OBVIOUS
  <2> DEFINE shape == IF new[k].shape = "split" THEN "partial" ELSE cut
             l == [new[k] EXCEPT !.shape = shape]
             sq == SubSeq(new, 1, k - 1)
  <2>2. l \in Lines /\ l.entry = new[k].entry
    <3>1. shape \in Shapes /\ new[k] \in Lines
      BY DEF Shapes
    <3> QED
      BY <3>1, Reshaped
  <2>3. c = Append(sq, l) /\ l \in Lines /\ l.entry = new[k].entry
    BY <1>2, <2>2 DEF CutAt
  <2>4. /\ sq \in Seq(Lines) /\ Len(sq) = k - 1 /\ \A i \in 1..(k - 1) : sq[i] = new[i]
    BY <2>1
  <2> HIDE DEF l, sq, shape
  <2>5. /\ c \in Seq(Lines) /\ Len(c) = k /\ c[k] = l
        /\ \A i \in 1..(k - 1) : c[i] = sq[i]
    BY <2>3, <2>4, AppendProperties
  <2>6. ASSUME NEW i \in 1..Len(c) PROVE \E j \in 1..Len(new) : c[i].entry = new[j].entry
    <3>1. CASE i = k
      BY <2>3, <2>5, <3>1
    <3>2. CASE i \in 1..(k - 1)
      BY <2>4, <2>5, <3>2
    <3>3. k \in 1..Len(new) /\ Len(c) = k
      BY <2>5
    <3>4. i = k \/ i \in 1..(k - 1)
      BY <3>3
    <3> QED
      BY <3>1, <3>2, <3>4
  <2> QED
    BY <2>5, <2>6
<1>3. \/ \E k \in 0..Len(new) : c = SubSeq(new, 1, k)
      \/ \E k \in 1..Len(new), cut \in {"partial", "bare"} : c = CutAt(new, k, cut)
  BY DEF Cuts
<1> QED
  BY <1>1, <1>2, <1>3

\* Nothing that was recorded is lost to an append.
LEMMA RecordedStays ==
    ASSUME NEW led \in Seq(Lines), NEW new \in Seq(Lines), NEW longer,
           Grows(led, new, longer), NEW e, RecordedIn(led, e)
    PROVE  RecordedIn(longer, e)
<1>1. PICK k \in 1..Len(led) : /\ led[k].kind = "entry" /\ led[k].entry = e
                               /\ led[k].shape = "whole" /\ Verifies(led, k)
  BY DEF RecordedIn
<1>2. \A i \in 1..k : longer[i] = led[i] /\ led[i].shape = "whole"
  <2>1. ASSUME NEW i \in 1..k PROVE led[i].shape = "whole"
    BY <1>1 DEF Verifies
  <2> QED
    BY <1>1, <2>1 DEF Grows
<1>3. Verifies(longer, k)
  BY <1>1, <1>2 DEF Verifies, Follows
<1>4. k \in DOMAIN longer
  BY <1>1 DEF Grows
<1> QED
  BY <1>1, <1>2, <1>3, <1>4 DEF RecordedIn

LEMMA ReadableIsNotDamaged ==
    ASSUME NEW led \in Seq(Lines), Readable(led)
    PROVE  ~Damaged(led)
  BY DEF Readable, Verifies, Damaged

\* So a trace that is appended to only when it verifies keeps what it has kept.
LEMMA KeepsStays ==
    ASSUME NEW led \in Seq(Lines), NEW new \in Seq(Lines), NEW longer,
           Grows(led, new, longer), Readable(led), NEW e, Keeps(led, e)
    PROVE  Keeps(longer, e)
  BY ReadableIsNotDamaged, RecordedStays DEF Keeps

\* The lines that a writer has in hand: they are its entry's, and a ledger that
\* verified verifies with them, unless its last line lacks the newline.
LEMMA NewLinesOf ==
    ASSUME NEW e \in Entries, NEW led \in Seq(Lines)
    PROVE  /\ NewLines(e, led) \in Seq(Lines) /\ NewLines(e, led) # << >>
           /\ \A j \in 1..Len(NewLines(e, led)) : NewLines(e, led)[j].entry = e
<1>1. ASSUME NEW kind \in {"entry", "boundary"}, NEW pos \in Nat,
             NEW from \in Servers \cup {NoServer}, NEW shape \in {"whole", "split"}
      PROVE  [kind |-> kind, pos |-> pos, from |-> from, entry |-> e, shape |-> shape]
                \in Lines
  BY DEF Lines, Shapes
<1> DEFINE shape == IF e.breaks THEN "split" ELSE "whole"
<1>2. shape \in {"whole", "split"}
  OBVIOUS
<1> HIDE DEF shape
<1>3. CASE Len(led) > 0 /\ Author(led[Len(led)]) # e.id[1]
  <2>1. Author(led[Len(led)]) \in Servers
    <3>1. led[Len(led)] \in Lines
      BY <1>3
    <3>2. led[Len(led)].entry \in Entries
      BY <3>1 DEF Lines
    <3> QED
      BY <3>2 DEF Author, Entries, Ids
  <2> DEFINE b == [kind |-> "boundary", pos |-> Len(led) + 1,
                   from |-> Author(led[Len(led)]), entry |-> e, shape |-> "whole"]
             l == [kind |-> "entry", pos |-> Len(led) + 2,
                   from |-> NoServer, entry |-> e, shape |-> shape]
  <2>2. NewLines(e, led) = <<b, l>>
    BY <1>3 DEF NewLines, shape
  <2>3. b \in Lines /\ l \in Lines
    <3>1. Len(led) + 1 \in Nat /\ Len(led) + 2 \in Nat
      OBVIOUS
    <3>2. b \in Lines
      BY <1>1, <2>1, <3>1
    <3>3. l \in Lines
      BY <1>1, <1>2, <3>1
    <3> QED
      BY <3>2, <3>3
  <2>4. b.entry = e /\ l.entry = e
    OBVIOUS
  <2> HIDE DEF b, l
  <2> QED
    BY <2>2, <2>3, <2>4
<1>4. CASE ~(Len(led) > 0 /\ Author(led[Len(led)]) # e.id[1])
  <2> DEFINE l == [kind |-> "entry", pos |-> Len(led) + 1,
                   from |-> NoServer, entry |-> e, shape |-> shape]
  <2>1. NewLines(e, led) = <<l>>
    BY <1>4 DEF NewLines, shape
  <2>2. l \in Lines /\ l.entry = e
    <3>1. Len(led) + 1 \in Nat
      OBVIOUS
    <3> QED
      BY <1>1, <1>2, <3>1
  <2> HIDE DEF l
  <2> QED
    BY <2>1, <2>2
<1> QED
  BY <1>3, <1>4

\* Written in full after whole lines, they are recorded, unless they are split.
LEMMA NewLinesVerify ==
    ASSUME NEW e \in Entries, NEW led \in Seq(Lines), Readable(led), ~e.breaks,
           led = << >> \/ led[Len(led)].shape # "bare"
    PROVE  RecordedIn(Extend(led, NewLines(e, led)), e)
<1>1. Extend(led, NewLines(e, led)) = led \o NewLines(e, led)
  BY DEF Extend
<1>2. \A i \in 1..Len(led) : led[i].shape = "whole" /\ led[i].pos = i /\ Follows(led, i)
  BY DEF Readable, Verifies
<1> DEFINE s == e.id[1]
<1>3. CASE Len(led) > 0 /\ Author(led[Len(led)]) # s
  <2> DEFINE b == [kind |-> "boundary", pos |-> Len(led) + 1,
                   from |-> Author(led[Len(led)]), entry |-> e, shape |-> "whole"]
             l == [kind |-> "entry", pos |-> Len(led) + 2,
                   from |-> NoServer, entry |-> e, shape |-> "whole"]
             longer == led \o <<b, l>>
  <2>1. NewLines(e, led) = <<b, l>>
    BY <1>3 DEF NewLines
  <2>2. /\ Len(longer) = Len(led) + 2 /\ DOMAIN longer = 1..(Len(led) + 2)
        /\ \A i \in 1..Len(led) : longer[i] = led[i]
        /\ longer[Len(led) + 1] = b /\ longer[Len(led) + 2] = l
    OBVIOUS
  <2>3. Author(b) = s /\ Author(l) = s /\ b.kind = "boundary" /\ l.kind = "entry"
        /\ b.from = Author(led[Len(led)]) /\ b.shape = "whole" /\ l.shape = "whole"
        /\ b.pos = Len(led) + 1 /\ l.pos = Len(led) + 2 /\ l.entry = e
    BY DEF Author
  <2> HIDE DEF b, l, longer, s
  <2>4. \A i \in 1..Len(led) : Follows(longer, i)
    BY <1>2, <2>2 DEF Follows
  <2>5. Follows(longer, Len(led) + 1) /\ Follows(longer, Len(led) + 2)
    BY <1>3, <2>2, <2>3 DEF Follows
  <2>6. Verifies(longer, Len(led) + 2)
    BY <1>2, <2>2, <2>3, <2>4, <2>5 DEF Verifies
  <2>7. RecordedIn(longer, e)
    BY <2>2, <2>3, <2>6 DEF RecordedIn
  <2> QED
    BY <1>1, <2>1, <2>7 DEF longer
<1>4. CASE ~(Len(led) > 0 /\ Author(led[Len(led)]) # s)
  <2> DEFINE l == [kind |-> "entry", pos |-> Len(led) + 1,
                   from |-> NoServer, entry |-> e, shape |-> "whole"]
             longer == led \o <<l>>
  <2>1. NewLines(e, led) = <<l>>
    BY <1>4 DEF NewLines
  <2>2. /\ Len(longer) = Len(led) + 1 /\ DOMAIN longer = 1..(Len(led) + 1)
        /\ \A i \in 1..Len(led) : longer[i] = led[i]
        /\ longer[Len(led) + 1] = l
    OBVIOUS
  <2>3. Author(l) = s /\ l.kind = "entry" /\ l.shape = "whole"
        /\ l.pos = Len(led) + 1 /\ l.entry = e
    BY DEF Author
  <2> HIDE DEF l, longer, s
  <2>4. \A i \in 1..Len(led) : Follows(longer, i)
    BY <1>2, <2>2 DEF Follows
  <2>5. Follows(longer, Len(led) + 1)
    BY <1>4, <2>2, <2>3 DEF Follows
  <2>6. Verifies(longer, Len(led) + 1)
    BY <1>2, <2>2, <2>3, <2>4, <2>5 DEF Verifies
  <2>7. RecordedIn(longer, e)
    BY <2>2, <2>3, <2>6 DEF RecordedIn
  <2> QED
    BY <1>1, <2>1, <2>7 DEF longer
<1> QED
  BY <1>3, <1>4

\* A split line damages what it is appended to.
LEMMA NewLinesBreak ==
    ASSUME NEW e \in Entries, NEW led \in Seq(Lines), e.breaks,
           led = << >> \/ led[Len(led)].shape # "bare"
    PROVE  Damaged(Extend(led, NewLines(e, led)))
<1> DEFINE new == NewLines(e, led)
<1>1. Extend(led, new) = led \o new
  BY DEF Extend
<1>2. new \in Seq(Lines) /\ new # << >>
  BY NewLinesOf
<1>3. new[Len(new)].shape = "split"
  BY DEF NewLines
<1> HIDE DEF new
<1>4. Len(new) \in 1..Len(new) /\ Len(led) + Len(new) \in DOMAIN (led \o new)
  BY <1>2
<1>5. (led \o new)[Len(led) + Len(new)] = new[Len(new)]
  BY <1>2, <1>4, Joined
<1> QED
  BY <1>1, <1>3, <1>4, <1>5 DEF Damaged, new

\* In every case, what was appended to a trace that verifies is kept by it.
LEMMA AppendKeeps ==
    ASSUME NEW e \in Entries, NEW led \in Seq(Lines), Readable(led)
    PROVE  Keeps(Extend(led, NewLines(e, led)), e)
<1> DEFINE new == NewLines(e, led)  longer == Extend(led, new)
<1>1. new \in Seq(Lines) /\ new # << >> /\ \A j \in 1..Len(new) : new[j].entry = e
  BY NewLinesOf
<1>2. longer[Len(longer)].entry = e
  <2>1. Grows(led, new, longer)
    BY <1>1, ExtendGrows
  <2> HIDE DEF new, longer
  <2>2. Len(new) \in 1..Len(new) /\ Len(longer) = Len(led) + Len(new)
    BY <1>1, <2>1 DEF Grows
  <2> QED
    BY <1>1, <2>1, <2>2 DEF Grows
<1>3. RecordedIn(longer, e) \/ Damaged(longer)
  <2> HIDE DEF longer
  <2>1. CASE led # << >> /\ led[Len(led)].shape = "bare"
    BY <1>1, <2>1, ExtendGlues DEF longer
  <2>2. CASE ~(led # << >> /\ led[Len(led)].shape = "bare")
    BY <2>2, NewLinesVerify, NewLinesBreak DEF longer
  <2> QED
    BY <2>1, <2>2
<1> QED
  BY <1>2, <1>3 DEF Keeps

(***************************************************************************)
(* The inductive invariant of what is recorded                             *)
(***************************************************************************)

\* A server numbers its calls; the entry of the call it records bears the last
\* number and the directory it was made in.
Named == \A s \in Servers :
    /\ sequence[s] <= calls
    /\ pc[s] \notin {"idle", "dead"} =>
           entry[s].id = <<s, sequence[s]>> /\ entry[s].dir = home[s]
    /\ pc[s] = "noting" => entry[s].resolves = NoId

\* What an entry says it resolves was a failure of the same operation.
GenuineIn(g, e) == e.resolves # NoId =>
    \E k \in DOMAIN g[e.resolves[1]] : /\ Overcomes(e, g[e.resolves[1]][k].entry)
                                       /\ Keeps(g[e.resolves[1]], g[e.resolves[1]][k].entry)

\* Whoever goes for the ledger has written its own trace.
Noted == \A s \in Servers :
    pc[s] \in Inside \cup {"waiting", "stale", "removing"} =>
        Keeps(global[s], entry[s]) /\ GenuineIn(global, entry[s])

\* What a server is about to write fits the ledger, which it has checked.
Poised == \A s \in Servers : pc[s] = "writing" =>
    Readable(ledger[home[s]]) /\ todo[s] = NewLines(entry[s], ledger[home[s]])

\* A ledger holds what its authors have noted, up to now.
Mirror == \A p \in Projects : \A i \in DOMAIN ledger[p] :
    LET e == ledger[p][i].entry
    IN  /\ Keeps(global[e.id[1]], e) /\ GenuineIn(global, e)
        /\ e.id[2] <= sequence[e.id[1]]

AckedAreNoted == \A e \in acked : Keeps(global[e.id[1]], e)

\* The entries in dir p that were answered with their own result, or will be.
Settled(p) ==
    {e \in acked : e.dir = p} \cup
    {entry[s] : s \in {t \in Servers : /\ pc[t] \in {"closing", "removing"}
                                       /\ ~failed[t] /\ home[t] = p}}

Kept == \A p \in Projects : \A e \in Settled(p) : Keeps(ledger[p], e)

Inv == /\ LockInv /\ TypeOK /\ Named /\ Noted /\ Poised /\ Mirror
       /\ AckedAreNoted /\ Kept /\ MirrorFollowsGlobal

(***************************************************************************)
(* What the steps do                                                       *)
(***************************************************************************)

Call(s) == \E deed \in Deeds, dir \in Dirs : Record(s, deed, dir)

LEMMA StepCases ==
    ASSUME [Next]_vars
    PROVE  \/ \E s \in Servers :
                \/ Note(s) \/ NoteRaises(s) \/ Create(s) \/ SeeStale(s) \/ TakeOver(s)
                \/ LockTimeout(s) \/ Check(s) \/ Write(s) \/ Close(s) \/ Remove(s)
                \/ Crash(s) \/ Call(s)
           \/ \E p \in Projects : LockAges(p)
           \/ UNCHANGED vars
  BY DEF Next, Step, Finished, Call

Say(new, e) == \A j \in 1..Len(new) : new[j].entry = e

\* A line of a trace that has grown is an old one or says what was added.
LEMMA GrownLine ==
    ASSUME NEW led \in Seq(Lines), NEW new \in Seq(Lines), NEW longer,
           Grows(led, new, longer), NEW e, Say(new, e), NEW i \in DOMAIN longer
    PROVE  \/ /\ i \in DOMAIN led /\ led[i] \in Lines
              /\ longer[i].entry = led[i].entry
           \/ i > Len(led) /\ longer[i].entry = e
<1>1. i \in 1..(Len(led) + Len(new)) /\ Len(led) \in Nat /\ Len(new) \in Nat
  BY DEF Grows
<1>2. CASE i \in 1..Len(led)
  BY <1>2 DEF Grows
<1>3. CASE i > Len(led)
  <2>1. PICK j \in 1..Len(new) : i = Len(led) + j
    <3>1. i - Len(led) \in 1..Len(new) /\ i = Len(led) + (i - Len(led))
      BY <1>1, <1>3
    <3> QED
      BY <3>1
  <2> QED
    BY <1>3, <2>1 DEF Grows, Say
<1> QED
  BY <1>1, <1>2, <1>3

\* Only a writer at work changes a ledger, and adds lines of its entry.
LEMMA LedgerGrows ==
    ASSUME Inv, [Next]_vars, NEW p \in Projects
    PROVE  \/ ledger'[p] = ledger[p]
           \/ \E w \in Servers, new \in Seq(Lines) :
                /\ pc[w] = "writing" /\ pc'[w] # "writing" /\ home[w] = p
                /\ Readable(ledger[p]) /\ Grows(ledger[p], new, ledger'[p])
                /\ \A j \in 1..Len(new) : new[j].entry = entry[w]
<1>1. ASSUME NEW w \in Servers, pc[w] = "writing", NEW c \in Cuts(todo[w]) \cup {todo[w]},
             ledger' = [ledger EXCEPT ![home[w]] = Extend(@, c)]
      PROVE  \/ ledger'[p] = ledger[p]
             \/ \E new \in Seq(Lines) :
                  /\ home[w] = p /\ Readable(ledger[p])
                  /\ Grows(ledger[p], new, ledger'[p])
                  /\ \A j \in 1..Len(new) : new[j].entry = entry[w]
  <2>1. home[w] \in Projects /\ ledger \in [Projects -> Seq(Lines)] /\ entry[w] \in Entries
    BY <1>1 DEF Inv, TypeOK, Inside
  <2>2. CASE home[w] # p
    BY <1>1, <2>1, <2>2
  <2>3. CASE home[w] = p
    <3>1. /\ todo[w] \in Seq(Lines)
          /\ \A j \in 1..Len(todo[w]) : todo[w][j].entry = entry[w]
      <4>1. todo[w] = NewLines(entry[w], ledger[p]) /\ ledger[p] \in Seq(Lines)
        BY <1>1, <2>1, <2>3 DEF Inv, Poised
      <4> QED
        BY <2>1, <4>1, NewLinesOf
    <3>2. /\ c \in Seq(Lines)
          /\ \A i \in 1..Len(c) : c[i].entry = entry[w]
      <4>1. CASE c = todo[w]
        BY <3>1, <4>1
      <4>2. CASE c \in Cuts(todo[w])
        <5>1. PICK new \in Seq(Lines) : new = todo[w]
          BY <3>1
        <5>2. /\ c \in Seq(Lines)
              /\ \A i \in 1..Len(c) : \E j \in 1..Len(new) : c[i].entry = new[j].entry
          BY <4>2, <5>1, CutsAreOf
        <5>3. \A j \in 1..Len(new) : new[j].entry = entry[w]
          BY <3>1, <5>1
        <5> QED
          BY <5>2, <5>3
      <4> QED
        BY <1>1, <4>1, <4>2
    <3>3. ledger'[p] = Extend(ledger[p], c)
      BY <1>1, <2>1, <2>3
    <3>4. Grows(ledger[p], c, ledger'[p])
      BY <2>1, <3>2, <3>3, ExtendGrows
    <3>5. Readable(ledger[p])
      BY <1>1, <2>3 DEF Inv, Poised
    <3> QED
      BY <2>3, <3>2, <3>4, <3>5
  <2> QED
    BY <2>2, <2>3
<1>2. ASSUME NEW s \in Servers, Write(s) \/ Crash(s)
      PROVE  \/ ledger' = ledger
             \/ /\ pc[s] = "writing" /\ pc'[s] # "writing"
                /\ \E c \in Cuts(todo[s]) \cup {todo[s]} :
                     ledger' = [ledger EXCEPT ![home[s]] = Extend(@, c)]
  <2>1. DOMAIN pc = Servers
    BY DEF Inv, TypeOK
  <2>2. CASE Write(s)
    BY <2>1, <2>2 DEF Write
  <2>3. CASE Crash(s)
    BY <2>1, <2>3 DEF Crash
  <2> QED
    BY <1>2, <2>2, <2>3
<1>3. ASSUME NEW s \in Servers,
             \/ Note(s) \/ NoteRaises(s) \/ Create(s) \/ SeeStale(s) \/ TakeOver(s)
             \/ LockTimeout(s) \/ Check(s) \/ Close(s) \/ Remove(s) \/ Call(s)
      PROVE  ledger' = ledger
  BY <1>3 DEF Note, NoteRaises, Create, SeeStale, TakeOver, LockTimeout, Check, Close,
              Remove, Call, Record, files
<1>4. ASSUME UNCHANGED vars \/ \E q \in Projects : LockAges(q)
      PROVE  ledger' = ledger
  BY <1>4 DEF LockAges, vars, files
<1> QED
  BY <1>1, <1>2, <1>3, <1>4, StepCases

\* What may be seen in a ledger has been noted by whoever wrote it.
LEMMA ViewsAreNoted ==
    ASSUME Inv, NEW p \in Projects, NEW v \in Views(p), NEW i \in DOMAIN v
    PROVE  /\ v \in Seq(Lines)
           /\ v[i].entry \in Entries
           /\ Keeps(global[v[i].entry.id[1]], v[i].entry)
<1>1. ledger[p] \in Seq(Lines)
  BY DEF Inv, TypeOK
<1>2. ASSUME NEW k \in DOMAIN ledger[p]
      PROVE  /\ ledger[p][k].entry \in Entries
             /\ Keeps(global[ledger[p][k].entry.id[1]], ledger[p][k].entry)
  <2>1. ledger[p][k] \in Lines
    BY <1>1
  <2> QED
    BY <2>1 DEF Inv, Mirror, Lines
<1>3. CASE v = ledger[p]
  BY <1>1, <1>2, <1>3
<1>4. ASSUME NEW w \in Writers(p), pc[w] = "writing", NEW c \in Cuts(todo[w]),
             v = Extend(ledger[p], c)
      PROVE  /\ v \in Seq(Lines)
             /\ v[i].entry \in Entries
             /\ Keeps(global[v[i].entry.id[1]], v[i].entry)
  <2>1. /\ w \in Servers /\ home[w] = p /\ entry[w] \in Entries
        /\ todo[w] = NewLines(entry[w], ledger[p])
    BY <1>4 DEF Writers, Inv, TypeOK, Poised
  <2>2. /\ c \in Seq(Lines)
        /\ \A j \in 1..Len(c) : c[j].entry = entry[w]
    <3>1. /\ todo[w] \in Seq(Lines)
          /\ \A j \in 1..Len(todo[w]) : todo[w][j].entry = entry[w]
      BY <1>1, <2>1, NewLinesOf
    <3> QED
      BY <3>1, CutsAreOf
  <2>3. Grows(ledger[p], c, v)
    BY <1>1, <1>4, <2>2, ExtendGrows
  <2>4. v \in Seq(Lines) /\ i \in 1..Len(v)
    BY <2>3 DEF Grows
  <2>5. \/ i \in DOMAIN ledger[p] /\ v[i].entry = ledger[p][i].entry
        \/ v[i].entry = entry[w]
    <3>1. PICK led \in Seq(Lines) : led = ledger[p]
      BY <1>1
    <3>2. PICK e : e = entry[w]
      OBVIOUS
    <3>3. Grows(led, c, v) /\ Say(c, e) /\ i \in DOMAIN v
      BY <2>2, <2>3, <2>4, <3>1, <3>2 DEF Say
    <3>4. \/ i \in DOMAIN led /\ v[i].entry = led[i].entry
          \/ v[i].entry = e
      BY <2>2, <3>3, GrownLine
    <3> QED
      BY <3>1, <3>2, <3>4
  <2>6. Keeps(global[w], entry[w]) /\ entry[w].id[1] = w
    BY <1>4, <2>1 DEF Inv, Noted, Named, Inside
  <2> QED
    BY <1>2, <2>1, <2>4, <2>5, <2>6
<1> QED
  BY <1>3, <1>4 DEF Views

\* So have the entries that record() looks through.
LEMMA KnownAreNoted ==
    ASSUME Inv, NEW s \in Servers, NEW es \in Known(s)
    PROVE  /\ \E n \in Nat : DOMAIN es \subseteq 1..n
           /\ \A i \in DOMAIN es :
                /\ es[i] \in Entries
                /\ home[s] # NoProject => Keeps(global[es[i].id[1]], es[i])
<1>1. CASE es = << >>
  BY <1>1
<1>2. ASSUME NEW v \in Seq(Lines), es = ToolEntries(v)
      PROVE  /\ \E n \in Nat : DOMAIN es \subseteq 1..n
             /\ \A i \in DOMAIN es : i \in DOMAIN v /\ es[i] = v[i].entry /\ es[i] \in Entries
  <2>1. \A i \in DOMAIN es : i \in DOMAIN v /\ es[i] = v[i].entry
    BY <1>2 DEF ToolEntries
  <2>2. DOMAIN v = 1..Len(v) /\ Len(v) \in Nat
    OBVIOUS
  <2>3. \A i \in DOMAIN v : v[i].entry \in Entries
    <3>1. \A i \in DOMAIN v : v[i] \in Lines
      OBVIOUS
    <3> QED
      BY <3>1 DEF Lines
  <2> QED
    BY <2>1, <2>2, <2>3
<1>3. ASSUME home[s] = NoProject, es = ToolEntries(global[s])
      PROVE  /\ \E n \in Nat : DOMAIN es \subseteq 1..n
             /\ \A i \in DOMAIN es : es[i] \in Entries
  <2>1. global[s] \in Seq(Lines)
    BY DEF Inv, TypeOK
  <2> QED
    BY <1>2, <1>3, <2>1
<1>4. ASSUME home[s] # NoProject, NEW v \in Views(home[s]), es = ToolEntries(v)
      PROVE  /\ \E n \in Nat : DOMAIN es \subseteq 1..n
             /\ \A i \in DOMAIN es : es[i] \in Entries /\ Keeps(global[es[i].id[1]], es[i])
  <2>1. home[s] \in Projects
    BY <1>4 DEF Inv, TypeOK, Dirs
  <2>2. CASE DOMAIN v = {}
    BY <1>4, <2>2 DEF ToolEntries
  <2>3. CASE DOMAIN v # {}
    <3>1. v \in Seq(Lines)
      BY <1>4, <2>1, <2>3, ViewsAreNoted
    <3> QED
      BY <1>2, <1>4, <2>1, <3>1, ViewsAreNoted
  <2> QED
    BY <2>2, <2>3
<1> QED
  BY <1>1, <1>3, <1>4 DEF Known

\* _last_unresolved_failure finds one if there is one.
LEMMA LastUnresolvedIs ==
    ASSUME NEW es, NEW n \in Nat, DOMAIN es \subseteq 1..n
    PROVE  IF Unresolved(es) = {} THEN LastUnresolved(es) = 0
           ELSE LastUnresolved(es) \in Unresolved(es) /\ LastUnresolved(es) # 0
<1>1. Unresolved(es) \subseteq 1..n
  BY DEF Unresolved
<1>2. CASE Unresolved(es) # {}
  <2>1. \E i \in Unresolved(es) : \A j \in Unresolved(es) : j <= i
    BY <1>1, <1>2, Highest
  <2>2. LastUnresolved(es) \in Unresolved(es)
    BY <1>2, <2>1 DEF LastUnresolved
  <2> QED
    BY <1>1, <1>2, <2>2
<1> QED
  BY <1>2 DEF LastUnresolved

\* What a trace keeps is on one of its lines.
LEMMA KeptIsThere ==
    ASSUME NEW led \in Seq(Lines), NEW e, Keeps(led, e)
    PROVE  \E k \in DOMAIN led : led[k].entry = e
<1>1. CASE RecordedIn(led, e)
  BY <1>1 DEF RecordedIn
<1>2. CASE Damaged(led) /\ led[Len(led)].entry = e
  <2>1. Len(led) \in DOMAIN led
    BY <1>2 DEF Damaged
  <2> QED
    BY <1>2, <2>1
<1> QED
  BY <1>1, <1>2 DEF Keeps

\* Only a failure of the operation that has succeeded is resolved.
LEMMA LinkedIs ==
    ASSUME Inv, NEW s \in Servers, pc[s] = "noting", NEW es \in Known(s)
    PROVE  LET e == Linked(entry[s], es)
           IN  /\ e \in Entries /\ e.id = entry[s].id /\ e.dir = entry[s].dir
               /\ home[s] # NoProject => GenuineIn(global, e)
<1> DEFINE e == Linked(entry[s], es)  u == LastUnresolved(es)
<1>1. entry[s] \in Entries /\ entry[s].resolves = NoId
  BY DEF Inv, TypeOK, Named
<1>2. CASE ~(u # 0 /\ CanResolve(es[u], entry[s]))
  BY <1>1, <1>2 DEF Linked, GenuineIn
<1>3. CASE u # 0 /\ CanResolve(es[u], entry[s])
  <2>1. u \in Unresolved(es)
    BY <1>3, KnownAreNoted, LastUnresolvedIs
  <2>2. u \in DOMAIN es /\ es[u].res = "failed"
    BY <2>1 DEF Unresolved
  <2>3. es[u] \in Entries /\ (home[s] # NoProject => Keeps(global[es[u].id[1]], es[u]))
    BY <2>2, KnownAreNoted
  <2>4. e = [entry[s] EXCEPT !.resolves = es[u].id]
    BY <1>3 DEF Linked
  <2> DEFINE f == es[u]
  <2>5. f \in Entries /\ f.res = "failed" /\ CanResolve(f, entry[s])
    BY <1>3, <2>2, <2>3
  <2>6. e = [entry[s] EXCEPT !.resolves = f.id]
    BY <2>4
  <2> HIDE DEF e, f
  <2>7. /\ e \in Entries /\ e.id = entry[s].id /\ e.dir = entry[s].dir /\ e.op = entry[s].op
        /\ e.res = entry[s].res /\ e.resolves = f.id
    BY <1>1, <2>5, <2>6 DEF Entries
  <2>8. Overcomes(e, f)
    BY <2>5, <2>7 DEF Overcomes, CanResolve
  <2>9. ASSUME home[s] # NoProject PROVE GenuineIn(global, e)
    <3>1. Keeps(global[f.id[1]], f)
      BY <2>3, <2>9 DEF f
    <3>2. \E k \in DOMAIN global[f.id[1]] : global[f.id[1]][k].entry = f
      <4>1. f.id[1] \in Servers
        BY <2>5 DEF Entries, Ids
      <4>2. global[f.id[1]] \in Seq(Lines)
        BY <4>1 DEF Inv, TypeOK
      <4> QED
        BY <3>1, <4>2, KeptIsThere
    <3> QED
      BY <2>7, <2>8, <3>1, <3>2 DEF GenuineIn
  <2> QED
    BY <2>7, <2>9 DEF e
<1> QED
  BY <1>2, <1>3

\* What Note does to the server's own trace, if it succeeds and if it does not.
Writes(s, e) ==
    /\ Readable(global[s])
    /\ global' = [global EXCEPT ![s] = Extend(@, NewLines(e, @))]
Fails(s, e) ==
    \/ global' = global
    \/ /\ Readable(global[s])
       /\ \E c \in Cuts(NewLines(e, global[s])) :
            global' = [global EXCEPT ![s] = Extend(@, c)]

\* The entry, with what it resolves, is written, or the call fails.
LEMMA NoteDoes ==
    ASSUME Inv, NEW s \in Servers, Note(s)
    PROVE  \E e \in Entries :
             /\ e.id = entry[s].id /\ e.dir = entry[s].dir
             /\ home[s] # NoProject => GenuineIn(global, e)
             /\ \/ /\ Writes(s, e)
                   /\ \/ home[s] = NoProject /\ Answer(s, e, TRUE)
                      \/ /\ home[s] # NoProject /\ acked' = acked
                         /\ pc' = [pc EXCEPT ![s] = "waiting"]
                         /\ entry' = [entry EXCEPT ![s] = e]
                \/ Fails(s, e) /\ Answer(s, e, FALSE)
<1>1. pc[s] = "noting" /\ global \in [Servers -> Seq(Lines)]
  BY DEF Note, Inv, TypeOK
<1>2. PICK es \in Known(s) :
        LET e == Linked(entry[s], es)  new == NewLines(e, global[s]) IN
         \/ /\ Readable(global[s])
            /\ global' = [global EXCEPT ![s] = Extend(@, new)]
            /\ Proceed(s, e)
            /\ UNCHANGED faults
         \/ /\ IF Readable(global[s])
               THEN Fault /\ \E cut \in Cuts(new) :
                                global' = [global EXCEPT ![s] = Extend(@, cut)]
               ELSE UNCHANGED <<global, faults>>
            /\ Answer(s, e, FALSE)
  BY DEF Note
<1> DEFINE e == Linked(entry[s], es)
<1>3. /\ e \in Entries /\ e.id = entry[s].id /\ e.dir = entry[s].dir
      /\ home[s] # NoProject => GenuineIn(global, e)
  BY <1>1, LinkedIs
<1> HIDE DEF e
<1>4. CASE /\ Readable(global[s])
           /\ global' = [global EXCEPT ![s] = Extend(@, NewLines(e, global[s]))]
           /\ Proceed(s, e)
  BY <1>1, <1>3, <1>4 DEF Writes, Proceed
<1>5. CASE /\ IF Readable(global[s])
               THEN Fault /\ \E cut \in Cuts(NewLines(e, global[s])) :
                                global' = [global EXCEPT ![s] = Extend(@, cut)]
               ELSE UNCHANGED <<global, faults>>
           /\ Answer(s, e, FALSE)
  BY <1>3, <1>5 DEF Fails
<1> QED
  BY <1>2, <1>4, <1>5 DEF e

\* Either way the trace grows by lines of the entry, or not at all.
LEMMA NoteGrows ==
    ASSUME Inv, NEW s \in Servers, NEW e \in Entries, Writes(s, e) \/ Fails(s, e)
    PROVE  \/ global' = global
           \/ \E longer, new \in Seq(Lines) :
                /\ Readable(global[s]) /\ Grows(global[s], new, longer)
                /\ global' = [global EXCEPT ![s] = longer]
<1>1. global \in [Servers -> Seq(Lines)]
  BY DEF Inv, TypeOK
<1>2. NewLines(e, global[s]) \in Seq(Lines)
  BY <1>1, NewLinesOf
<1>3. ASSUME NEW c \in Seq(Lines), Readable(global[s]),
             global' = [global EXCEPT ![s] = Extend(@, c)]
      PROVE  \E longer, new \in Seq(Lines) :
                /\ Readable(global[s]) /\ Grows(global[s], new, longer)
                /\ global' = [global EXCEPT ![s] = longer]
  <2>1. Grows(global[s], c, Extend(global[s], c))
    BY <1>1, ExtendGrows
  <2>2. Extend(global[s], c) \in Seq(Lines)
    BY <2>1 DEF Grows
  <2>3. global' = [global EXCEPT ![s] = Extend(global[s], c)]
    BY <1>3
  <2> QED
    BY <1>3, <2>1, <2>2, <2>3
<1>4. CASE Writes(s, e)
  <2>1. Readable(global[s])
        /\ global' = [global EXCEPT ![s] = Extend(@, NewLines(e, global[s]))]
    BY <1>4 DEF Writes
  <2> QED
    BY <1>2, <1>3, <2>1
<1>5. CASE Fails(s, e)
  BY <1>2, <1>3, <1>5, CutsAreOf DEF Fails
<1> QED
  BY <1>4, <1>5

\* Only Note writes a server's own trace, and what is written stays.
LEMMA GlobalStays ==
    ASSUME [Next]_vars
    PROVE  global' = global \/ \E s \in Servers : Note(s)
<1>1. ASSUME NEW s \in Servers,
             \/ NoteRaises(s) \/ Create(s) \/ SeeStale(s) \/ TakeOver(s)
             \/ LockTimeout(s) \/ Check(s) \/ Write(s) \/ Close(s) \/ Remove(s)
             \/ Crash(s) \/ Call(s)
      PROVE  global' = global
  BY <1>1 DEF NoteRaises, Create, SeeStale, TakeOver, LockTimeout, Check, Write, Close,
              Remove, Crash, Call, Record, files
<1>2. ASSUME UNCHANGED vars \/ \E q \in Projects : LockAges(q)
      PROVE  global' = global
  BY <1>2 DEF LockAges, vars, files
<1> QED
  BY <1>1, <1>2, StepCases

LEMMA GlobalKeeps ==
    ASSUME Inv, [Next]_vars, NEW t \in Servers
    PROVE  /\ global'[t] \in Seq(Lines)
           /\ \A k \in DOMAIN global[t] :
                k \in DOMAIN global'[t] /\ global'[t][k].entry = global[t][k].entry
           /\ \A x : Keeps(global[t], x) => Keeps(global'[t], x)
<1>1. global \in [Servers -> Seq(Lines)]
  BY DEF Inv, TypeOK
<1>2. CASE global'[t] = global[t]
  BY <1>1, <1>2
<1>3. ASSUME NEW longer \in Seq(Lines), NEW new \in Seq(Lines), global'[t] = longer,
             Readable(global[t]), Grows(global[t], new, longer)
      PROVE  /\ global'[t] \in Seq(Lines)
             /\ \A k \in DOMAIN global[t] :
                  k \in DOMAIN global'[t] /\ global'[t][k].entry = global[t][k].entry
             /\ \A x : Keeps(global[t], x) => Keeps(global'[t], x)
  <2>1. PICK led \in Seq(Lines) : led = global[t]
    BY <1>1
  <2>2. \A k \in DOMAIN led : k \in DOMAIN longer /\ longer[k].entry = led[k].entry
    BY <1>3, <2>1, SMTT(30) DEF Grows
  <2>3. \A x : Keeps(led, x) => Keeps(longer, x)
    BY <1>3, <2>1, KeepsStays
  <2> QED
    BY <1>3, <2>1, <2>2, <2>3
<1>4. ASSUME NEW s \in Servers, Note(s)
      PROVE  \/ global'[t] = global[t]
             \/ \E longer, new \in Seq(Lines) :
                  /\ global'[t] = longer /\ Readable(global[t])
                  /\ Grows(global[t], new, longer)
  <2>1. PICK e \in Entries : Writes(s, e) \/ Fails(s, e)
    BY <1>4, NoteDoes
  <2>2. \/ global' = global
        \/ \E longer, new \in Seq(Lines) :
             /\ Readable(global[s]) /\ Grows(global[s], new, longer)
             /\ global' = [global EXCEPT ![s] = longer]
    BY <2>1, NoteGrows
  <2> QED
    BY <1>1, <2>2
<1> QED
  BY <1>2, <1>3, <1>4, GlobalStays

\* The numbers of calls only grow, and nobody's place is changed by another.
LEMMA SequenceGrows ==
    ASSUME Inv, [Next]_vars
    PROVE  /\ \A t \in Servers : sequence'[t] >= sequence[t]
           /\ calls' >= calls
<1>1. calls \in Nat /\ \A t \in Servers : sequence[t] \in Nat
  BY TraceAssumption DEF TraceAssumption, Inv, TypeOK
<1>2. ASSUME NEW s \in Servers, Call(s)
      PROVE  (\A t \in Servers : sequence'[t] >= sequence[t]) /\ calls' >= calls
  <2>1. /\ calls' = calls + 1
        /\ sequence' = [sequence EXCEPT ![s] = @ + 1] \/ sequence' = sequence
    BY <1>2 DEF Call, Record
  <2>2. sequence \in [Servers -> 0..MaxCalls]
    BY DEF Inv, TypeOK
  <2> QED
    BY <1>1, <2>1, <2>2
<1>3. ASSUME \/ \E s \in Servers :
                \/ Note(s) \/ NoteRaises(s) \/ Create(s) \/ SeeStale(s) \/ TakeOver(s)
                \/ LockTimeout(s) \/ Check(s) \/ Write(s) \/ Close(s) \/ Remove(s)
                \/ Crash(s)
             \/ \E p \in Projects : LockAges(p)
             \/ UNCHANGED vars
      PROVE  sequence' = sequence /\ calls' = calls
  BY <1>3 DEF Note, NoteRaises, Create, SeeStale, TakeOver, LockTimeout, Check, Write, Close,
              Remove, Crash, LockAges, vars, servers, history
<1>4. (sequence' = sequence /\ calls' = calls) \/ \E s \in Servers : Call(s)
  BY <1>3, StepCases
<1>5. CASE sequence' = sequence /\ calls' = calls
  BY <1>1, <1>5
<1> QED
  BY <1>2, <1>4, <1>5

(***************************************************************************)
(* Types                                                                   *)
(***************************************************************************)

LEMMA LedgerTypeStep ==
    ASSUME Inv, [Next]_vars
    PROVE  ledger' \in [Projects -> Seq(Lines)]
<1>1. ledger \in [Projects -> Seq(Lines)]
  BY DEF Inv, TypeOK
<1>2. \A p \in Projects : ledger'[p] \in Seq(Lines)
  BY <1>1, LedgerGrows DEF Grows
<1>3. ledger' = ledger \/ \E s \in Servers : Write(s) \/ Crash(s)
  <2>1. ASSUME \/ \E s \in Servers :
                 \/ Note(s) \/ NoteRaises(s) \/ Create(s) \/ SeeStale(s) \/ TakeOver(s)
                 \/ LockTimeout(s) \/ Check(s) \/ Close(s) \/ Remove(s) \/ Call(s)
               \/ \E q \in Projects : LockAges(q)
               \/ UNCHANGED vars
        PROVE  ledger' = ledger
    BY <2>1 DEF Note, NoteRaises, Create, SeeStale, TakeOver, LockTimeout, Check, Close,
                Remove, Call, Record, LockAges, vars, files
  <2> QED
    BY <2>1, StepCases
<1>4. ASSUME NEW s \in Servers, Write(s) \/ Crash(s)
      PROVE  \/ ledger' = ledger
             \/ \E c : ledger' = [ledger EXCEPT ![home[s]] = Extend(@, c)]
  BY <1>4 DEF Write, Crash
<1>5. CASE \E s \in Servers : \E c : ledger' = [ledger EXCEPT ![home[s]] = Extend(@, c)]
  BY <1>1, <1>2, <1>5
<1> QED
  BY <1>1, <1>3, <1>4, <1>5

LEMMA GlobalTypeStep ==
    ASSUME Inv, [Next]_vars
    PROVE  global' \in [Servers -> Seq(Lines)]
<1>1. global \in [Servers -> Seq(Lines)]
  BY DEF Inv, TypeOK
<1>2. \A t \in Servers : global'[t] \in Seq(Lines)
  BY GlobalKeeps
<1>3. ASSUME NEW s \in Servers, Note(s)
      PROVE  global' = global \/ \E new : global' = [global EXCEPT ![s] = new]
  BY <1>3, NoteDoes DEF Writes, Fails
<1>4. CASE \E s \in Servers : \E new : global' = [global EXCEPT ![s] = new]
  BY <1>1, <1>2, <1>4
<1> QED
  BY <1>1, <1>3, <1>4, GlobalStays

LEMMA FlagsTypeStep ==
    ASSUME Inv, [Next]_vars
    PROVE  old' \in [Projects -> BOOLEAN] /\ failed' \in [Servers -> BOOLEAN]
<1> USE DEF Inv, TypeOK
<1>1. ASSUME NEW s \in Servers, Check(s) \/ Write(s)
      PROVE  failed' \in [Servers -> BOOLEAN] /\ old' = old
  BY <1>1 DEF Check, Write, locks
<1>2. ASSUME NEW s \in Servers, Create(s) \/ TakeOver(s) \/ Remove(s)
      PROVE  /\ old' = old \/ old' = [old EXCEPT ![home[s]] = FALSE]
             /\ failed' = failed \/ failed' = [failed EXCEPT ![s] = FALSE]
  BY <1>2 DEF Create, TakeOver, Remove, Unlink
<1>3. ASSUME NEW p \in Projects, LockAges(p)
      PROVE  old' = [old EXCEPT ![p] = TRUE] /\ failed' = failed
  BY <1>3 DEF LockAges, servers
<1>4. ASSUME \/ \E s \in Servers :
                \/ Note(s) \/ NoteRaises(s) \/ SeeStale(s) \/ LockTimeout(s) \/ Close(s)
                \/ Crash(s) \/ Call(s)
             \/ UNCHANGED vars
      PROVE  UNCHANGED <<old, failed>>
  BY <1>4 DEF Note, NoteRaises, SeeStale, LockTimeout, Close, Crash, Call, Record, locks,
              servers, vars
<1>5. CASE \E s \in Servers : Check(s) \/ Write(s)
  BY <1>1, <1>5
<1>6. CASE \E s \in Servers : Create(s) \/ TakeOver(s) \/ Remove(s)
  BY <1>2, <1>6
<1>7. CASE \E p \in Projects : LockAges(p)
  BY <1>3, <1>7
<1>8. CASE UNCHANGED <<old, failed>>
  BY <1>8
<1> QED
  BY <1>4, <1>5, <1>6, <1>7, <1>8, StepCases

\* Calls are counted, and so are faults.
LEMMA CountTypeStep ==
    ASSUME Inv, [Next]_vars
    PROVE  /\ calls' \in 0..MaxCalls /\ faults' \in 0..MaxFaults
           /\ sequence' \in [Servers -> 0..MaxCalls]
           /\ \A s \in Servers : sequence'[s] <= calls'
<1>1. /\ calls \in 0..MaxCalls /\ faults \in 0..MaxFaults
      /\ MaxCalls \in Nat /\ MaxFaults \in Nat
      /\ sequence \in [Servers -> 0..MaxCalls]
      /\ \A s \in Servers : sequence[s] <= calls
  BY TraceAssumption DEF TraceAssumption, Inv, TypeOK, Named
<1>2. faults' = faults \/ Fault
  <2>1. ASSUME NEW s \in Servers,
               \/ Note(s) \/ NoteRaises(s) \/ Create(s) \/ SeeStale(s) \/ TakeOver(s)
               \/ LockTimeout(s) \/ Check(s) \/ Write(s) \/ Close(s) \/ Remove(s)
               \/ Crash(s) \/ Call(s)
        PROVE  faults' = faults \/ Fault
    BY <2>1 DEF Note, NoteRaises, Create, SeeStale, TakeOver, LockTimeout, Check, Write,
                Close, Remove, Crash, Call, Record, history
  <2>2. ASSUME UNCHANGED vars \/ \E q \in Projects : LockAges(q)
        PROVE  faults' = faults
    BY <2>2 DEF LockAges, vars, history
  <2> QED
    BY <2>1, <2>2, StepCases
<1>3. ASSUME NEW s \in Servers, Call(s)
      PROVE  /\ calls' = calls + 1 /\ calls < MaxCalls
             /\ sequence' = [sequence EXCEPT ![s] = @ + 1] \/ sequence' = sequence
  BY <1>3 DEF Call, Record
<1>4. CASE \E s \in Servers : Call(s)
  BY <1>1, <1>2, <1>3, <1>4 DEF Fault
<1>5. ASSUME \/ \E s \in Servers :
                \/ Note(s) \/ NoteRaises(s) \/ Create(s) \/ SeeStale(s) \/ TakeOver(s)
                \/ LockTimeout(s) \/ Check(s) \/ Write(s) \/ Close(s) \/ Remove(s)
                \/ Crash(s)
             \/ \E p \in Projects : LockAges(p)
             \/ UNCHANGED vars
      PROVE  UNCHANGED <<sequence, calls>>
  BY <1>5 DEF Note, NoteRaises, Create, SeeStale, TakeOver, LockTimeout, Check, Write, Close,
              Remove, Crash, LockAges, vars, servers, history
<1>6. CASE UNCHANGED <<sequence, calls>>
  BY <1>1, <1>2, <1>6 DEF Fault
<1> QED
  BY <1>4, <1>5, <1>6, StepCases

(***************************************************************************)
(* Each server's own                                                       *)
(***************************************************************************)

Rests(t) ==
    /\ pc'[t] = pc[t] /\ entry'[t] = entry[t] /\ home'[t] = home[t]
    /\ todo'[t] = todo[t] /\ failed'[t] = failed[t] /\ sequence'[t] = sequence[t]

\* What is a server's own only changes in its own steps.
LEMMA OwnSteps ==
    ASSUME Inv, [Next]_vars, NEW t \in Servers
    PROVE  \/ Rests(t)
           \/ Note(t) \/ NoteRaises(t) \/ Create(t) \/ SeeStale(t) \/ TakeOver(t)
           \/ LockTimeout(t) \/ Check(t) \/ Write(t) \/ Close(t) \/ Remove(t)
           \/ Crash(t) \/ Call(t)
<1>1. /\ DOMAIN pc = Servers /\ DOMAIN entry = Servers /\ DOMAIN home = Servers
      /\ DOMAIN todo = Servers /\ DOMAIN failed = Servers /\ DOMAIN sequence = Servers
  BY DEF Inv, TypeOK
<1>2. ASSUME NEW s \in Servers, s # t, Note(s)
      PROVE  Rests(t)
  <2>1. UNCHANGED <<home, sequence, todo, failed>>
    BY <1>2 DEF Note
  <2>2. /\ \E at : pc' = [pc EXCEPT ![s] = at]
        /\ \E e : entry' = [entry EXCEPT ![s] = e]
    BY <1>2, NoteDoes DEF Answer
  <2> QED
    BY <1>1, <1>2, <2>1, <2>2 DEF Rests
<1>3. ASSUME NEW s \in Servers, s # t,
             NoteRaises(s) \/ LockTimeout(s) \/ Remove(s)
      PROVE  Rests(t)
  BY <1>1, <1>3 DEF NoteRaises, LockTimeout, Remove, Answer, Rests
<1>4. ASSUME NEW s \in Servers, s # t,
             Create(s) \/ SeeStale(s) \/ TakeOver(s) \/ Check(s) \/ Write(s) \/ Close(s)
      PROVE  Rests(t)
  BY <1>1, <1>4 DEF Create, SeeStale, TakeOver, Check, Write, Close, Rests
<1>5. ASSUME NEW s \in Servers, s # t, Crash(s) \/ Call(s)
      PROVE  Rests(t)
  BY <1>1, <1>5 DEF Crash, Call, Record, Rests
<1>6. ASSUME UNCHANGED vars \/ \E p \in Projects : LockAges(p)
      PROVE  Rests(t)
  BY <1>6 DEF LockAges, vars, servers, Rests
<1> QED
  BY <1>2, <1>3, <1>4, <1>5, <1>6, StepCases

\* A call's entry, before what it resolves is looked up.
LEMMA CallDoes ==
    ASSUME Inv, [Next]_vars, NEW s \in Servers, Call(s)
    PROVE  /\ pc[s] = "idle"
           /\ \/ pc'[s] = "idle" /\ pc' = pc /\ entry' = entry
              \/ /\ pc'[s] = "noting" /\ entry'[s] \in Entries
                 /\ entry' = [entry EXCEPT ![s] = entry'[s]]
                 /\ entry'[s].id = <<s, sequence'[s]>> /\ entry'[s].dir = home'[s]
                 /\ entry'[s].resolves = NoId
<1>1. PICK deed \in Deeds, dir \in Dirs : Record(s, deed, dir)
  BY DEF Call
<1>2. /\ sequence \in [Servers -> 0..MaxCalls] /\ sequence[s] <= calls
      /\ calls \in 0..MaxCalls /\ MaxCalls \in Nat
      /\ deed[1] \in Ops /\ deed[2] \in Results /\ deed[3] \in BOOLEAN
      /\ home \in [Servers -> Dirs] /\ DOMAIN entry = Servers /\ DOMAIN pc = Servers
  BY TraceAssumption DEF TraceAssumption, Inv, TypeOK, Named
<1>3. home'[s] \in Dirs
  BY <1>1, <1>2 DEF Record, Dirs
<1>4. pc[s] = "idle" /\ calls < MaxCalls
  BY <1>1 DEF Record
<1>5. NewEntry(s, deed) \in Entries
  <2>1. <<s, sequence[s] + 1>> \in Ids
    BY <1>2, <1>4 DEF Ids
  <2> QED
    BY <1>2, <1>3, <2>1 DEF NewEntry, Entries
<1>6. /\ NewEntry(s, deed).id = <<s, sequence[s] + 1>> /\ NewEntry(s, deed).dir = home'[s]
      /\ NewEntry(s, deed).resolves = NoId
  BY DEF NewEntry
<1>7. CASE /\ pc' = [pc EXCEPT ![s] = "noting"]
           /\ sequence' = [sequence EXCEPT ![s] = @ + 1]
           /\ entry' = [entry EXCEPT ![s] = NewEntry(s, deed)]
  <2>1. entry'[s] = NewEntry(s, deed) /\ sequence'[s] = sequence[s] + 1 /\ pc'[s] = "noting"
    BY <1>2, <1>7
  <2> QED
    BY <1>4, <1>5, <1>6, <1>7, <2>1
<1>8. CASE UNCHANGED <<pc, sequence, entry>>
  BY <1>4, <1>8
<1> QED
  BY <1>1, <1>7, <1>8 DEF Record

\* Types of an entry and of the lines to be written.
LEMMA EntryTypeStep ==
    ASSUME Inv, [Next]_vars
    PROVE  /\ entry' \in [Servers -> Entries \cup {<< >>}]
           /\ \A s \in Servers : pc'[s] \notin {"idle", "dead"} => entry'[s] \in Entries
<1>1. /\ entry \in [Servers -> Entries \cup {<< >>}] /\ DOMAIN pc = Servers
      /\ \A s \in Servers : pc[s] \notin {"idle", "dead"} => entry[s] \in Entries
  BY DEF Inv, TypeOK
<1>2. ASSUME NEW s \in Servers
      PROVE  /\ entry'[s] \in Entries \cup {<< >>}
             /\ pc'[s] \notin {"idle", "dead"} => entry'[s] \in Entries
  <2>1. CASE Rests(s)
    BY <1>1, <2>1 DEF Rests
  <2>2. CASE Note(s)
    BY <1>1, <2>2, NoteDoes DEF Answer
  <2>3. CASE NoteRaises(s) \/ LockTimeout(s) \/ Remove(s) \/ Crash(s)
    BY <1>1, <2>3 DEF NoteRaises, LockTimeout, Remove, Crash, Answer
  <2>4. CASE Create(s) \/ SeeStale(s) \/ TakeOver(s) \/ Check(s) \/ Write(s) \/ Close(s)
    <3>1. pc[s] \notin {"idle", "dead"} /\ entry' = entry
      BY <2>4 DEF Create, SeeStale, TakeOver, Check, Write, Close
    <3> QED
      BY <1>1, <3>1
  <2>5. CASE Call(s)
    BY <1>1, <2>5, CallDoes
  <2> QED
    BY <2>1, <2>2, <2>3, <2>4, <2>5, OwnSteps
<1>3. entry' = entry \/ \E s \in Servers : \E e : entry' = [entry EXCEPT ![s] = e]
  <2>1. ASSUME NEW s \in Servers,
               \/ Note(s) \/ NoteRaises(s) \/ LockTimeout(s) \/ Remove(s) \/ Crash(s)
               \/ Call(s)
        PROVE  entry' = entry \/ \E e : entry' = [entry EXCEPT ![s] = e]
    <3>1. CASE Note(s)
      BY <3>1, NoteDoes DEF Answer
    <3>2. CASE NoteRaises(s) \/ LockTimeout(s) \/ Remove(s) \/ Crash(s)
      BY <3>2 DEF NoteRaises, LockTimeout, Remove, Crash, Answer
    <3>3. CASE Call(s)
      BY <3>3, CallDoes
    <3> QED
      BY <2>1, <3>1, <3>2, <3>3
  <2>2. ASSUME \/ \E s \in Servers : \/ Create(s) \/ SeeStale(s) \/ TakeOver(s) \/ Check(s)
                                     \/ Write(s) \/ Close(s)
               \/ \E p \in Projects : LockAges(p)
               \/ UNCHANGED vars
        PROVE  entry' = entry
    BY <2>2 DEF Create, SeeStale, TakeOver, Check, Write, Close, LockAges, vars, servers
  <2> QED
    BY <2>1, <2>2, StepCases
<1> QED
  BY <1>1, <1>2, <1>3

LEMMA TodoTypeStep ==
    ASSUME Inv, [Next]_vars
    PROVE  todo' \in [Servers -> Seq(Lines)]
<1>1. todo \in [Servers -> Seq(Lines)]
  BY DEF Inv, TypeOK
<1>2. ASSUME NEW s \in Servers, Check(s)
      PROVE  todo' = todo \/ \E new \in Seq(Lines) : todo' = [todo EXCEPT ![s] = new]
  <2>1. NewLines(entry[s], ledger[home[s]]) \in Seq(Lines)
    <3>1. pc[s] = "held"
      BY <1>2 DEF Check
    <3>2. home[s] \in Projects /\ entry[s] \in Entries
      BY <3>1 DEF Inv, TypeOK, Inside
    <3> QED
      BY <3>2, NewLinesOf DEF Inv, TypeOK
  <2> QED
    BY <1>2, <2>1 DEF Check
<1>3. ASSUME NEW s \in Servers, Write(s) \/ Crash(s)
      PROVE  todo' = [todo EXCEPT ![s] = << >>]
  BY <1>3 DEF Write, Crash
<1>4. ASSUME \/ \E s \in Servers :
                \/ Note(s) \/ NoteRaises(s) \/ Create(s) \/ SeeStale(s) \/ TakeOver(s)
                \/ LockTimeout(s) \/ Close(s) \/ Remove(s) \/ Call(s)
             \/ \E p \in Projects : LockAges(p)
             \/ UNCHANGED vars
      PROVE  todo' = todo
  BY <1>4 DEF Note, NoteRaises, Create, SeeStale, TakeOver, LockTimeout, Close, Remove, Call,
              Record, LockAges, vars, servers
<1>5. \/ todo' = todo
      \/ \E s \in Servers, new \in Seq(Lines) : todo' = [todo EXCEPT ![s] = new]
  <2>1. << >> \in Seq(Lines)
    OBVIOUS
  <2> QED
    BY <1>2, <1>3, <1>4, <2>1, StepCases
<1> QED
  BY <1>1, <1>5

(***************************************************************************)
(* What is recorded where                                                  *)
(***************************************************************************)

LEMMA NamedStep ==
    ASSUME Inv, [Next]_vars
    PROVE  Named'
<1> SUFFICES ASSUME NEW s \in Servers
             PROVE  /\ sequence'[s] <= calls'
                    /\ pc'[s] \notin {"idle", "dead"} =>
                           entry'[s].id = <<s, sequence'[s]>> /\ entry'[s].dir = home'[s]
                    /\ pc'[s] = "noting" => entry'[s].resolves = NoId
  BY DEF Named
<1>1. sequence'[s] <= calls'
  BY CountTypeStep
<1>2. /\ DOMAIN pc = Servers /\ DOMAIN entry = Servers
      /\ pc[s] \notin {"idle", "dead"} =>
             entry[s].id = <<s, sequence[s]>> /\ entry[s].dir = home[s]
      /\ pc[s] = "noting" => entry[s].resolves = NoId
  BY DEF Inv, TypeOK, Named
<1>3. CASE Rests(s)
  BY <1>1, <1>2, <1>3 DEF Rests
<1>4. CASE Note(s)
  <2>1. UNCHANGED <<sequence, home>> /\ pc[s] = "noting"
    BY <1>4 DEF Note
  <2>2. \/ pc'[s] = "idle"
        \/ pc'[s] = "waiting" /\ entry'[s].id = entry[s].id /\ entry'[s].dir = entry[s].dir
    BY <1>2, <1>4, NoteDoes DEF Answer
  <2> QED
    BY <1>1, <1>2, <2>1, <2>2
<1>5. CASE NoteRaises(s) \/ LockTimeout(s) \/ Remove(s) \/ Crash(s)
  <2>1. pc'[s] \in {"idle", "dead"}
    BY <1>2, <1>5 DEF NoteRaises, LockTimeout, Remove, Crash, Answer
  <2> QED
    BY <1>1, <2>1
<1>6. CASE Create(s) \/ SeeStale(s) \/ TakeOver(s) \/ Check(s) \/ Write(s) \/ Close(s)
  <2>1. /\ pc[s] \notin {"idle", "dead"} /\ pc'[s] # "noting"
        /\ UNCHANGED <<entry, sequence, home>>
    BY <1>2, <1>6 DEF Create, SeeStale, TakeOver, Check, Write, Close
  <2> QED
    BY <1>1, <1>2, <2>1
<1>7. CASE Call(s)
  BY <1>1, <1>7, CallDoes
<1> QED
  BY <1>3, <1>4, <1>5, <1>6, <1>7, OwnSteps

\* A resolution stays one.
LEMMA GenuineStays ==
    ASSUME Inv, [Next]_vars, NEW e \in Entries, GenuineIn(global, e)
    PROVE  GenuineIn(global', e)
<1>1. CASE e.resolves # NoId
  <2> DEFINE a == e.resolves[1]
  <2>1. PICK k \in DOMAIN global[a] : /\ Overcomes(e, global[a][k].entry)
                                      /\ Keeps(global[a], global[a][k].entry)
    BY <1>1 DEF GenuineIn
  <2>2. a \in Servers
    BY <1>1 DEF Entries, Ids
  <2>3. k \in DOMAIN global'[a] /\ global'[a][k].entry = global[a][k].entry
    BY <2>1, <2>2, GlobalKeeps
  <2>4. Keeps(global'[a], global[a][k].entry)
    BY <2>1, <2>2, GlobalKeeps
  <2> QED
    BY <2>1, <2>3, <2>4 DEF GenuineIn
<1> QED
  BY <1>1 DEF GenuineIn

LEMMA NotedStep ==
    ASSUME Inv, [Next]_vars
    PROVE  Noted'
<1> SUFFICES ASSUME NEW s \in Servers,
                    pc'[s] \in Inside \cup {"waiting", "stale", "removing"}
             PROVE  Keeps(global'[s], entry'[s]) /\ GenuineIn(global', entry'[s])
  BY DEF Noted, GenuineIn
<1> USE DEF Inside
<1>1. /\ DOMAIN pc = Servers /\ DOMAIN entry = Servers
      /\ global \in [Servers -> Seq(Lines)]
      /\ pc[s] \in Inside \cup {"waiting", "stale", "removing"} =>
             Keeps(global[s], entry[s]) /\ GenuineIn(global, entry[s]) /\ entry[s] \in Entries
  BY DEF Inv, TypeOK, Noted
<1>2. ASSUME pc[s] \in Inside \cup {"waiting", "stale", "removing"}, entry'[s] = entry[s]
      PROVE  Keeps(global'[s], entry'[s]) /\ GenuineIn(global', entry'[s])
  <2>1. Keeps(global'[s], entry[s])
    BY <1>1, <1>2, GlobalKeeps
  <2>2. GenuineIn(global', entry[s])
    BY <1>1, <1>2, GenuineStays
  <2> QED
    BY <1>2, <2>1, <2>2
<1>3. CASE Rests(s)
  BY <1>2, <1>3 DEF Rests
<1>4. CASE Note(s)
  <2>1. PICK e \in Entries :
           /\ home[s] # NoProject => GenuineIn(global, e)
           /\ \/ /\ Writes(s, e)
                 /\ \/ home[s] = NoProject /\ Answer(s, e, TRUE)
                    \/ /\ home[s] # NoProject /\ acked' = acked
                       /\ pc' = [pc EXCEPT ![s] = "waiting"]
                       /\ entry' = [entry EXCEPT ![s] = e]
              \/ Fails(s, e) /\ Answer(s, e, FALSE)
    BY <1>4, NoteDoes
  <2>2. pc'[s] # "idle"
    OBVIOUS
  <2>3. Writes(s, e) /\ entry'[s] = e /\ home[s] # NoProject
    BY <1>1, <2>1, <2>2 DEF Answer
  <2>4. Keeps(global'[s], e)
    BY <1>1, <2>3, AppendKeeps DEF Writes
  <2>5. GenuineIn(global', e)
    BY <2>1, <2>3, GenuineStays
  <2> QED
    BY <2>3, <2>4, <2>5
<1>5. CASE NoteRaises(s) \/ LockTimeout(s) \/ Remove(s) \/ Crash(s)
  BY <1>1, <1>5 DEF NoteRaises, LockTimeout, Remove, Crash, Answer
<1>6. CASE Create(s) \/ SeeStale(s) \/ TakeOver(s) \/ Check(s) \/ Write(s) \/ Close(s)
  <2>1. pc[s] \in Inside \cup {"waiting", "stale", "removing"} /\ entry' = entry
    BY <1>6 DEF Create, SeeStale, TakeOver, Check, Write, Close
  <2> QED
    BY <1>2, <2>1
<1>7. CASE Call(s)
  BY <1>1, <1>7, CallDoes
<1> QED
  BY <1>3, <1>4, <1>5, <1>6, <1>7, OwnSteps

\* Who is at work in a ledger, with what.
LEMMA Writer ==
    ASSUME Inv, NEW w \in Servers, pc[w] = "writing"
    PROVE  /\ home[w] \in Projects /\ entry[w] \in Entries
           /\ entry[w].id = <<w, sequence[w]>> /\ sequence[w] \in Nat
           /\ entry[w].dir = home[w]
           /\ Keeps(global[w], entry[w]) /\ GenuineIn(global, entry[w])
<1>1. home[w] \in Projects /\ entry[w] \in Entries
  BY DEF Inv, TypeOK, Inside
<1>2. sequence[w] \in Nat
  BY TraceAssumption DEF TraceAssumption, Inv, TypeOK
<1>3. entry[w].id = <<w, sequence[w]>> /\ entry[w].dir = home[w]
  BY DEF Inv, Named
<1>4. Keeps(global[w], entry[w]) /\ GenuineIn(global, entry[w])
  BY DEF Inv, Noted, Inside
<1> QED
  BY <1>1, <1>2, <1>3, <1>4

\* A line of a ledger is an old one, or of the writer at work.
LEMMA LineOf ==
    ASSUME Inv, [Next]_vars, NEW p \in Projects, NEW i \in DOMAIN ledger'[p]
    PROVE  \/ /\ i \in DOMAIN ledger[p] /\ ledger[p][i] \in Lines
              /\ ledger'[p][i].entry = ledger[p][i].entry
           \/ \E w \in Servers : /\ pc[w] = "writing" /\ home[w] = p /\ i > Len(ledger[p])
                                 /\ ledger'[p][i].entry = entry[w]
<1>1. ledger[p] \in Seq(Lines)
  BY DEF Inv, TypeOK
<1>2. CASE ledger'[p] = ledger[p]
  BY <1>1, <1>2
<1>3. ASSUME NEW w \in Servers, NEW new \in Seq(Lines), pc[w] = "writing", home[w] = p,
             Grows(ledger[p], new, ledger'[p]), \A j \in 1..Len(new) : new[j].entry = entry[w]
      PROVE  \/ /\ i \in DOMAIN ledger[p] /\ ledger[p][i] \in Lines
                /\ ledger'[p][i].entry = ledger[p][i].entry
             \/ i > Len(ledger[p]) /\ ledger'[p][i].entry = entry[w]
  <2>1. PICK led \in Seq(Lines) : led = ledger[p]
    BY <1>1
  <2>2. PICK e : e = entry[w]
    OBVIOUS
  <2>3. PICK longer : longer = ledger'[p]
    OBVIOUS
  <2>4. Grows(led, new, longer) /\ Say(new, e) /\ i \in DOMAIN longer
    BY <1>3, <2>1, <2>2, <2>3 DEF Say
  <2>5. \/ i \in DOMAIN led /\ led[i] \in Lines /\ longer[i].entry = led[i].entry
        \/ i > Len(led) /\ longer[i].entry = e
    BY <2>4, GrownLine
  <2> QED
    BY <2>1, <2>2, <2>3, <2>5
<1> QED
  BY <1>2, <1>3, LedgerGrows

LEMMA MirrorStep ==
    ASSUME Inv, [Next]_vars
    PROVE  Mirror'
<1> SUFFICES ASSUME NEW p \in Projects, NEW i \in DOMAIN ledger'[p]
             PROVE  LET e == ledger'[p][i].entry
                    IN  /\ Keeps(global'[e.id[1]], e) /\ GenuineIn(global', e)
                        /\ e.id[2] <= sequence'[e.id[1]]
  BY DEF Mirror, GenuineIn
<1> DEFINE e == ledger'[p][i].entry
<1>1. /\ e \in Entries /\ e.id[1] \in Servers /\ e.id[2] \in Nat
      /\ Keeps(global[e.id[1]], e) /\ GenuineIn(global, e) /\ e.id[2] <= sequence[e.id[1]]
  <2>1. CASE /\ i \in DOMAIN ledger[p] /\ ledger[p][i] \in Lines
             /\ e = ledger[p][i].entry
    <3>1. Keeps(global[e.id[1]], e) /\ GenuineIn(global, e) /\ e.id[2] <= sequence[e.id[1]]
      BY <2>1 DEF Inv, Mirror
    <3>2. e \in Entries
      BY <2>1 DEF Lines
    <3>3. e.id[1] \in Servers /\ e.id[2] \in Nat
      BY <3>2 DEF Entries, Ids
    <3> QED
      BY <3>1, <3>2, <3>3
  <2>2. ASSUME NEW w \in Servers, pc[w] = "writing", e = entry[w]
        PROVE  /\ e \in Entries /\ e.id[1] \in Servers /\ e.id[2] \in Nat
               /\ Keeps(global[e.id[1]], e) /\ GenuineIn(global, e)
               /\ e.id[2] <= sequence[e.id[1]]
    <3>1. /\ e.id = <<w, sequence[w]>> /\ sequence[w] \in Nat /\ e \in Entries
          /\ Keeps(global[w], e) /\ GenuineIn(global, e)
      BY <2>2, Writer
    <3> QED
      BY <3>1
  <2> QED
    BY <2>1, <2>2, LineOf
<1> HIDE DEF e
<1>2. sequence[e.id[1]] \in Nat /\ sequence'[e.id[1]] \in Nat
  <2>1. MaxCalls \in Nat
    BY TraceAssumption DEF TraceAssumption
  <2>2. sequence \in [Servers -> 0..MaxCalls]
    BY DEF Inv, TypeOK
  <2>3. sequence' \in [Servers -> 0..MaxCalls]
    BY CountTypeStep
  <2>4. PICK s \in Servers : s = e.id[1]
    BY <1>1
  <2>5. sequence[s] \in 0..MaxCalls /\ sequence'[s] \in 0..MaxCalls
    BY <2>2, <2>3
  <2> QED
    BY <2>1, <2>4, <2>5
<1>3. Keeps(global'[e.id[1]], e) /\ GenuineIn(global', e)
  BY <1>1, GlobalKeeps, GenuineStays
<1>4. sequence'[e.id[1]] >= sequence[e.id[1]]
  BY <1>1, SequenceGrows
<1>5. e.id[2] <= sequence'[e.id[1]]
  BY <1>1, <1>2, <1>4
<1> QED
  BY <1>3, <1>5 DEF e

\* The mirror is in the order of its author's calls.
LEMMA MirrorFollowsGlobalStep ==
    ASSUME Inv, [Next]_vars
    PROVE  MirrorFollowsGlobal'
<1> SUFFICES ASSUME NEW p \in Projects, NEW i \in DOMAIN ledger'[p]
             PROVE  LET e == ledger'[p][i].entry  s == e.id[1]
                    IN  /\ Keeps(global'[s], e)
                        /\ \A j \in 1..i : Author(ledger'[p][j]) = s =>
                               ledger'[p][j].entry.id[2] <= e.id[2]
  BY DEF MirrorFollowsGlobal, Author
<1> DEFINE e == ledger'[p][i].entry  s == e.id[1]
<1>1. Keeps(global'[s], e)
  BY MirrorStep DEF Mirror
<1>2. ledger[p] \in Seq(Lines) /\ ledger'[p] \in Seq(Lines)
  BY LedgerTypeStep DEF Inv, TypeOK
<1>3. ASSUME NEW j \in 1..i, Author(ledger'[p][j]) = s
      PROVE  ledger'[p][j].entry.id[2] <= e.id[2]
  <2>1. j \in DOMAIN ledger'[p] /\ i \in Nat /\ j \in Nat
    BY <1>2
  <2>2. CASE i \in DOMAIN ledger[p] /\ e = ledger[p][i].entry
    <3>1. j \in 1..Len(ledger[p]) /\ Len(ledger[p]) \in Nat
      BY <1>2, <2>1, <2>2
    <3>2. ledger'[p][j].entry = ledger[p][j].entry
      BY <2>1, <3>1, LineOf
    <3> QED
      BY <1>3, <2>2, <3>2 DEF Inv, MirrorFollowsGlobal, Author
  <2>3. ASSUME NEW w \in Servers, pc[w] = "writing", home[w] = p, e = entry[w]
        PROVE  ledger'[p][j].entry.id[2] <= e.id[2]
    <3>1. e.id = <<w, sequence[w]>> /\ sequence[w] \in Nat /\ s = w
      BY <2>3, Writer
    <3>2. CASE j \in DOMAIN ledger[p] /\ ledger'[p][j].entry = ledger[p][j].entry
      BY <1>3, <3>1, <3>2 DEF Inv, Mirror, Author
    <3>3. ASSUME NEW v \in Servers, pc[v] = "writing", home[v] = p,
                 ledger'[p][j].entry = entry[v]
          PROVE  ledger'[p][j].entry.id[2] <= e.id[2]
      <4>1. v = w
        BY <2>3, <3>3 DEF Inv, LockInv, LockOwned, Inside
      <4> QED
        BY <2>3, <3>1, <3>3, <4>1
    <3> QED
      BY <2>1, <3>2, <3>3, LineOf
  <2> QED
    BY <2>2, <2>3, LineOf
<1> QED
  BY <1>1, <1>3

(***************************************************************************)
(* What a client was told of its call                                      *)
(***************************************************************************)

\* Who is told that its call is recorded: the one whose entry is in its own trace
\* and has no other, or the one that has written the ledger.
LEMMA AckedAre ==
    ASSUME Inv, [Next]_vars, NEW e \in acked'
    PROVE  /\ e \in Entries /\ Keeps(global'[e.id[1]], e)
           /\ \/ e \in acked
              \/ e.dir = NoProject
              \/ \E s \in Servers : /\ pc[s] = "removing" /\ ~failed[s]
                                    /\ e = entry[s] /\ e.dir = home[s]
<1>1. global \in [Servers -> Seq(Lines)]
  BY DEF Inv, TypeOK
<1>2. CASE e \in acked
  <2>1. e \in Entries /\ Keeps(global[e.id[1]], e)
    BY <1>2 DEF Inv, TypeOK, AckedAreNoted
  <2>2. e.id[1] \in Servers
    BY <2>1 DEF Entries, Ids
  <2> QED
    BY <1>2, <2>1, <2>2, GlobalKeeps
<1>3. ASSUME NEW s \in Servers, Note(s), e \notin acked
      PROVE  e \in Entries /\ Keeps(global'[e.id[1]], e) /\ e.dir = NoProject
  <2>1. PICK x \in Entries :
           /\ x.id = entry[s].id /\ x.dir = entry[s].dir
           /\ \/ Writes(s, x) /\ home[s] = NoProject /\ Answer(s, x, TRUE)
              \/ acked' = acked
    BY <1>3, NoteDoes DEF Answer
  <2>2. e = x /\ Writes(s, x) /\ home[s] = NoProject
    BY <1>3, <2>1 DEF Answer
  <2>3. x.id[1] = s /\ x.dir = home[s]
    BY <1>3, <2>1 DEF Note, Inv, Named
  <2>4. Keeps(global'[s], x)
    BY <1>1, <2>2, AppendKeeps DEF Writes
  <2> QED
    BY <2>1, <2>2, <2>3, <2>4
<1>4. ASSUME NEW s \in Servers, Remove(s), e \notin acked
      PROVE  /\ pc[s] = "removing" /\ ~failed[s] /\ e = entry[s] /\ e.dir = home[s]
             /\ e \in Entries /\ Keeps(global'[e.id[1]], e)
  <2>1. pc[s] = "removing" /\ ~failed[s] /\ e = entry[s]
    BY <1>4 DEF Remove, Answer
  <2>2. /\ entry[s] \in Entries
        /\ entry[s].id[1] = s /\ entry[s].dir = home[s]
    <3>1. entry[s] \in Entries
      BY <2>1 DEF Inv, TypeOK
    <3>2. entry[s].id = <<s, sequence[s]>> /\ entry[s].dir = home[s]
      BY <2>1 DEF Inv, Named
    <3> QED
      BY <3>1, <3>2
  <2>3. Keeps(global[s], entry[s])
    BY <2>1 DEF Inv, Noted
  <2> QED
    BY <2>1, <2>2, <2>3, GlobalKeeps
<1>5. ASSUME \/ \E s \in Servers :
                \/ NoteRaises(s) \/ Create(s) \/ SeeStale(s) \/ TakeOver(s)
                \/ LockTimeout(s) \/ Check(s) \/ Write(s) \/ Close(s)
                \/ Crash(s) \/ Call(s)
             \/ \E p \in Projects : LockAges(p)
             \/ UNCHANGED vars
      PROVE  acked' = acked
  BY <1>5 DEF NoteRaises, Create, SeeStale, TakeOver, LockTimeout, Check, Write, Close,
              Crash, Call, Record, Answer, LockAges, vars, history
<1> QED
  BY <1>2, <1>3, <1>4, <1>5, StepCases

LEMMA AckedStep ==
    ASSUME Inv, [Next]_vars
    PROVE  acked' \subseteq Entries /\ AckedAreNoted'
  BY AckedAre DEF AckedAreNoted

\* Nobody comes between the look at the ledger and the write.
LEMMA PoisedStep ==
    ASSUME Inv, [Next]_vars
    PROVE  Poised'
<1> SUFFICES ASSUME NEW s \in Servers, pc'[s] = "writing"
             PROVE  (Readable(ledger[home[s]]) /\ todo[s] = NewLines(entry[s], ledger[home[s]]))'
  BY DEF Poised
<1>1. /\ DOMAIN pc = Servers /\ DOMAIN entry = Servers /\ DOMAIN todo = Servers
      /\ ledger \in [Projects -> Seq(Lines)]
  BY DEF Inv, TypeOK
<1>2. CASE Rests(s)
  <2>1. /\ pc[s] = "writing" /\ home'[s] = home[s] /\ todo'[s] = todo[s]
        /\ entry'[s] = entry[s]
    BY <1>2 DEF Rests
  <2>2. /\ home[s] \in Projects /\ Readable(ledger[home[s]])
        /\ todo[s] = NewLines(entry[s], ledger[home[s]])
    BY <2>1, Writer DEF Inv, Poised
  <2>3. ledger'[home[s]] = ledger[home[s]]
    <3>1. ASSUME NEW w \in Servers, pc[w] = "writing", home[w] = home[s] PROVE w = s
      BY <2>1, <3>1 DEF Inv, LockInv, LockOwned, Inside
    <3> QED
      BY <2>2, <3>1, LedgerGrows
  <2> QED
    BY <2>1, <2>2, <2>3 DEF NewLines
<1>3. CASE Check(s)
  <2>1. /\ Readable(ledger[home[s]]) /\ todo'[s] = NewLines(entry[s], ledger[home[s]])
        /\ ledger' = ledger /\ home' = home /\ entry' = entry
    BY <1>1, <1>3 DEF Check, files
  <2> QED
    BY <2>1 DEF NewLines
<1>4. ASSUME \/ Note(s) \/ NoteRaises(s) \/ Create(s) \/ SeeStale(s) \/ TakeOver(s)
             \/ LockTimeout(s) \/ Write(s) \/ Close(s) \/ Remove(s) \/ Crash(s) \/ Call(s)
      PROVE  FALSE
  <2>1. CASE Note(s)
    BY <1>1, <2>1, NoteDoes DEF Answer
  <2>2. CASE Call(s)
    BY <2>2, CallDoes
  <2>3. CASE NoteRaises(s) \/ LockTimeout(s) \/ Remove(s) \/ Crash(s)
    BY <1>1, <2>3 DEF NoteRaises, LockTimeout, Remove, Crash, Answer
  <2>4. CASE Create(s) \/ SeeStale(s) \/ TakeOver(s) \/ Write(s) \/ Close(s)
    BY <1>1, <2>4 DEF Create, SeeStale, TakeOver, Write, Close
  <2> QED
    BY <1>4, <2>1, <2>2, <2>3, <2>4
<1> QED
  BY <1>2, <1>3, <1>4, OwnSteps

\* What is settled was settled before, or is what has just been written.
LEMMA SettledAre ==
    ASSUME Inv, [Next]_vars, NEW p \in Projects, NEW e \in Settled(p)'
    PROVE  \/ e \in Settled(p)
           \/ \E s \in Servers : /\ pc[s] = "writing" /\ home[s] = p /\ e = entry[s]
                                 /\ ledger'[p] = Extend(ledger[p], todo[s])
<1>1. /\ DOMAIN pc = Servers /\ DOMAIN failed = Servers
      /\ ledger \in [Projects -> Seq(Lines)]
  BY DEF Inv, TypeOK
<1>2. CASE e \in acked' /\ e.dir = p
  <2>1. p # NoProject
    BY TraceAssumption DEF TraceAssumption
  <2> QED
    BY <1>2, <2>1, AckedAre DEF Settled
<1>3. ASSUME NEW s \in Servers, pc'[s] \in {"closing", "removing"}, ~failed'[s],
             home'[s] = p, e = entry'[s]
      PROVE  \/ e \in Settled(p)
             \/ /\ pc[s] = "writing" /\ home[s] = p /\ e = entry[s]
                /\ ledger'[p] = Extend(ledger[p], todo[s])
  <2>1. CASE Rests(s)
    BY <1>3, <2>1 DEF Rests, Settled
  <2>2. CASE Close(s)
    BY <1>3, <2>2 DEF Close, Settled
  <2>3. CASE Write(s)
    BY <1>1, <1>3, <2>3 DEF Write
  <2>4. CASE Check(s)
    BY <1>1, <1>3, <2>4 DEF Check
  <2>5. ASSUME \/ Note(s) \/ NoteRaises(s) \/ Create(s) \/ SeeStale(s) \/ TakeOver(s)
               \/ LockTimeout(s) \/ Remove(s) \/ Crash(s) \/ Call(s)
        PROVE  FALSE
    <3>1. CASE Note(s)
      BY <1>1, <1>3, <3>1, NoteDoes DEF Answer
    <3>2. CASE Call(s)
      BY <1>3, <3>2, CallDoes
    <3>3. CASE NoteRaises(s) \/ LockTimeout(s) \/ Remove(s) \/ Crash(s)
      BY <1>1, <1>3, <3>3 DEF NoteRaises, LockTimeout, Remove, Crash, Answer
    <3>4. CASE Create(s) \/ SeeStale(s) \/ TakeOver(s)
      BY <1>1, <1>3, <3>4 DEF Create, SeeStale, TakeOver
    <3> QED
      BY <2>5, <3>1, <3>2, <3>3, <3>4
  <2> QED
    BY <2>1, <2>2, <2>3, <2>4, <2>5, OwnSteps
<1> QED
  BY <1>2, <1>3 DEF Settled

\* A ledger keeps what was settled.
LEMMA KeptStep ==
    ASSUME Inv, [Next]_vars
    PROVE  Kept'
<1> SUFFICES ASSUME NEW p \in Projects, NEW e \in Settled(p)'
             PROVE  Keeps(ledger'[p], e)
  BY DEF Kept, Keeps, RecordedIn, Verifies, Follows, Author, Damaged
<1>1. ledger[p] \in Seq(Lines)
  BY DEF Inv, TypeOK
<1>2. CASE e \in Settled(p)
  <2>1. Keeps(ledger[p], e)
    BY <1>2 DEF Inv, Kept
  <2>2. CASE ledger'[p] = ledger[p]
    BY <2>1, <2>2
  <2>3. ASSUME NEW new \in Seq(Lines), Readable(ledger[p]),
               Grows(ledger[p], new, ledger'[p])
        PROVE  Keeps(ledger'[p], e)
    <3>1. PICK led \in Seq(Lines) : led = ledger[p]
      BY <1>1
    <3>2. PICK longer : longer = ledger'[p]
      OBVIOUS
    <3>3. Keeps(longer, e)
      BY <2>1, <2>3, <3>1, <3>2, KeepsStays
    <3> QED
      BY <3>2, <3>3
  <2> QED
    BY <2>2, <2>3, LedgerGrows
<1>3. ASSUME NEW s \in Servers, pc[s] = "writing", home[s] = p, e = entry[s],
             ledger'[p] = Extend(ledger[p], todo[s])
      PROVE  Keeps(ledger'[p], e)
  <2>1. /\ e \in Entries /\ Readable(ledger[p])
        /\ ledger'[p] = Extend(ledger[p], NewLines(e, ledger[p]))
    BY <1>3, Writer DEF Inv, Poised
  <2>2. Keeps(Extend(ledger[p], NewLines(e, ledger[p])), e)
    BY <1>1, <2>1, AppendKeeps
  <2> QED
    BY <2>1, <2>2
<1> QED
  BY <1>2, <1>3, SettledAre

(***************************************************************************)
(* The invariant holds                                                     *)
(***************************************************************************)

LEMMA InvInit == ASSUME Init PROVE Inv
<1>1. LockInv
  BY LockInit
<1>2. /\ ledger = [p \in Projects |-> << >>] /\ global = [s \in Servers |-> << >>]
      /\ pc = [s \in Servers |-> "idle"] /\ acked = {}
      /\ sequence = [s \in Servers |-> 0] /\ calls = 0
  BY DEF Init
<1>3. TypeOK
  <2>1. << >> \in Seq(Lines) /\ 0 \in 0..MaxCalls /\ 0 \in 0..MaxFaults
    BY TraceAssumption, EmptySeq DEF TraceAssumption
  <2> QED
    BY <1>2, <2>1 DEF Init, TypeOK, Inside, Dirs
<1>4. Named /\ Noted /\ Poised
  BY <1>2 DEF Named, Noted, Poised, Inside
<1>5. Mirror /\ AckedAreNoted /\ MirrorFollowsGlobal
  <2>1. \A p \in Projects : DOMAIN ledger[p] = {}
    BY <1>2
  <2> QED
    BY <1>2, <2>1 DEF Mirror, AckedAreNoted, MirrorFollowsGlobal
<1>6. Kept
  <2>1. \A p \in Projects : Settled(p) = {}
    BY <1>2 DEF Settled
  <2> QED
    BY <2>1 DEF Kept
<1> QED
  BY <1>1, <1>3, <1>4, <1>5, <1>6 DEF Inv

LEMMA TypeStep ==
    ASSUME Inv, [Next]_vars
    PROVE  TypeOK'
<1>1. LockTyped'
  BY LockNext, TraceAssumption DEF Inv, LockInv
<1>2. /\ ledger' \in [Projects -> Seq(Lines)]
      /\ global' \in [Servers -> Seq(Lines)]
      /\ todo' \in [Servers -> Seq(Lines)]
      /\ acked' \subseteq Entries
  BY LedgerTypeStep, GlobalTypeStep, TodoTypeStep, AckedStep
<1>3. old' \in [Projects -> BOOLEAN] /\ failed' \in [Servers -> BOOLEAN]
  BY FlagsTypeStep
<1>4. /\ calls' \in 0..MaxCalls /\ faults' \in 0..MaxFaults
      /\ sequence' \in [Servers -> 0..MaxCalls]
  BY CountTypeStep
<1>5. /\ entry' \in [Servers -> Entries \cup {<< >>}]
      /\ \A s \in Servers : pc'[s] \notin {"idle", "dead"} => entry'[s] \in Entries
  BY EntryTypeStep
<1> QED
  BY <1>1, <1>2, <1>3, <1>4, <1>5 DEF TypeOK, LockTyped, Inside, Dirs

LEMMA InvStep ==
    ASSUME Inv, [Next]_vars
    PROVE  Inv'
<1>1. LockInv'
  BY LockNext, TraceAssumption DEF Inv
<1>2. TypeOK' /\ Named' /\ Noted' /\ Poised'
  BY TypeStep, NamedStep, NotedStep, PoisedStep
<1>3. Mirror' /\ MirrorFollowsGlobal'
  BY MirrorStep, MirrorFollowsGlobalStep
<1>4. AckedAreNoted' /\ Kept'
  BY AckedStep, KeptStep
<1> QED
  BY <1>1, <1>2, <1>3, <1>4 DEF Inv

\* What the traces, the ledgers, the servers at work and the answers given have to
\* do with each other, after any calls, take-overs, crashes and failed writes
\* (workflow_trace.py).
THEOREM TraceInvariant == Spec => []Inv
<1>1. Init => Inv
  BY InvInit
<1>2. Inv /\ [Next]_vars => Inv'
  BY InvStep
<1> QED BY <1>1, <1>2, PTL DEF Spec

(***************************************************************************)
(* What it gives                                                           *)
(***************************************************************************)

\* Every variable has its type, however many servers, projects and calls.
THEOREM TraceTyped == Spec => []TypeOK
<1>1. Inv => TypeOK
  BY DEF Inv
<1> QED BY <1>1, TraceInvariant, PTL

\* A call that was answered with its own result, not with
\* WORKFLOW_TRACE_WRITE_FAILED, is in its server's trace and in the ledger of its
\* project, on a chain that verifies up to it: whatever crashes, fails to write or
\* takes over a lock.  The one exception is the entry that damaged a trace, glued
\* to a line without its newline or split by what it says, and it is the last that
\* trace ever takes (record, _append_jsonl).
THEOREM AcknowledgedIsRecordedHolds == Spec => []AcknowledgedIsRecorded
<1>1. Inv => AcknowledgedIsRecorded
  <2> SUFFICES ASSUME Inv, NEW e \in acked
               PROVE  /\ Keeps(global[e.id[1]], e)
                      /\ e.dir # NoProject => Keeps(ledger[e.dir], e)
    BY DEF AcknowledgedIsRecorded
  <2>1. Keeps(global[e.id[1]], e)
    BY DEF Inv, AckedAreNoted
  <2>2. ASSUME e.dir # NoProject PROVE Keeps(ledger[e.dir], e)
    <3>1. e \in Entries
      BY DEF Inv, TypeOK
    <3>2. e.dir \in Projects
      BY <2>2, <3>1 DEF Entries, Dirs
    <3>3. e \in Settled(e.dir)
      BY DEF Settled
    <3> QED
      BY <3>2, <3>3 DEF Inv, Kept
  <2> QED
    BY <2>1, <2>2
<1> QED BY <1>1, TraceInvariant, PTL

\* get_workflow_trace_status finds an unresolved failure in a ledger until the same
\* operation has succeeded after one, and an entry says it resolves a failure only
\* if the failure's server has put it into its own trace, a failure of that
\* operation in that directory (_last_unresolved_failure, _can_resolve_failure).
THEOREM NoFailureForgottenHolds == Spec => []NoFailureForgotten
<1>1. Inv => NoFailureForgotten
  <2> SUFFICES ASSUME Inv, NEW p \in Projects, NEW i \in DOMAIN ToolEntries(ledger[p])
               PROVE  LET es == ToolEntries(ledger[p]) IN
                 /\ /\ es[i].res = "failed"
                    /\ \A j \in DOMAIN es :
                          j > i /\ es[j].res = "ready" => es[j].op # es[i].op
                    => LastUnresolved(es) # 0
                 /\ es[i].resolves # NoId =>
                        LET trace == global[es[i].resolves[1]]
                        IN  \E k \in DOMAIN trace : /\ Overcomes(es[i], trace[k].entry)
                                                    /\ Keeps(trace, trace[k].entry)
    BY DEF NoFailureForgotten
  <2> DEFINE es == ToolEntries(ledger[p])
  <2>1. ledger[p] \in Seq(Lines)
    BY DEF Inv, TypeOK
  <2>2. i \in DOMAIN ledger[p] /\ es[i] = ledger[p][i].entry
    BY DEF ToolEntries
  <2>3. es[i] \in Entries
    <3>1. ledger[p][i] \in Lines
      BY <2>1, <2>2, ElementOfSeq
    <3> QED
      BY <2>2, <3>1 DEF Lines
  <2>4. ASSUME es[i].res = "failed",
               \A j \in DOMAIN es : j > i /\ es[j].res = "ready" => es[j].op # es[i].op
        PROVE  LastUnresolved(es) # 0
    <3>1. DOMAIN es \subseteq 1..Len(ledger[p]) /\ Len(ledger[p]) \in Nat
      BY <2>1 DEF ToolEntries
    <3>2. i \in Unresolved(es)
      BY <2>4 DEF Unresolved, CanResolve
    <3> QED
      BY <3>1, <3>2, LastUnresolvedIs
  <2>5. GenuineIn(global, es[i])
    BY <2>2 DEF Inv, Mirror
  <2> QED
    BY <2>4, <2>5 DEF GenuineIn
<1> QED BY <1>1, TraceInvariant, PTL

\* The mirror in the project directory is never ahead of the trace of the server
\* that wrote it, and has its entries in the order of its calls; what it has is
\* readable in that trace, but for the entry that damaged the trace (record).
THEOREM MirrorFollowsGlobalHolds == Spec => []MirrorFollowsGlobal
<1>1. Inv => MirrorFollowsGlobal
  BY DEF Inv
<1> QED BY <1>1, TraceInvariant, PTL
=============================================================================
