------------------------ MODULE ManagedStorageProofs ------------------------
(***************************************************************************)
(* Proofs about the places servers share, for any number of servers and    *)
(* staged names and any bounds: an invariant for each place alone, and     *)
(* then of their composition that managed writes destroy nothing, that a   *)
(* cleanup deletes what was reviewed, that a board is programmed as        *)
(* confirmed, and that the verdicts on a bundle are true.                  *)
(***************************************************************************)
EXTENDS ManagedStorage, TLAPS

(***************************************************************************)
(* Managed files: the inductive invariant                                  *)
(***************************************************************************)

\* A server that replaces the target on Windows and has not moved it away yet.
Pins(w) == /\ windows /\ writer[w].seen # NoFile
           /\ writer[w].at \in {"create", "fill", "displace"}

\* What a server at each step relies on: where it is on which system, what is in
\* its quarantine, what is in its temporary file, and what it pins.
Sound(w) ==
    LET at == writer[w].at  q == disk[Quarantine(w)]  t == disk[Temp(w)] IN
    /\ at = "replace" => ~windows
    /\ at \in {"displace", "install", "retire"} => windows
    /\ at \in {"open", "create", "fill", "displace", "replace"} => q = NoFile
    /\ at \in {"install", "retire"} => q = writer[w].seen
    /\ at \in {"displace", "retire"} => writer[w].seen # NoFile
    /\ at \in {"fill", "displace", "install", "replace"} => t \in Files
    /\ at \in {"displace", "install", "replace"} => t.data # Partial
    /\ q # NoFile => q.data # Partial
    /\ writer[w].kind = "copy" => writer[w].src # NoFile
    /\ Pins(w) => disk[Leaf] = writer[w].seen

WholeFiles == \A n \in {Leaf, Source} : disk[n] # NoFile => disk[n].data # Partial

\* No two servers hold the same target.
Exclusive == \A v, w \in Writers : v # w =>
    \A f \in Files : ~(HoldsTarget(v, f) /\ HoldsTarget(w, f))

FilesInv == FilesTypeOK /\ WholeFiles /\ Exclusive /\ \A w \in Writers : Sound(w)

(***************************************************************************)
(* Managed files: every step keeps it                                      *)
(***************************************************************************)

LEMMA NamesAre ==
    /\ Leaf \in Names /\ Source \in Names /\ Leaf # Source
    /\ \A w \in Writers : /\ Temp(w) \in Names /\ Quarantine(w) \in Names
                          /\ Temp(w) \notin {Leaf, Source, Quarantine(w)}
                          /\ Quarantine(w) \notin {Leaf, Source}
    /\ \A v, w \in Writers : /\ Temp(v) # Quarantine(w)
                             /\ v # w => Temp(v) # Temp(w) /\ Quarantine(v) # Quarantine(w)
  BY DEF Names, Leaf, Source, Temp, Quarantine

\* A step of one server keeps the invariant if it keeps what that server relies on,
\* pins no target another one holds, and moves no target another one has pinned.
LEMMA ServerStep ==
    ASSUME FilesInv, NEW w \in Writers, NEW r \in Operations,
           writer' = [writer EXCEPT ![w] = r], FilesTypeOK', UNCHANGED windows,
           \A v \in Writers \ {w} : /\ disk'[Temp(v)] = disk[Temp(v)]
                                    /\ disk'[Quarantine(v)] = disk[Quarantine(v)],
           disk'[Leaf] = disk[Leaf] \/ \A v \in Writers \ {w} : ~Pins(v),
           \A v \in Writers \ {w}, f \in Files :
               HoldsTarget(w, f)' => HoldsTarget(w, f) \/ ~HoldsTarget(v, f),
           WholeFiles', Sound(w)'
    PROVE  FilesInv'
<1>1. writer \in [Writers -> Operations]
  BY DEF FilesInv, FilesTypeOK
<1>2. \A v \in Writers \ {w} : writer'[v] = writer[v]
  BY <1>1
<1>3. ASSUME NEW v \in Writers \ {w} PROVE Sound(v)'
  <2>1. Sound(v) /\ writer'[v] = writer[v] /\ windows' = windows
    BY <1>2, <1>3 DEF FilesInv
  <2>2. disk'[Temp(v)] = disk[Temp(v)] /\ disk'[Quarantine(v)] = disk[Quarantine(v)]
    BY <1>3
  <2>3. disk'[Leaf] = disk[Leaf] \/ ~Pins(v)
    BY <1>3
  <2> QED
    BY <2>1, <2>2, <2>3 DEF Sound, Pins
<1>4. \A v \in Writers \ {w}, f \in Files : HoldsTarget(v, f)' = HoldsTarget(v, f)
  BY <1>2 DEF HoldsTarget
<1>5. Exclusive'
  <2> SUFFICES ASSUME NEW u \in Writers, NEW v \in Writers, u # v, NEW f \in Files,
                      HoldsTarget(u, f)', HoldsTarget(v, f)'
               PROVE  FALSE
    BY DEF Exclusive
  <2>1. HoldsTarget(u, f) /\ HoldsTarget(v, f)
    BY <1>4
  <2> QED
    BY <2>1 DEF FilesInv, Exclusive
<1> QED
  BY <1>3, <1>5 DEF FilesInv

\* A step that goes on without touching the disk, but not to where something is
\* held that was not.
LEMMA GoesOn ==
    ASSUME FilesInv, NEW w \in Writers, NEW step, Go(w, step),
           step \in {"failed", "rollback", "cleanup", "dead"},
           writer[w].at # "open" \/ step \in {"failed", "dead"},
           step \in {"rollback", "cleanup"} => writer[w].at \notin Ended \cup {"dead"},
           UNCHANGED <<windows, disk, made>>
    PROVE  FilesInv'
<1>1. /\ writer \in [Writers -> Operations] /\ Sound(w) /\ WholeFiles
      /\ FilesTypeOK
  BY DEF FilesInv, FilesTypeOK
<1> DEFINE r == [writer[w] EXCEPT !.at = step]
<1>2. r \in Operations /\ writer' = [writer EXCEPT ![w] = r] /\ r.at = step
      /\ r.kind = writer[w].kind /\ r.src = writer[w].src /\ r.seen = writer[w].seen
  BY <1>1 DEF Go, Operations, Ended
<1> HIDE DEF r
<1>3. writer'[w] = r
  BY <1>1, <1>2
<1>4. FilesTypeOK' /\ WholeFiles'
  BY <1>1, <1>2 DEF FilesTypeOK, PlatformTypeOK, WholeFiles
<1>5. Sound(w)'
  BY <1>1, <1>2, <1>3 DEF Sound, Pins
<1>6. \A f \in Files : HoldsTarget(w, f)' => HoldsTarget(w, f)
  BY <1>2, <1>3 DEF HoldsTarget, Ended
<1> QED
  BY <1>2, <1>4, <1>5, <1>6, ServerStep

LEMMA BeginKeeps ==
    ASSUME FilesInv, NEW w \in Writers, BeginWrite(w) \/ BeginCopy(w)
    PROVE  FilesInv'
<1>1. /\ writer \in [Writers -> Operations] /\ Sound(w) /\ WholeFiles /\ FilesTypeOK
      /\ disk \in [Names -> Files \cup {NoFile}] /\ windows \in BOOLEAN
  BY DEF FilesInv, FilesTypeOK, PlatformTypeOK
<1>2. PICK r \in Operations :
        /\ writer' = [writer EXCEPT ![w] = r]
        /\ r.seen = disk[Leaf] /\ (r.kind = "copy" => r.src # NoFile)
        /\ r.at = (IF windows THEN "open" ELSE "create") \/ r.at = "failed"
        /\ disk[Quarantine(w)] = NoFile
        /\ UNCHANGED <<windows, disk, made>>
  <2>1. disk[Leaf] \in Files \cup {NoFile} /\ disk[Source] \in Files \cup {NoFile}
    BY <1>1, NamesAre
  <2>2. CASE BeginWrite(w)
    <3> DEFINE r == [kind |-> "write", at |-> First, seen |-> disk[Leaf], src |-> NoFile]
    <3>1. r \in Operations
      BY <2>1 DEF Operations, First
    <3>2. /\ writer' = [writer EXCEPT ![w] = r] /\ disk[Quarantine(w)] = NoFile
          /\ UNCHANGED <<windows, disk, made>>
      BY <2>2 DEF BeginWrite, Begin
    <3> QED
      BY <3>1, <3>2 DEF First
  <2>3. CASE BeginCopy(w)
    <3> DEFINE r == [kind |-> "copy", at |-> IF disk[Leaf] = NoFile THEN First ELSE "failed",
                     seen |-> disk[Leaf], src |-> disk[Source]]
    <3>1. r \in Operations
      BY <2>1 DEF Operations, First, Ended
    <3>2. /\ writer' = [writer EXCEPT ![w] = r] /\ disk[Quarantine(w)] = NoFile
          /\ disk[Source] # NoFile /\ UNCHANGED <<windows, disk, made>>
      BY <2>3 DEF BeginCopy, Begin
    <3> QED
      BY <3>1, <3>2 DEF First
  <2> QED
    BY <2>2, <2>3
<1>3. writer'[w] = r
  BY <1>1, <1>2
<1>4. FilesTypeOK' /\ WholeFiles'
  BY <1>1, <1>2 DEF FilesTypeOK, PlatformTypeOK, WholeFiles
<1>5. Sound(w)'
  BY <1>1, <1>2, <1>3 DEF Sound, Pins
<1>6. \A f \in Files : ~HoldsTarget(w, f)'
  BY <1>2, <1>3 DEF HoldsTarget, Ended
<1> QED
  BY <1>2, <1>4, <1>5, <1>6, ServerStep

LEMMA OpenKeeps ==
    ASSUME FilesInv, NEW w \in Writers, Open(w)
    PROVE  FilesInv'
<1>1. /\ writer \in [Writers -> Operations] /\ Sound(w) /\ WholeFiles /\ FilesTypeOK
  BY DEF FilesInv, FilesTypeOK
<1>2. CASE ~Unchanged(w)
  BY <1>2, GoesOn DEF Open, At
<1>3. CASE Unchanged(w)
  <2> DEFINE r == [writer[w] EXCEPT !.at = "create"]
  <2>1. /\ r \in Operations /\ writer' = [writer EXCEPT ![w] = r] /\ r.at = "create"
        /\ r.kind = writer[w].kind /\ r.src = writer[w].src /\ r.seen = writer[w].seen
        /\ writer[w].at = "open" /\ UNCHANGED <<windows, disk, made>>
    BY <1>1, <1>3 DEF Open, Go, At, Operations
  <2> HIDE DEF r
  <2>2. writer'[w] = r
    BY <1>1, <2>1
  <2>3. writer[w].seen # NoFile =>
           /\ disk[Leaf] = writer[w].seen
           /\ \A v \in Writers \ {w} : ~HoldsTarget(v, writer[w].seen)
    BY <1>3 DEF Unchanged
  <2>4. FilesTypeOK' /\ WholeFiles'
    BY <1>1, <2>1 DEF FilesTypeOK, PlatformTypeOK, WholeFiles
  <2>5. Sound(w)'
    BY <1>1, <2>1, <2>2, <2>3 DEF Sound, Pins
  <2>6. \A f \in Files : HoldsTarget(w, f)' => f = writer[w].seen /\ f # NoFile
    BY <2>1, <2>2 DEF HoldsTarget
  <2>7. \A v \in Writers \ {w}, f \in Files : HoldsTarget(w, f)' => ~HoldsTarget(v, f)
    BY <2>3, <2>6
  <2> QED
    BY <2>1, <2>4, <2>5, <2>7, ServerStep
<1> QED
  BY <1>2, <1>3

\* A server that goes on in its own temporary file.
LEMMA FillsTemp ==
    ASSUME FilesInv, NEW w \in Writers, NEW f \in Files, NEW step,
           \/ /\ At(w, "create") /\ step = "fill" /\ made' \in 1..MaxFile
           \/ /\ At(w, "fill") /\ f.data # Partial /\ UNCHANGED made
              /\ \/ step = "replace" /\ ~windows
                 \/ step = "displace" /\ windows /\ writer[w].seen # NoFile
                 \/ step = "install" /\ windows /\ writer[w].seen = NoFile,
           disk' = [disk EXCEPT ![Temp(w)] = f], Go(w, step), UNCHANGED windows
    PROVE  FilesInv'
<1>1. /\ writer \in [Writers -> Operations] /\ Sound(w) /\ WholeFiles /\ FilesTypeOK
      /\ disk \in [Names -> Files \cup {NoFile}]
  BY DEF FilesInv, FilesTypeOK
<1> DEFINE r == [writer[w] EXCEPT !.at = step]
<1>2. step \in {"fill", "replace", "displace", "install"}
  OBVIOUS
<1>3. r \in Operations /\ writer' = [writer EXCEPT ![w] = r] /\ r.at = step
      /\ r.kind = writer[w].kind /\ r.src = writer[w].src /\ r.seen = writer[w].seen
  BY <1>1, <1>2 DEF Go, Operations
<1> HIDE DEF r
<1>4. writer'[w] = r
  BY <1>1, <1>3
<1>5. /\ disk'[Leaf] = disk[Leaf] /\ disk'[Source] = disk[Source]
      /\ disk'[Temp(w)] = f /\ disk'[Quarantine(w)] = disk[Quarantine(w)]
      /\ \A v \in Writers \ {w} : /\ disk'[Temp(v)] = disk[Temp(v)]
                                  /\ disk'[Quarantine(v)] = disk[Quarantine(v)]
  BY <1>1, NamesAre
<1>6. FilesTypeOK' /\ WholeFiles'
  BY <1>1, <1>3, <1>5, NamesAre DEF FilesTypeOK, PlatformTypeOK, WholeFiles
<1>7. Sound(w)'
  <2>1. /\ step = "replace" => ~windows
        /\ step \in {"displace", "install"} => windows
        /\ step = "displace" => writer[w].seen # NoFile
        /\ step = "install" => writer[w].seen = NoFile
        /\ step # "fill" => f.data # Partial
    BY <1>1 DEF FilesTypeOK, PlatformTypeOK
  <2>2. writer[w].at \in {"create", "fill"}
    BY DEF At
  <2>3. /\ disk[Quarantine(w)] = NoFile
        /\ writer[w].kind = "copy" => writer[w].src # NoFile
        /\ windows /\ writer[w].seen # NoFile => disk[Leaf] = writer[w].seen
    BY <1>1, <2>2 DEF Sound, Pins
  <2> QED
    BY <1>2, <1>3, <1>4, <1>5, <2>1, <2>3 DEF Sound, Pins
<1>8. \A g \in Files : HoldsTarget(w, g)' => HoldsTarget(w, g)
  BY <1>3, <1>4 DEF HoldsTarget, Ended, At
<1> QED
  BY <1>3, <1>5, <1>6, <1>7, <1>8, ServerStep

LEMMA FillKeeps ==
    ASSUME FilesInv, NEW w \in Writers, CreateTemp(w) \/ FillWrite(w) \/ FillCopy(w)
    PROVE  FilesInv'
<1>1. /\ writer \in [Writers -> Operations] /\ Sound(w) /\ WholeFiles
      /\ disk \in [Names -> Files \cup {NoFile}] /\ made \in 1..MaxFile
      /\ MaxFile \in Nat
  BY ManagedFilesAssumption DEF ManagedFilesAssumption, FilesInv, FilesTypeOK
<1>2. CASE CreateTemp(w)
  <2>1. [id |-> made', data |-> Partial] \in Files /\ made' \in 1..MaxFile
    BY <1>1, <1>2 DEF CreateTemp, Files, Partial
  <2> QED
    BY <1>2, <2>1, FillsTemp DEF CreateTemp
<1>3. ASSUME NEW d \in 1..MaxFile, disk' = [disk EXCEPT ![Temp(w)].data = d],
             At(w, "fill"), Filled(w)
      PROVE  FilesInv'
  <2> DEFINE f == [disk[Temp(w)] EXCEPT !.data = d]
  <2>1. disk[Temp(w)] \in Files
    BY <1>1, <1>3 DEF Sound, At
  <2>2. f \in Files /\ f.data # Partial /\ disk' = [disk EXCEPT ![Temp(w)] = f]
    BY <1>1, <1>3, <2>1 DEF Files, Partial
  <2> HIDE DEF f
  <2>3. /\ UNCHANGED <<windows, made>> /\ windows \in BOOLEAN
        /\ \/ Go(w, "replace") /\ ~windows
           \/ Go(w, "displace") /\ windows /\ writer[w].seen # NoFile
           \/ Go(w, "install") /\ windows /\ writer[w].seen = NoFile
    BY <1>3 DEF Filled, FilesInv, FilesTypeOK, PlatformTypeOK
  <2> QED
    BY <1>3, <2>2, <2>3, FillsTemp
<1>4. CASE FillWrite(w)
  <2>1. disk[Temp(w)].id \in 1..MaxFile
    BY <1>1, <1>4 DEF FillWrite, Sound, At, Files
  <2> QED
    BY <1>3, <1>4, <2>1 DEF FillWrite
<1>5. CASE FillCopy(w)
  <2>1. disk[Source] # NoFile /\ disk[Source] \in Files
    BY <1>1, <1>5, NamesAre DEF FillCopy, Sound
  <2>2. disk[Source].data \in 1..MaxFile
    BY <1>1, <2>1 DEF Files, WholeFiles, Partial
  <2> QED
    BY <1>3, <1>5, <2>2 DEF FillCopy
<1> QED
  BY <1>2, <1>4, <1>5

\* The steps that move the target and the files that take its place.
LEMMA MoveKeeps ==
    ASSUME FilesInv, NEW w \in Writers, Displace(w) \/ Install(w) \/ Retire(w) \/ Replace(w)
    PROVE  FilesInv'
<1>1. /\ writer \in [Writers -> Operations] /\ Sound(w) /\ WholeFiles /\ FilesTypeOK
      /\ disk \in [Names -> Files \cup {NoFile}]
  BY DEF FilesInv, FilesTypeOK
<1>2. PICK step \in {"install", "retire", "done"} : Go(w, step)
  BY DEF Displace, Install, Retire, Replace
<1> DEFINE r == [writer[w] EXCEPT !.at = step]
<1>3. r \in Operations /\ writer' = [writer EXCEPT ![w] = r] /\ r.at = step
      /\ r.kind = writer[w].kind /\ r.src = writer[w].src /\ r.seen = writer[w].seen
  BY <1>1, <1>2 DEF Go, Operations, Ended
<1> HIDE DEF r
<1>4. writer'[w] = r /\ UNCHANGED <<windows, made>>
  BY <1>1, <1>3 DEF Displace, Install, Retire, Replace
<1>4a. ASSUME NEW at, Go(w, at) PROVE step = at
  <2>1. writer'[w] = [writer[w] EXCEPT !.at = at]
    BY <1>1, <1>4a DEF Go
  <2>2. [writer[w] EXCEPT !.at = at].at = at
    BY <1>1 DEF Operations
  <2> QED
    BY <1>3, <1>4, <2>1, <2>2
<1>5. /\ disk' \in [Names -> Files \cup {NoFile}]
      /\ disk'[Source] = disk[Source]
      /\ \A v \in Writers \ {w} : /\ disk'[Temp(v)] = disk[Temp(v)]
                                  /\ disk'[Quarantine(v)] = disk[Quarantine(v)]
  BY <1>1, NamesAre DEF Displace, Install, Retire, Replace
<1>6. FilesTypeOK'
  BY <1>1, <1>3, <1>4, <1>5 DEF FilesTypeOK, PlatformTypeOK
<1>7. ASSUME NEW f \in Files, HoldsTarget(w, f)' PROVE HoldsTarget(w, f)
  BY <1>3, <1>4, <1>7 DEF HoldsTarget, Ended, Displace, Install, Retire, Replace, At
<1>8. ASSUME Sound(w)', WholeFiles',
             disk'[Leaf] = disk[Leaf] \/ \A v \in Writers \ {w} : ~Pins(v)
      PROVE  FilesInv'
  BY <1>3, <1>4, <1>5, <1>6, <1>7, <1>8, ServerStep
<1>9. CASE Displace(w)
  <2>1. /\ At(w, "displace") /\ step = "install"
        /\ disk'[Leaf] = NoFile /\ disk'[Quarantine(w)] = disk[Leaf]
        /\ disk'[Temp(w)] = disk[Temp(w)]
    BY <1>1, <1>4a, <1>9, NamesAre DEF Displace
  <2>2. windows /\ writer[w].seen # NoFile /\ disk[Leaf] = writer[w].seen
    BY <1>1, <2>1 DEF Sound, Pins, At
  <2>3. disk[Leaf] \in Files
    BY <1>1, <2>2, NamesAre
  <2>4. ASSUME NEW v \in Writers \ {w}, Pins(v) PROVE FALSE
    <3>1. disk[Leaf] = writer[v].seen
      BY <2>4 DEF FilesInv, Sound
    <3>2. HoldsTarget(v, disk[Leaf]) /\ HoldsTarget(w, disk[Leaf])
      BY <2>1, <2>2, <2>4, <3>1 DEF HoldsTarget, Pins, Ended, At
    <3> QED
      BY <2>3, <2>4, <3>2 DEF FilesInv, Exclusive
  <2>5. WholeFiles'
    BY <1>1, <1>5, <2>1 DEF WholeFiles
  <2>6. Sound(w)'
    BY <1>1, <1>3, <1>4, <2>1, <2>2 DEF Sound, Pins, WholeFiles, At
  <2> QED
    BY <1>8, <2>4, <2>5, <2>6
<1>10. CASE Install(w)
  <2>1. /\ At(w, "install") /\ disk[Leaf] = NoFile
        /\ disk'[Leaf] = disk[Temp(w)] /\ disk'[Temp(w)] = NoFile
        /\ disk'[Quarantine(w)] = disk[Quarantine(w)]
        /\ step = (IF writer[w].seen # NoFile THEN "retire" ELSE "done")
    BY <1>1, <1>4a, <1>10, NamesAre DEF Install
  <2>2. \A v \in Writers \ {w} : ~Pins(v)
    BY <2>1 DEF FilesInv, Sound, Pins
  <2>3. WholeFiles'
    BY <1>1, <1>5, <2>1 DEF WholeFiles, Sound, At
  <2>4. Sound(w)'
    BY <1>1, <1>3, <1>4, <2>1 DEF Sound, Pins, At
  <2> QED
    BY <1>8, <2>2, <2>3, <2>4
<1>11. CASE Retire(w)
  <2>1. /\ step = "done" /\ disk'[Leaf] = disk[Leaf] /\ disk'[Temp(w)] = disk[Temp(w)]
        /\ disk'[Quarantine(w)] = NoFile
    BY <1>1, <1>4a, <1>11, NamesAre DEF Retire
  <2>2. WholeFiles'
    BY <1>1, <1>5, <2>1 DEF WholeFiles
  <2>3. Sound(w)'
    BY <1>1, <1>3, <1>4, <2>1 DEF Sound, Pins
  <2> QED
    BY <1>8, <2>1, <2>2, <2>3
<1>12. CASE Replace(w)
  <2>1. /\ At(w, "replace") /\ step = "done" /\ disk'[Leaf] = disk[Temp(w)]
        /\ disk'[Temp(w)] = NoFile /\ disk'[Quarantine(w)] = disk[Quarantine(w)]
    BY <1>1, <1>4a, <1>12, NamesAre DEF Replace
  <2>2. \A v \in Writers \ {w} : ~Pins(v)
    BY <1>1, <2>1 DEF Sound, Pins, At
  <2>3. WholeFiles'
    BY <1>1, <1>5, <2>1 DEF WholeFiles, Sound, At
  <2>4. Sound(w)'
    BY <1>1, <1>3, <1>4, <2>1 DEF Sound, Pins
  <2> QED
    BY <1>8, <2>2, <2>3, <2>4
<1> QED
  BY <1>9, <1>10, <1>11, <1>12

\* What a server does when something went wrong.
LEMMA GiveUpKeeps ==
    ASSUME FilesInv, NEW w \in Writers, Raise(w) \/ Rollback(w) \/ Cleanup(w) \/ Die(w)
    PROVE  FilesInv'
<1>1. /\ writer \in [Writers -> Operations] /\ Sound(w) /\ WholeFiles /\ FilesTypeOK
      /\ disk \in [Names -> Files \cup {NoFile}]
  BY DEF FilesInv, FilesTypeOK
<1>2. CASE Raise(w)
  <2>1. PICK step \in {"failed", "rollback", "cleanup"} : Go(w, step)
    BY <1>2 DEF Raise
  <2>2. /\ writer[w].at \notin Ended \cup {"open", "dead"}
        /\ UNCHANGED <<windows, disk, made>>
    BY <1>2 DEF Raise, Ended
  <2> QED
    BY <2>1, <2>2, GoesOn
<1>3. CASE Die(w)
  BY <1>3, GoesOn DEF Die
<1>4. CASE Rollback(w) \/ Cleanup(w)
  <2>1. PICK step \in {"cleanup", "failed", "leaked"} : Go(w, step)
    BY <1>4 DEF Rollback, Cleanup
  <2> DEFINE r == [writer[w] EXCEPT !.at = step]
  <2>2. r \in Operations /\ writer' = [writer EXCEPT ![w] = r] /\ r.at = step
        /\ r.kind = writer[w].kind /\ r.src = writer[w].src /\ r.seen = writer[w].seen
    BY <1>1, <2>1 DEF Go, Operations, Ended
  <2> HIDE DEF r
  <2>3. writer'[w] = r /\ UNCHANGED <<windows, made>>
    BY <1>1, <1>4, <2>2 DEF Rollback, Cleanup
  <2>4. /\ disk' \in [Names -> Files \cup {NoFile}]
        /\ disk'[Source] = disk[Source]
        /\ disk'[Quarantine(w)] \in {disk[Quarantine(w)], NoFile}
        /\ \A v \in Writers \ {w} : /\ disk'[Temp(v)] = disk[Temp(v)]
                                    /\ disk'[Quarantine(v)] = disk[Quarantine(v)]
        /\ \/ disk'[Leaf] = disk[Leaf]
           \/ disk[Leaf] = NoFile /\ disk'[Leaf] = disk[Quarantine(w)]
    BY <1>1, <1>4, NamesAre DEF Rollback, Cleanup
  <2>5. FilesTypeOK'
    BY <1>1, <2>2, <2>3, <2>4 DEF FilesTypeOK, PlatformTypeOK
  <2>6. disk'[Leaf] = disk[Leaf] \/ \A v \in Writers \ {w} : ~Pins(v)
    BY <2>4 DEF FilesInv, Sound, Pins
  <2>7. WholeFiles'
    BY <1>1, <2>4 DEF WholeFiles, Sound
  <2>8. Sound(w)'
    BY <1>1, <2>2, <2>3, <2>4 DEF Sound, Pins
  <2>9. \A f \in Files : HoldsTarget(w, f)' => HoldsTarget(w, f)
    BY <1>4, <2>2, <2>3 DEF HoldsTarget, Ended, Rollback, Cleanup, At
  <2> QED
    BY <2>2, <2>3, <2>4, <2>5, <2>6, <2>7, <2>8, <2>9, ServerStep
<1> QED
  BY <1>2, <1>3, <1>4

\* The user changes no file that is pinned.
LEMMA UserKeeps ==
    ASSUME FilesInv, NEW n \in {Leaf, Source}, Edit(n) \/ Remove(n)
    PROVE  FilesInv'
<1>1. /\ WholeFiles /\ FilesTypeOK /\ disk \in [Names -> Files \cup {NoFile}]
      /\ made \in 1..MaxFile /\ MaxFile \in Nat
  BY ManagedFilesAssumption DEF ManagedFilesAssumption, FilesInv, FilesTypeOK
<1>2. PICK f \in Files \cup {NoFile} :
        /\ disk' = [disk EXCEPT ![n] = f] /\ (f # NoFile => f.data # Partial)
        /\ Free(disk[n]) /\ made' \in 1..MaxFile /\ UNCHANGED <<windows, writer>>
  BY <1>1 DEF Edit, Remove, Files, Partial
<1>3. n \in Names /\ \A m \in Names : disk'[m] = (IF m = n THEN f ELSE disk[m])
  BY <1>1, <1>2, NamesAre
<1>4. FilesTypeOK' /\ WholeFiles'
  BY <1>1, <1>2, <1>3, NamesAre DEF FilesTypeOK, PlatformTypeOK, WholeFiles
<1>5. Exclusive'
  BY <1>2 DEF FilesInv, Exclusive, HoldsTarget
<1>6. ASSUME NEW w \in Writers PROVE Sound(w)'
  <2>1. disk'[Temp(w)] = disk[Temp(w)] /\ disk'[Quarantine(w)] = disk[Quarantine(w)]
    BY <1>3, NamesAre
  <2>2. Pins(w) => disk'[Leaf] = disk[Leaf]
    <3>1. CASE n = Leaf /\ Pins(w)
      <4>1. disk[Leaf] = writer[w].seen /\ disk[Leaf] # NoFile
        BY <3>1 DEF FilesInv, Sound, Pins
      <4>2. HoldsTarget(w, disk[Leaf])
        BY <3>1, <4>1 DEF HoldsTarget, Pins, Ended
      <4> QED
        BY <1>2, <3>1, <4>2 DEF Free
    <3> QED
      BY <1>3, <3>1, NamesAre
  <2>3. writer' = writer /\ windows' = windows /\ Sound(w)
    BY <1>2 DEF FilesInv
  <2> QED
    BY <2>1, <2>2, <2>3 DEF Sound, Pins
<1> QED
  BY <1>4, <1>5, <1>6 DEF FilesInv

LEMMA FilesBegin == ASSUME FilesInit PROVE FilesInv
<1> DEFINE r == [at |-> "idle", kind |-> "write", seen |-> NoFile, src |-> NoFile]
<1>1. r \in Operations /\ 1 \in 1..MaxFile /\ 2 \in 1..MaxFile
  BY ManagedFilesAssumption DEF ManagedFilesAssumption, Operations, Ended
<1>2. /\ writer = [w \in Writers |-> r] /\ windows \in BOOLEAN /\ made = 2
      /\ disk = [n \in Names |-> IF n = Leaf THEN [id |-> 1, data |-> 1]
                                 ELSE IF n = Source THEN [id |-> 2, data |-> 2] ELSE NoFile]
  BY DEF FilesInit, PlatformTypeOK
<1>3. /\ disk[Leaf] = [id |-> 1, data |-> 1] /\ disk[Source] = [id |-> 2, data |-> 2]
      /\ \A w \in Writers : disk[Quarantine(w)] = NoFile
  BY <1>2, NamesAre
<1>4. disk \in [Names -> Files \cup {NoFile}]
  <2>1. \A i \in {1, 2} : [id |-> i, data |-> i] \in Files
    BY <1>1, ManagedFilesAssumption DEF ManagedFilesAssumption, Files
  <2> QED
    BY <1>2, <2>1
<1>5. FilesTypeOK
  BY <1>1, <1>2, <1>4 DEF FilesTypeOK, PlatformTypeOK
<1>6. WholeFiles
  BY <1>3 DEF WholeFiles, Partial
<1>7. Exclusive
  BY <1>2 DEF Exclusive, HoldsTarget, Ended
<1>8. \A w \in Writers : Sound(w)
  BY <1>2, <1>3 DEF Sound, Pins
<1> QED
  BY <1>5, <1>6, <1>7, <1>8 DEF FilesInv

LEMMA FilesStep == ASSUME FilesInv, [FilesNext]_fileVars PROVE FilesInv'
<1>1. CASE UNCHANGED fileVars
  BY <1>1 DEF fileVars, FilesInv, FilesTypeOK, PlatformTypeOK, WholeFiles, Exclusive,
              HoldsTarget, Sound, Pins
<1>2. CASE FilesNext
  BY <1>2, BeginKeeps, OpenKeeps, FillKeeps, MoveKeeps, GiveUpKeeps, UserKeeps DEF FilesNext
<1> QED
  BY <1>1, <1>2

\* Whatever is done in the target directory, the invariant holds (managed_path.py).
THEOREM FilesInvariant == FilesSpec => []FilesInv
<1>1. FilesInit => FilesInv
  BY FilesBegin
<1>2. FilesInv /\ [FilesNext]_fileVars => FilesInv'
  BY FilesStep
<1> QED BY <1>1, <1>2, PTL DEF FilesSpec

(***************************************************************************)
(* Managed files: nothing is destroyed                                     *)
(***************************************************************************)

Replaces(w) ==
    /\ disk'[Leaf] # NoFile => disk'[Leaf].data # Partial
    /\ \A f \in OnDisk \ OnDisk' :
          \/ f = disk[Temp(w)]
          \/ windows /\ At(w, "retire") /\ f = writer[w].seen
          \/ ~windows /\ f = disk[Leaf] /\ disk'[Leaf] = disk[Temp(w)]

\* A file is gone only if no name has it.
LEMMA GoneIs ==
    ASSUME NEW f \in OnDisk \ OnDisk', disk \in [Names -> Files \cup {NoFile}]
    PROVE  f # NoFile /\ \E n \in Names : disk[n] = f /\ \A m \in Names : disk'[m] # f
  BY DEF OnDisk

LEMMA ServerReplaces ==
    ASSUME FilesInv, NEW w \in Writers,
           \/ BeginWrite(w) \/ BeginCopy(w) \/ Open(w) \/ CreateTemp(w)
           \/ FillWrite(w) \/ FillCopy(w) \/ Displace(w) \/ Install(w) \/ Retire(w)
           \/ Replace(w) \/ Raise(w) \/ Rollback(w) \/ Cleanup(w) \/ Die(w)
    PROVE  Replaces(w)
<1>1. /\ disk \in [Names -> Files \cup {NoFile}] /\ Sound(w)
  BY DEF FilesInv, FilesTypeOK
<1>2. WholeFiles'
  BY BeginKeeps, OpenKeeps, FillKeeps, MoveKeeps, GiveUpKeeps DEF FilesInv
<1> SUFFICES ASSUME NEW f \in OnDisk \ OnDisk'
             PROVE  \/ f = disk[Temp(w)]
                    \/ windows /\ At(w, "retire") /\ f = writer[w].seen
                    \/ ~windows /\ f = disk[Leaf] /\ disk'[Leaf] = disk[Temp(w)]
  BY <1>2 DEF Replaces, WholeFiles
<1>3. PICK n \in Names : disk[n] = f /\ f # NoFile /\ \A m \in Names : disk'[m] # f
  BY <1>1, GoneIs
<1>4. ASSUME disk' = disk PROVE FALSE
  BY <1>3, <1>4
<1>5. ASSUME NEW x, disk' = [disk EXCEPT ![Temp(w)] = x] PROVE f = disk[Temp(w)]
  BY <1>1, <1>3, <1>5
<1>6. CASE CreateTemp(w) \/ FillWrite(w) \/ FillCopy(w) \/ Cleanup(w)
  BY <1>4, <1>5, <1>6 DEF CreateTemp, FillWrite, FillCopy, Cleanup
<1>7. CASE Displace(w)
  <2>1. disk[Quarantine(w)] = NoFile
    BY <1>1, <1>7 DEF Displace, At, Sound
  <2>2. n = Leaf
    BY <1>1, <1>3, <1>7, <2>1 DEF Displace
  <2>3. disk'[Quarantine(w)] = f
    BY <1>1, <1>3, <1>7, <2>2, NamesAre DEF Displace
  <2> QED
    BY <1>3, <2>3, NamesAre
<1>8. CASE Install(w)
  <2>1. disk'[Leaf] = disk[Temp(w)] /\ disk[Leaf] = NoFile
    BY <1>1, <1>8, NamesAre DEF Install
  <2>2. n = Temp(w)
    BY <1>1, <1>3, <1>8, <2>1 DEF Install
  <2> QED
    BY <1>3, <2>2
<1>9. CASE Retire(w)
  <2>1. /\ windows /\ At(w, "retire")
        /\ disk[Quarantine(w)] = writer[w].seen
    BY <1>1, <1>9 DEF Retire, Sound, At
  <2>2. n = Quarantine(w)
    BY <1>1, <1>3, <1>9 DEF Retire
  <2> QED
    BY <1>3, <2>1, <2>2
<1>10. CASE Replace(w)
  <2>1. ~windows /\ disk'[Leaf] = disk[Temp(w)]
    BY <1>1, <1>10, NamesAre DEF Replace, Sound, At
  <2>2. n \in {Leaf, Temp(w)}
    BY <1>1, <1>3, <1>10 DEF Replace
  <2> QED
    BY <1>3, <2>1, <2>2
<1>11. CASE Rollback(w)
  <2>1. \/ disk' = disk
        \/ disk'[Leaf] = disk[Quarantine(w)] /\ disk[Leaf] = NoFile
    BY <1>1, <1>11, NamesAre DEF Rollback
  <2>2. disk' = disk \/ n = Quarantine(w)
    BY <1>1, <1>3, <1>11, <2>1 DEF Rollback
  <2> QED
    BY <1>3, <1>4, <2>1, <2>2, NamesAre
<1>12. CASE BeginWrite(w) \/ BeginCopy(w) \/ Open(w) \/ Raise(w) \/ Die(w)
  BY <1>4, <1>12 DEF BeginWrite, BeginCopy, Begin, Open, Raise, Die
<1> QED
  BY <1>6, <1>7, <1>8, <1>9, <1>10, <1>11, <1>12

\* A step that moves a server is one of its own.
LEMMA ReplacementStep ==
    ASSUME FilesInv, [FilesNext]_fileVars, NEW w \in Writers, writer'[w] # writer[w]
    PROVE  Replaces(w)
<1>1. ASSUME NEW v \in Writers,
             \/ BeginWrite(v) \/ BeginCopy(v) \/ Open(v) \/ CreateTemp(v)
             \/ FillWrite(v) \/ FillCopy(v) \/ Displace(v) \/ Install(v) \/ Retire(v)
             \/ Replace(v) \/ Raise(v) \/ Rollback(v) \/ Cleanup(v) \/ Die(v)
      PROVE  Replaces(w)
  <2>1. writer \in [Writers -> Operations]
    BY DEF FilesInv, FilesTypeOK
  <2>2. \E x : writer' = [writer EXCEPT ![v] = x]
    BY <1>1 DEF BeginWrite, BeginCopy, Begin, Open, CreateTemp, FillWrite, FillCopy,
                Filled, Displace, Install, Retire, Replace, Raise, Rollback, Cleanup, Die, Go
  <2>3. v = w
    BY <2>1, <2>2
  <2> QED
    BY <1>1, <2>3, ServerReplaces
<1>2. CASE \E n \in {Leaf, Source} : Edit(n) \/ Remove(n)
  BY <1>2 DEF Edit, Remove
<1>3. CASE UNCHANGED fileVars
  BY <1>3 DEF fileVars
<1> QED
  BY <1>1, <1>2, <1>3 DEF FilesNext
(***************************************************************************)
(* Trust directory: the inductive invariant                                *)
(***************************************************************************)

\* As long as nobody removed a file, a token that is in use is the one in its slot.
Token(f, t) == t \in 1..MaxToken /\ (removals = 0 => t = trust[f])

Signed(e) == e \in Envelopes /\ Token("anchor", e.anchor) /\ Token("key", e.key)

\* What a server at each step of signing or verifying relies on.
Proper(s) ==
    LET r == server[s] IN
    /\ r.at = "idle" => r.slot = "anchor"
    /\ r.at = "write" /\ removals = 0 => trust[r.slot] = Empty
    /\ r.at \in {"load", "create", "write", "verify"} /\ r.slot = "key"
           => Token("anchor", r.anchor)
    /\ r.at \in {"sign", "publish", "check"}
           => Token("anchor", r.anchor) /\ Token("key", r.key)
    /\ r.at \in {"verify", "check"} => r.read \in Manifests /\ Signed(r.read.envelope)
    /\ r.at = "check" => r.read.payload = r.read.envelope.payload

\* One server at a time writes a slot, and what is signed is in the ledger.
Alone == removals = 0 => \A s, t \in Servers :
    s # t /\ Does(s, "write") /\ Does(t, "write") => server[s].slot # server[t].slot
Booked == \A p \in Payloads : ledger[p] # Absent => Signed(ledger[p]) /\ ledger[p].payload = p
Bundled == \A s \in Servers : bundles[s] # Absent /\ bundles[s].envelope # Absent
                                => Signed(bundles[s].envelope)

TrustInv == /\ TrustTypeOK /\ Alone /\ Booked /\ Bundled /\ AttestationIsTrue
            /\ \A s \in Servers : Proper(s)

(***************************************************************************)
(* Trust directory: what is used stays                                     *)
(***************************************************************************)

States == [at : {"idle", "load", "create", "write", "sign", "publish", "verify", "check",
                 "dead"},
           slot : Slots, anchor : 0..MaxToken \cup {Absent}, key : 0..MaxToken \cup {Absent},
           read : Manifests \cup {Absent}]

ServerActs(s) ==
    \/ Attest(s) \/ Load(s) \/ Create(s) \/ WriteToken(s) \/ Sign(s) \/ WriteManifest(s)
    \/ \E of \in Servers : VerifyManifest(s, of)
    \/ CompareAnchor(s) \/ CompareKey(s) \/ CompareLedger(s) \/ Ends(s)

\* A slot is filled by a server that has found it empty, or emptied by the user.
LEMMA TrustMoves ==
    ASSUME TrustInv, TrustNext
    PROVE  /\ trust' \in [Slots -> 0..MaxToken \cup {Absent}]
           /\ issued' \in 0..MaxToken /\ removals' \in 0..MaxRemovals
           /\ removals' = 0 => removals = 0
           /\ \/ trust' = trust
              \/ removals' # 0
              \/ \E s \in Servers :
                   /\ trust[server[s].slot] = Absent
                   /\ trust' = [trust EXCEPT ![server[s].slot] = Empty]
              \/ \E s \in Servers :
                   /\ Does(s, "write") /\ ~Does(s, "write")'
                   /\ trust' = [trust EXCEPT ![server[s].slot] = issued']
<1>1. /\ trust \in [Slots -> 0..MaxToken \cup {Absent}] /\ DOMAIN server = Servers
      /\ issued \in 0..MaxToken /\ removals \in 0..MaxRemovals
      /\ MaxToken \in Nat /\ MaxRemovals \in Nat
  BY TrustStoreAssumption DEF TrustStoreAssumption, TrustInv, TrustTypeOK
<1>2. ASSUME NEW s \in Servers,
             \/ Attest(s) \/ Load(s) \/ Sign(s) \/ WriteManifest(s)
             \/ \E of \in Servers : VerifyManifest(s, of)
             \/ CompareAnchor(s) \/ CompareKey(s) \/ CompareLedger(s) \/ Ends(s)
      PROVE  UNCHANGED <<trust, issued, removals>>
  BY <1>2 DEF Attest, Load, Sign, WriteManifest, VerifyManifest, CompareAnchor, CompareKey,
              CompareLedger, Ends
<1>3. ASSUME NEW s \in Servers, Create(s)
      PROVE  /\ UNCHANGED <<issued, removals>>
             /\ \/ trust' = trust
                \/ /\ trust[server[s].slot] = Absent
                   /\ trust' = [trust EXCEPT ![server[s].slot] = Empty]
  BY <1>3 DEF Create, Exists
<1>4. ASSUME NEW s \in Servers, WriteToken(s)
      PROVE  /\ issued' \in 0..MaxToken /\ UNCHANGED removals
             /\ Does(s, "write") /\ ~Does(s, "write")'
             /\ trust' = [trust EXCEPT ![server[s].slot] = issued']
  <2>1. server \in [Servers -> States]
    BY DEF TrustInv, TrustTypeOK, States
  <2>2. server'[s].at \in {"load", "sign"}
    BY <1>4, <2>1 DEF WriteToken, Take, States
  <2> QED
    BY <1>1, <1>4, <2>2 DEF WriteToken, Does
<1>5. CASE \E of \in Servers, p \in Payloads : EditBundle(of, p)
  BY <1>1, <1>5 DEF EditBundle
<1>6. CASE \E f \in Slots : RemoveTrust(f)
  BY <1>1, <1>6 DEF RemoveTrust
<1>7. CASE \E s \in Servers : ServerActs(s)
  BY <1>1, <1>2, <1>3, <1>4, <1>7 DEF ServerActs, Empty
<1> QED
  BY <1>5, <1>6, <1>7 DEF TrustNext, ServerActs

LEMMA TokensStay ==
    ASSUME TrustInv, TrustNext
    PROVE  /\ \A f \in Slots : \A t : Token(f, t) => Token(f, t)'
           /\ \A e : Signed(e) => Signed(e)'
<1>1. Absent \notin Nat /\ MaxToken \in Nat /\ trust \in [Slots -> 0..MaxToken \cup {Absent}]
  BY TrustStoreAssumption DEF TrustStoreAssumption, TrustInv, TrustTypeOK
<1>2. ASSUME NEW f \in Slots, NEW t, Token(f, t) PROVE Token(f, t)'
  <2>1. SUFFICES ASSUME removals' = 0 PROVE t = trust'[f]
    BY <1>2 DEF Token
  <2>2. removals = 0 /\ t = trust[f] /\ t \in 1..MaxToken
    BY <1>2, <2>1, TrustMoves DEF Token
  <2>3. trust[f] \notin {Absent, Empty}
    BY <1>1, <2>2 DEF Empty
  <2>4. \A s \in Servers : Does(s, "write") => trust[server[s].slot] = Empty
    BY <2>2 DEF TrustInv, Proper, Does
  <2> QED
    BY <1>1, <2>1, <2>2, <2>3, <2>4, TrustMoves
<1> QED
  BY <1>2 DEF Signed, Slots

\* A server that rests.
LEMMA RestsProper ==
    ASSUME TrustInv, TrustNext, NEW s \in Servers, server'[s] = server[s]
    PROVE  Proper(s)'
<1>1. Proper(s) /\ server[s].slot \in Slots
  BY DEF TrustInv, TrustTypeOK
<1>2. server'[s].at = "write" /\ removals' = 0 => trust'[server'[s].slot] = Empty
  <2> SUFFICES ASSUME Does(s, "write"), removals' = 0
               PROVE  trust'[server[s].slot] = Empty
    BY DEF Does
  <2>1. trust[server[s].slot] = Empty /\ removals = 0
    BY <1>1, TrustMoves DEF Proper, Does
  <2>2. Absent # Empty /\ trust \in [Slots -> 0..MaxToken \cup {Absent}]
    BY TrustStoreAssumption DEF TrustStoreAssumption, Empty, TrustInv, TrustTypeOK
  <2>3. \A t \in Servers : Does(t, "write") /\ ~Does(t, "write")'
                             => t # s /\ server[t].slot # server[s].slot
    BY <2>1 DEF TrustInv, Alone, Does
  <2> QED
    BY <1>1, <2>1, <2>2, <2>3, TrustMoves
<1>3. Slots = {"anchor", "key"}
  BY DEF Slots
<1> QED
  BY <1>1, <1>2, <1>3, TokensStay DEF Proper

(***************************************************************************)
(* Trust directory: every step keeps the invariant                         *)
(***************************************************************************)

\* What a step of s has to show.
LEMMA MoverKeeps ==
    ASSUME TrustInv, TrustNext, NEW s \in Servers, NEW r \in States,
           server' = [server EXCEPT ![s] = r],
           bundles' \in [Servers -> Manifests \cup {Absent}],
           ledger' \in [Payloads -> Envelopes \cup {Absent}],
           r.at = "write" /\ ~Does(s, "write") =>
               (removals' = 0 => trust[r.slot] = Absent),
           r.at = "write" /\ Does(s, "write") => r.slot = server[s].slot,
           Proper(s)', Booked', Bundled', AttestationIsTrue'
    PROVE  TrustInv'
<1>1. /\ server \in [Servers -> States] /\ r.slot \in Slots
      /\ trust \in [Slots -> 0..MaxToken \cup {Absent}]
  BY DEF TrustInv, TrustTypeOK, States
<1>2. TrustTypeOK'
  <2>1. server' \in [Servers -> States]
    BY <1>1
  <2> QED
    BY <2>1, TrustMoves DEF TrustTypeOK, States
<1>3. \A t \in Servers : t # s => server'[t] = server[t]
  BY <1>1
<1>4. \A t \in Servers : Proper(t)'
  BY <1>3, RestsProper
<1>5. Alone'
  <2> SUFFICES ASSUME removals' = 0, NEW t \in Servers, t # s,
                      server'[s].at = "write", server[t].at = "write"
               PROVE  r.slot # server[t].slot
    <3>1. Alone /\ (removals' = 0 => removals = 0)
      BY TrustMoves DEF TrustInv
    <3> QED
      BY <1>1, <1>3, <3>1 DEF Alone, Does
  <2>1. r.at = "write" /\ removals = 0
    BY <1>1, TrustMoves
  <2>2. trust[server[t].slot] = Empty
    BY <2>1 DEF TrustInv, Proper
  <2>3. Absent # Empty
    BY TrustStoreAssumption DEF TrustStoreAssumption, Empty
  <2>4. CASE Does(s, "write")
    BY <2>1, <2>4 DEF TrustInv, Alone, Does
  <2> QED
    BY <2>1, <2>2, <2>3, <2>4
<1> QED
  BY <1>2, <1>4, <1>5 DEF TrustInv

\* The records of what is signed and published stay true where they stay.
LEMMA RecordsStay ==
    ASSUME TrustInv, TrustNext
    PROVE  /\ ledger' = ledger => Booked'
           /\ bundles' = bundles => Bundled'
           /\ verdict' \in {Absent, verdict} => AttestationIsTrue'
  BY TokensStay, TrustMoves DEF TrustInv, Booked, Bundled, AttestationIsTrue

LEMMA TakeKeeps ==
    ASSUME TrustInv, TrustNext, NEW s \in Servers, NEW t, NEW f \in Slots,
           server[s].at \in {"load", "create", "write"}, server[s].slot = f,
           Token(f, t)', Take(s, t), UNCHANGED <<bundles, ledger, verdict>>
    PROVE  TrustInv'
<1> DEFINE r == IF server[s].slot = "anchor"
                THEN [server[s] EXCEPT !.at = "load", !.slot = "key", !.anchor = t]
                ELSE [server[s] EXCEPT !.at = "sign", !.key = t]
<1> HIDE DEF r
<1>1. /\ server \in [Servers -> States] /\ server[s] \in States /\ MaxToken \in Nat
      /\ bundles \in [Servers -> Manifests \cup {Absent}]
      /\ ledger \in [Payloads -> Envelopes \cup {Absent}]
  BY TrustStoreAssumption DEF TrustStoreAssumption, TrustInv, TrustTypeOK, States
<1>2. t \in 0..MaxToken
  BY <1>1 DEF Token
<1>3. /\ r \in States /\ server' = [server EXCEPT ![s] = r]
      /\ \/ /\ server[s].slot = "anchor" /\ r.at = "load" /\ r.slot = "key" /\ r.anchor = t
         \/ /\ server[s].slot = "key" /\ r.at = "sign" /\ r.slot = "key" /\ r.key = t
            /\ r.anchor = server[s].anchor
  <2>1. server[s].slot \in {"anchor", "key"}
    BY <1>1 DEF States, Slots
  <2>4. PICK q \in States : q = server[s]
    BY <1>1
  <2>2. CASE server[s].slot = "anchor"
    <3>1. r = [q EXCEPT !.at = "load", !.slot = "key", !.anchor = t]
      BY <2>2, <2>4 DEF r
    <3>2. r \in States /\ r.at = "load" /\ r.slot = "key" /\ r.anchor = t
      <4>1. "key" \in Slots /\ t \in 0..MaxToken \cup {Absent} /\ q \in States
        BY <1>2, <2>4 DEF Slots
      <4> QED
        BY <3>1, <4>1 DEF States
    <3> QED
      BY <2>2, <3>2 DEF Take, r
  <2>3. CASE server[s].slot = "key"
    <3>1. r = [q EXCEPT !.at = "sign", !.key = t]
      BY <2>3, <2>4 DEF r
    <3>2. /\ r \in States /\ r.at = "sign" /\ r.slot = "key" /\ r.key = t
          /\ r.anchor = server[s].anchor
      <4>1. t \in 0..MaxToken \cup {Absent} /\ q \in States /\ q.slot = "key"
        BY <1>2, <2>3, <2>4
      <4> QED
        BY <2>4, <3>1, <4>1 DEF States
    <3> QED
      BY <2>3, <3>2 DEF Take, r
  <2> QED
    BY <2>1, <2>2, <2>3
<1>4. server'[s] = r
  BY <1>1, <1>3
<1>5. \A a : server[s].slot = "key" /\ a = server[s].anchor => Token("anchor", a)'
  <2>1. server[s].slot = "key" => Token("anchor", server[s].anchor)
    BY DEF TrustInv, Proper
  <2> QED
    BY <2>1, TokensStay DEF Slots
<1>6. Proper(s)'
  BY <1>3, <1>4, <1>5 DEF Proper
<1>7. Booked' /\ Bundled' /\ AttestationIsTrue'
  BY RecordsStay
<1> QED
  BY <1>1, <1>3, <1>6, <1>7, MoverKeeps

LEMMA PublishKeeps ==
    ASSUME TrustInv, TrustNext, NEW s \in Servers, NEW e, e = Absent \/ Signed(e),
           Publish(s, e), UNCHANGED <<ledger, verdict>>
    PROVE  TrustInv'
<1>1. /\ server \in [Servers -> States]
      /\ bundles \in [Servers -> Manifests \cup {Absent}]
      /\ ledger \in [Payloads -> Envelopes \cup {Absent}]
  BY DEF TrustInv, TrustTypeOK, States
<1> DEFINE m == [payload |-> s, envelope |-> e]
<1>2. m \in Manifests /\ m.envelope = e
  BY DEF Manifests, Payloads, Signed
<1>3. Waiting \in States /\ Waiting.at = "idle" /\ Waiting.slot = "anchor"
  BY DEF Waiting, States, Slots
<1>4. server' = [server EXCEPT ![s] = Waiting] /\ bundles' = [bundles EXCEPT ![s] = m]
  BY DEF Publish
<1> HIDE DEF m
<1>5. bundles' \in [Servers -> Manifests \cup {Absent}]
  BY <1>1, <1>2, <1>4
<1>6. Bundled'
  BY <1>1, <1>2, <1>4, TokensStay DEF TrustInv, Bundled
<1>7. Proper(s)'
  BY <1>1, <1>3, <1>4 DEF Proper
<1>8. Booked' /\ AttestationIsTrue'
  BY RecordsStay
<1> QED
  BY <1>1, <1>3, <1>4, <1>5, <1>6, <1>7, <1>8, MoverKeeps

\* A server that only goes on to another step.
LEMMA StepsKeep ==
    ASSUME TrustInv, TrustNext, NEW s \in Servers, NEW r \in States,
           server' = [server EXCEPT ![s] = r], UNCHANGED bundles,
           verdict' \in {Absent, verdict}, UNCHANGED ledger,
           r.at = "write" => ~Does(s, "write") /\ (removals' = 0 => trust[r.slot] = Absent),
           Proper(s)'
    PROVE  TrustInv'
<1>1. /\ bundles' \in [Servers -> Manifests \cup {Absent}]
      /\ ledger' \in [Payloads -> Envelopes \cup {Absent}]
  BY DEF TrustInv, TrustTypeOK
<1>2. Booked' /\ Bundled' /\ AttestationIsTrue'
  BY RecordsStay
<1> QED
  BY <1>1, <1>2, MoverKeeps

LEMMA FoundKeeps ==
    ASSUME TrustInv, TrustNext, NEW s \in Servers, Found(s),
           server[s].at \in {"load", "create"}, trust[server[s].slot] # Absent,
           UNCHANGED <<trust, ledger, verdict, removals>>
    PROVE  TrustInv'
<1>1. CASE trust[server[s].slot] = Empty
  BY <1>1, PublishKeeps DEF Found
<1>2. CASE trust[server[s].slot] # Empty
  <2>1. server[s].slot \in Slots /\ trust \in [Slots -> 0..MaxToken \cup {Absent}]
    BY DEF TrustInv, TrustTypeOK
  <2>2. trust[server[s].slot] \in 1..MaxToken
    BY <1>2, <2>1, TrustStoreAssumption DEF TrustStoreAssumption, Empty
  <2>3. PICK f \in Slots, t \in 1..MaxToken : f = server[s].slot /\ t = trust[f]
    BY <2>1, <2>2
  <2>4. Token(f, t)'
    BY <2>3 DEF Token
  <2> QED
    BY <1>2, <2>3, <2>4, TakeKeeps DEF Found
<1> QED
  BY <1>1, <1>2

LEMMA LoadKeeps ==
    ASSUME TrustInv, TrustNext, NEW s \in Servers,
           Attest(s) \/ Load(s) \/ Create(s) \/ WriteToken(s)
    PROVE  TrustInv'
<1>1. /\ server \in [Servers -> States] /\ server[s] \in States /\ MaxToken \in Nat
      /\ trust \in [Slots -> 0..MaxToken \cup {Absent}] /\ issued \in 0..MaxToken
      /\ Proper(s)
  BY TrustStoreAssumption DEF TrustStoreAssumption, TrustInv, TrustTypeOK, States
<1>2. PICK q \in States : q = server[s]
  BY <1>1
<1>3. ASSUME NEW at \in {"load", "create", "write"}, server' = [server EXCEPT ![s].at = at],
             Does(s, "idle") \/ Does(s, "load") \/ Does(s, "create"),
             at = "write" => /\ trust[server[s].slot] = Absent
                             /\ trust' = [trust EXCEPT ![server[s].slot] = Empty],
             UNCHANGED <<bundles, ledger>>, verdict' \in {Absent, verdict}
      PROVE  TrustInv'
  <2> DEFINE r == [q EXCEPT !.at = at]
  <2>1. r \in States /\ r.at = at /\ r.slot = q.slot /\ r.anchor = q.anchor
    BY <1>2, <1>3 DEF States
  <2>2. server' = [server EXCEPT ![s] = r]
    BY <1>1, <1>2, <1>3
  <2> HIDE DEF r
  <2>3. server'[s] = r
    BY <1>1, <2>2
  <2>4. \A a : q.slot = "key" /\ a = q.anchor => Token("anchor", a)'
    <3>1. q.slot = "key" => Token("anchor", q.anchor)
      BY <1>1, <1>2, <1>3 DEF Proper, Does
    <3> QED
      BY <3>1, TokensStay DEF Slots
  <2>5. at = "write" => trust'[q.slot] = Empty
    BY <1>1, <1>2, <1>3 DEF States
  <2>6. Proper(s)'
    BY <1>3, <2>1, <2>3, <2>4, <2>5 DEF Proper
  <2>7. r.at = "write" => ~Does(s, "write") /\ (removals' = 0 => trust[r.slot] = Absent)
    BY <1>2, <1>3, <2>1 DEF Does
  <2> QED
    BY <1>3, <2>1, <2>2, <2>6, <2>7, StepsKeep
<1>4. CASE Attest(s)
  BY <1>3, <1>4 DEF Attest
<1>5. CASE Load(s)
  BY <1>3, <1>5, FoundKeeps DEF Load, Does
<1>6. CASE Create(s)
  <2>1. CASE Exists(server[s].slot) /\ Found(s) /\ UNCHANGED trust
    BY <1>6, <2>1, FoundKeeps DEF Create, Does, Exists
  <2>2. CASE /\ ~Exists(server[s].slot)
             /\ trust' = [trust EXCEPT ![server[s].slot] = Empty]
             /\ server' = [server EXCEPT ![s].at = "write"] /\ UNCHANGED bundles
    BY <1>3, <1>6, <2>2 DEF Create, Does, Exists
  <2> QED
    BY <1>6, <2>1, <2>2 DEF Create
<1>7. CASE WriteToken(s)
  <2>1. PICK f \in Slots : f = server[s].slot
    BY <1>1 DEF States
  <2>2. PICK t \in 1..MaxToken : /\ t = issued' /\ trust' = [trust EXCEPT ![f] = t]
                                 /\ Take(s, t) /\ server[s].at = "write"
                                 /\ UNCHANGED <<bundles, ledger, verdict>>
    <3>1. issued' \in 1..MaxToken
      BY <1>1, <1>7 DEF WriteToken
    <3>2. /\ trust' = [trust EXCEPT ![f] = issued'] /\ Take(s, issued')
          /\ server[s].at = "write" /\ UNCHANGED <<bundles, ledger, verdict>>
      BY <1>7, <2>1 DEF WriteToken, Does
    <3> QED
      BY <3>1, <3>2
  <2>3. Token(f, t)'
    BY <1>1, <2>1, <2>2 DEF Token
  <2> QED
    BY <2>1, <2>2, <2>3, TakeKeeps
<1> QED
  BY <1>4, <1>5, <1>6, <1>7

LEMMA SignKeeps ==
    ASSUME TrustInv, TrustNext, NEW s \in Servers, Sign(s) \/ WriteManifest(s)
    PROVE  TrustInv'
<1>1. /\ server \in [Servers -> States] /\ Proper(s)
      /\ bundles \in [Servers -> Manifests \cup {Absent}]
      /\ ledger \in [Payloads -> Envelopes \cup {Absent}]
  BY DEF TrustInv, TrustTypeOK, States
<1>2. PICK q \in States : q = server[s]
  BY <1>1
<1>3. Token("anchor", q.anchor) /\ Token("key", q.key)
  BY <1>1, <1>2 DEF Sign, WriteManifest, Does, Proper
<1>4. PICK e \in Envelopes : e = Signature(s) /\ Signed(e) /\ e.payload = s
  <2> DEFINE e == [anchor |-> q.anchor, key |-> q.key, payload |-> s]
  <2>1. e \in Envelopes /\ e.anchor = q.anchor /\ e.key = q.key /\ e.payload = s
    BY <1>3 DEF Envelopes, Token, Payloads
  <2>2. e = Signature(s)
    BY <1>2 DEF Signature
  <2> HIDE DEF e
  <2>3. Signed(e)
    BY <1>3, <2>1 DEF Signed
  <2> QED
    BY <2>1, <2>2, <2>3
<1>5. CASE WriteManifest(s)
  BY <1>4, <1>5, PublishKeeps DEF WriteManifest
<1>6. CASE Sign(s)
  <2> DEFINE r == [q EXCEPT !.at = "publish"]
  <2>1. r \in States /\ r.at = "publish" /\ r.anchor = q.anchor /\ r.key = q.key
    BY <1>2 DEF States
  <2>2. server' = [server EXCEPT ![s] = r] /\ ledger' = [ledger EXCEPT ![s] = e]
    BY <1>1, <1>2, <1>4, <1>6 DEF Sign
  <2> HIDE DEF r
  <2>3. server'[s] = r /\ s \in Payloads
    BY <1>1, <2>2 DEF Payloads
  <2>4. ledger' \in [Payloads -> Envelopes \cup {Absent}]
    BY <1>1, <2>2, <2>3
  <2>5. Booked'
    BY <1>1, <1>4, <2>2, <2>3, TokensStay DEF TrustInv, Booked
  <2>6. \A a, k : a = q.anchor /\ k = q.key => Token("anchor", a)' /\ Token("key", k)'
    BY <1>3, TokensStay DEF Slots
  <2>7. Proper(s)'
    BY <2>1, <2>3, <2>6 DEF Proper
  <2>8. Bundled' /\ AttestationIsTrue' /\ bundles' = bundles
    BY <1>6, RecordsStay DEF Sign
  <2> QED
    BY <1>1, <2>1, <2>2, <2>4, <2>5, <2>7, <2>8, MoverKeeps
<1> QED
  BY <1>5, <1>6

\* A verification that ends.
LEMMA ConcludeKeeps ==
    ASSUME TrustInv, TrustNext, NEW s \in Servers, NEW result,
           server[s].at \in {"verify", "check"}, Conclude(s, result),
           LET true == server[s].read.payload = server[s].read.envelope.payload
           IN  /\ result = "READY" => true
               /\ true /\ removals = 0 => result # "BLOCK",
           UNCHANGED <<bundles, ledger, removals>>
    PROVE  TrustInv'
<1>1. /\ server \in [Servers -> States]
      /\ bundles \in [Servers -> Manifests \cup {Absent}]
      /\ ledger \in [Payloads -> Envelopes \cup {Absent}]
  BY DEF TrustInv, TrustTypeOK, States
<1>2. Waiting \in States /\ Waiting.at = "idle" /\ Waiting.slot = "anchor"
  BY DEF Waiting, States, Slots
<1>3. server' = [server EXCEPT ![s] = Waiting] /\ server'[s] = Waiting
  BY <1>1 DEF Conclude
<1>4. Proper(s)'
  BY <1>2, <1>3 DEF Proper
<1>5. AttestationIsTrue'
  BY DEF AttestationIsTrue, Conclude
<1>6. Booked' /\ Bundled'
  BY RecordsStay
<1> QED
  BY <1>1, <1>2, <1>3, <1>4, <1>5, <1>6, MoverKeeps

LEMMA VerifyKeeps ==
    ASSUME TrustInv, TrustNext, NEW s \in Servers,
           \/ \E of \in Servers : VerifyManifest(s, of)
           \/ CompareAnchor(s) \/ CompareKey(s) \/ CompareLedger(s)
    PROVE  TrustInv'
<1>1. /\ server \in [Servers -> States] /\ Proper(s)
      /\ trust \in [Slots -> 0..MaxToken \cup {Absent}] /\ MaxToken \in Nat
      /\ Absent \notin Nat
  BY TrustStoreAssumption DEF TrustStoreAssumption, TrustInv, TrustTypeOK, States
<1>2. PICK q \in States : q = server[s]
  BY <1>1
<1>3. CASE \E of \in Servers : VerifyManifest(s, of)
  <2>1. PICK of \in Servers : VerifyManifest(s, of)
    BY <1>3
  <2>2. PICK m \in Manifests : m = bundles[of] /\ Signed(m.envelope)
    BY <2>1 DEF VerifyManifest, TrustInv, TrustTypeOK, Bundled
  <2> DEFINE r == [q EXCEPT !.at = "verify", !.read = m]
  <2>3. r \in States /\ r.at = "verify" /\ r.slot = q.slot /\ r.read = m
    BY <1>2 DEF States
  <2>4. server' = [server EXCEPT ![s] = r]
    BY <1>1, <1>2, <2>1, <2>2 DEF VerifyManifest
  <2> HIDE DEF r
  <2>5. server'[s] = r /\ q.slot = "anchor"
    BY <1>1, <1>2, <2>1, <2>4 DEF VerifyManifest, Does, Proper
  <2>6. \A e : e = m.envelope => Signed(e)'
    BY <2>2, TokensStay
  <2>7. Proper(s)'
    BY <2>3, <2>5, <2>6 DEF Proper
  <2> QED
    BY <2>1, <2>3, <2>4, <2>7, StepsKeep DEF VerifyManifest
<1>4. ASSUME q.at \in {"verify", "check"}
      PROVE  /\ q.read \in Manifests /\ Signed(q.read.envelope)
             /\ \A e : e = q.read.envelope => Signed(e)'
  BY <1>1, <1>2, <1>4, TokensStay DEF Proper
<1>5. CASE CompareAnchor(s)
  <2>1. CASE trust["anchor"] = q.read.envelope.anchor
    <3>1. PICK a \in 1..MaxToken : a = trust["anchor"]
      BY <1>2, <1>4, <1>5, <2>1 DEF CompareAnchor, Does, Signed, Token
    <3> DEFINE r == [q EXCEPT !.slot = "key", !.anchor = a]
    <3>2. r \in States /\ r.at = q.at /\ r.slot = "key" /\ r.anchor = a /\ r.read = q.read
      <4>1. "key" \in Slots /\ a \in 0..MaxToken \cup {Absent}
        BY <1>1 DEF Slots
      <4> QED
        BY <4>1 DEF States
    <3>3. server' = [server EXCEPT ![s] = r]
      BY <1>1, <1>2, <1>5, <2>1, <3>1 DEF CompareAnchor
    <3> HIDE DEF r
    <3>4. server'[s] = r /\ q.at = "verify"
      BY <1>1, <1>2, <1>5, <3>3 DEF CompareAnchor, Does
    <3>5. Token("anchor", a)'
      BY <1>5, <3>1 DEF CompareAnchor, Token
    <3>6. Proper(s)'
      BY <1>4, <3>2, <3>4, <3>5 DEF Proper
    <3>7. verdict' = verdict
      BY <1>2, <1>5, <2>1 DEF CompareAnchor
    <3> QED
      BY <1>5, <3>2, <3>3, <3>4, <3>6, <3>7, StepsKeep DEF CompareAnchor
  <2>2. CASE trust["anchor"] # q.read.envelope.anchor
    BY <1>2, <1>5, <2>2, ConcludeKeeps DEF CompareAnchor, Does
  <2> QED
    BY <2>1, <2>2
<1>6. CASE CompareKey(s)
  <2>1. /\ q.at = "verify" /\ q.slot = "key" /\ Token("anchor", q.anchor)
        /\ q.read \in Manifests /\ Signed(q.read.envelope)
    BY <1>1, <1>2, <1>6 DEF CompareKey, Does, Proper
  <2>2. CASE Conclude(s, "WARN")
    BY <1>2, <1>6, <2>1, <2>2, ConcludeKeeps DEF CompareKey
  <2>3. CASE Conclude(s, "BLOCK") /\ ~(/\ trust["key"] = q.read.envelope.key
                                       /\ q.read.payload = q.read.envelope.payload)
    <3>1. removals = 0 => trust["key"] = q.read.envelope.key
      BY <2>1 DEF Signed, Token
    <3> QED
      BY <1>2, <1>6, <2>1, <2>3, <3>1, ConcludeKeeps DEF CompareKey
  <2>4. CASE /\ trust["key"] = q.read.envelope.key
             /\ q.read.payload = q.read.envelope.payload
             /\ server' = [server EXCEPT ![s].at = "check", ![s].key = trust["key"]]
             /\ UNCHANGED verdict
    <3>1. PICK k \in 1..MaxToken : k = trust["key"]
      BY <2>1, <2>4 DEF Signed, Token
    <3> DEFINE r == [q EXCEPT !.at = "check", !.key = k]
    <3>2. /\ r \in States /\ r.at = "check" /\ r.slot = q.slot /\ r.anchor = q.anchor
          /\ r.key = k /\ r.read = q.read
      <4>1. k \in 0..MaxToken \cup {Absent}
        BY <1>1
      <4> QED
        BY <4>1 DEF States
    <3>3. server' = [server EXCEPT ![s] = r]
      BY <1>1, <1>2, <2>4, <3>1
    <3> HIDE DEF r
    <3>4. server'[s] = r
      BY <1>1, <3>3
    <3>5. Token("key", k)' /\ \A a : a = q.anchor => Token("anchor", a)'
      BY <1>6, <2>1, <3>1, TokensStay DEF CompareKey, Token, Slots
    <3>6. Proper(s)'
      BY <1>4, <2>1, <2>4, <3>2, <3>4, <3>5 DEF Proper
    <3> QED
      BY <1>6, <2>4, <3>2, <3>3, <3>6, StepsKeep DEF CompareKey
  <2> QED
    BY <1>2, <1>6, <2>2, <2>3, <2>4 DEF CompareKey
<1>7. CASE CompareLedger(s)
  <2>1. /\ q.at = "check" /\ Token("anchor", q.anchor) /\ Token("key", q.key)
        /\ q.read \in Manifests /\ q.read.payload = q.read.envelope.payload
    BY <1>1, <1>2, <1>7 DEF CompareLedger, Does, Proper
  <2>2. q.read.payload \in Payloads
    BY <2>1 DEF Manifests
  <2> DEFINE entry == ledger[q.read.payload]
             true == [anchor |-> q.anchor, key |-> q.key, payload |-> q.read.payload]
  <2>3. removals = 0 => entry = Absent \/ entry = true
    <3> SUFFICES ASSUME removals = 0, entry # Absent PROVE entry = true
      OBVIOUS
    <3>1. Signed(entry) /\ entry.payload = q.read.payload
      BY <2>2 DEF TrustInv, Booked
    <3>2. entry \in Envelopes /\ entry.anchor = q.anchor /\ entry.key = q.key
      BY <2>1, <3>1 DEF Signed, Token
    <3> HIDE DEF entry
    <3> QED
      BY <3>1, <3>2 DEF Envelopes
  <2>4. PICK result : Conclude(s, result) /\ (removals = 0 => result # "BLOCK")
    BY <1>2, <1>7, <2>3 DEF CompareLedger
  <2> QED
    BY <1>2, <1>7, <2>1, <2>4, ConcludeKeeps DEF CompareLedger
<1> QED
  BY <1>3, <1>5, <1>6, <1>7

LEMMA EndsKeeps ==
    ASSUME TrustInv, TrustNext, NEW s \in Servers, Ends(s)
    PROVE  TrustInv'
<1> DEFINE r == [Waiting EXCEPT !.at = "dead"]
<1>1. server \in [Servers -> States]
  BY DEF TrustInv, TrustTypeOK, States
<1>2. r \in States /\ r.at = "dead"
  BY DEF Waiting, States, Slots
<1>3. server' = [server EXCEPT ![s] = r] /\ server'[s] = r
  BY <1>1 DEF Ends
<1> HIDE DEF r
<1>4. Proper(s)'
  BY <1>2, <1>3 DEF Proper
<1> QED
  BY <1>2, <1>3, <1>4, StepsKeep DEF Ends

LEMMA UserKeepsTrust ==
    ASSUME TrustInv, TrustNext,
           \/ \E of \in Servers, p \in Payloads : EditBundle(of, p)
           \/ \E f \in Slots : RemoveTrust(f)
    PROVE  TrustInv'
<1>1. /\ server' = server /\ ledger' = ledger /\ verdict' = verdict
      /\ bundles \in [Servers -> Manifests \cup {Absent}]
  BY DEF EditBundle, RemoveTrust, TrustInv, TrustTypeOK
<1>2. \A s \in Servers : Proper(s)'
  BY <1>1, RestsProper
<1>3. Alone'
  BY <1>1, TrustMoves DEF TrustInv, Alone, Does
<1>4. Booked' /\ AttestationIsTrue'
  BY <1>1, RecordsStay
<1>5. bundles' \in [Servers -> Manifests \cup {Absent}] /\ Bundled'
  <2>1. CASE \E f \in Slots : RemoveTrust(f)
    BY <1>1, <2>1, RecordsStay DEF RemoveTrust
  <2>2. ASSUME NEW of \in Servers, NEW p \in Payloads, EditBundle(of, p)
        PROVE  bundles' \in [Servers -> Manifests \cup {Absent}] /\ Bundled'
    <3>1. PICK m \in Manifests : m = bundles[of]
      BY <1>1, <2>2 DEF EditBundle
    <3> DEFINE n == [m EXCEPT !.payload = p]
    <3>2. n \in Manifests /\ n.envelope = m.envelope
      BY DEF Manifests
    <3>3. bundles' = [bundles EXCEPT ![of] = n]
      BY <1>1, <2>2, <3>1 DEF EditBundle
    <3> HIDE DEF n
    <3>4. Bundled'
      <4> SUFFICES ASSUME NEW s \in Servers, bundles'[s] # Absent,
                          bundles'[s].envelope # Absent
                   PROVE  \A e : e = bundles'[s].envelope => Signed(e)'
        BY DEF Bundled
      <4>1. Bundled
        BY DEF TrustInv
      <4>2. CASE s = of
        BY <1>1, <2>2, <3>1, <3>2, <3>3, <4>1, <4>2, TokensStay DEF Bundled, EditBundle
      <4>3. CASE s # of
        BY <1>1, <3>3, <4>1, <4>3, TokensStay DEF Bundled
      <4> QED
        BY <4>2, <4>3
    <3> QED
      BY <1>1, <3>2, <3>3, <3>4
  <2> QED
    BY <2>1, <2>2
<1>6. TrustTypeOK'
  BY <1>1, <1>5, TrustMoves DEF TrustInv, TrustTypeOK
<1> QED
  BY <1>2, <1>3, <1>4, <1>5, <1>6 DEF TrustInv

LEMMA TrustBegin == ASSUME TrustInit PROVE TrustInv
<1>1. Waiting \in States /\ Waiting.at = "idle" /\ Waiting.slot = "anchor"
  BY DEF Waiting, States, Slots
<1>2. TrustTypeOK
  BY <1>1, TrustStoreAssumption DEF TrustStoreAssumption, TrustInit, TrustTypeOK, States
<1>3. \A s \in Servers : Proper(s)
  BY <1>1 DEF TrustInit, Proper
<1>4. Alone /\ Booked /\ Bundled /\ AttestationIsTrue
  BY <1>1 DEF TrustInit, Alone, Does, Booked, Bundled, AttestationIsTrue
<1> QED
  BY <1>2, <1>3, <1>4 DEF TrustInv

LEMMA TrustStep == ASSUME TrustInv, [TrustNext]_trustVars PROVE TrustInv'
<1>1. CASE UNCHANGED trustVars
  BY <1>1 DEF trustVars, TrustInv, TrustTypeOK, Alone, Does, Booked, Bundled,
              AttestationIsTrue, Proper, Signed, Token
<1>2. CASE TrustNext
  BY <1>2, LoadKeeps, SignKeeps, VerifyKeeps, EndsKeeps, UserKeepsTrust DEF TrustNext
<1> QED
  BY <1>1, <1>2

\* Whatever servers and users do in the trust directory, the invariant holds
\* (evidence_attestation.py).
THEOREM TrustInvariant == TrustSpec => []TrustInv
<1>1. TrustInit => TrustInv
  BY TrustBegin
<1>2. TrustInv /\ [TrustNext]_trustVars => TrustInv'
  BY TrustStep
<1> QED BY <1>1, <1>2, PTL DEF TrustSpec
(***************************************************************************)
(* Runtime directory: the inductive invariant                              *)
(***************************************************************************)

Inventories == [RuntimeNames -> Objects \cup {None}]
HasStaged   == prog.at \in {"copy", "verify", "program"}

\* A staged name has been drawn before anything is found under it.
DrawnFirst == \A n \in StagedNames : root[n] # None => n \in drawn

\* What a cleanup at each step rests on: the reviewed inventory, and that the plan
\* is no other one.
Cleans ==
    /\ cleaner.at # "idle" =>
           /\ cleaner.reviewed \in Inventories
           /\ \A n \in StagedNames : cleaner.reviewed[n] # None => n \in drawn
    /\ cleaner.at \in {"validate", "delete", "unlink"} => cleaner.plan = cleaner.reviewed
    /\ cleaner.at \in {"delete", "unlink"} => cleaner.rest \subseteq Planned
    /\ cleaner.at = "unlink" => /\ cleaner.now \in cleaner.rest
                                /\ touched \/ Intact(cleaner.now)

\* Since no Vivado process ran when they were listed, what a session has staged is not
\* of the reviewed inventory.
Spares == cleaner.at \in {"scan", "validate", "delete", "unlink"} /\ ~cleaner.blind
          /\ Connected /\ HasStaged
              => cleaner.reviewed[prog.name] = None

\* What programming at each step rests on.
Stages ==
    /\ HasStaged => prog.name \in drawn
    /\ prog.at \in {"verify", "program"} => prog.file \in Objects /\ prog.file.data = prog.want
    /\ prog.at = "program" => root[prog.name] \in {None, prog.file} \/ prog.edited
    /\ prog.at = "stage" \/ HasStaged => board = prog.fp \/ prog.switched

RuntimeInv == RuntimeTypeOK /\ DrawnFirst /\ Cleans /\ Spares /\ Stages

(***************************************************************************)
(* Runtime directory: types                                                *)
(***************************************************************************)

Jobs == [at : {"stopped", "mark", "identified", "written", "starting", "ready",
               "manifest", "preflight", "stage", "copy", "verify", "program"},
         want : Contents \cup {None}, fp : Boards \cup {None},
         src : Objects \cup {None}, name : StagedNames \cup {None},
         file : Objects \cup {None}, switched : BOOLEAN, edited : BOOLEAN]
Cleanups == [at : {"idle", "reviewed", "detect", "scan", "validate", "delete", "unlink"},
             reviewed : Inventories \cup {None}, plan : Inventories \cup {None},
             unknown : BOOLEAN, rest : SUBSET RuntimeNames, now : RuntimeNames \cup {None},
             blind : BOOLEAN]

LEMMA RuntimeTypes ==
    ASSUME RuntimeTypeOK
    PROVE  /\ windows \in BOOLEAN /\ touched \in BOOLEAN /\ root \in Inventories
           /\ bit \in Objects /\ vivado \subseteq {"own", "orphan"} /\ board \in Boards
           /\ prog \in Jobs /\ cleaner \in Cleanups /\ drawn \subseteq StagedNames
           /\ madeHere \in 1..MaxMade /\ changes \in 0..MaxWorld
  BY DEF RuntimeTypeOK, PlatformTypeOK, Jobs, Cleanups, Inventories

LEMMA RuntimeTyped ==
    ASSUME windows' \in BOOLEAN, touched' \in BOOLEAN, root' \in Inventories,
           bit' \in Objects, vivado' \subseteq {"own", "orphan"}, board' \in Boards,
           prog' \in Jobs, cleaner' \in Cleanups, drawn' \subseteq StagedNames,
           madeHere' \in 1..MaxMade, changes' \in 0..MaxWorld
    PROVE  RuntimeTypeOK'
  BY DEF RuntimeTypeOK, PlatformTypeOK, Jobs, Cleanups, Inventories

\* What files the bounds allow.
LEMMA ObjectsMade ==
    /\ 0 \in Contents /\ 1 \in Contents
    /\ \A o \in Objects : o.data \in Contents /\ o.id \in Contents
    /\ \A i \in 1..MaxMade : i \in Contents \ {0}
    /\ \A i \in 1..MaxMade, d \in Contents : [id |-> i, data |-> d] \in Objects
    /\ \A i \in 1..MaxMade, o \in Objects : [o EXCEPT !.data = o.id] \in Objects
<1>1. MaxMade \in Nat /\ MaxMade > 0 /\ MaxWorld \in Nat
  BY RuntimeFilesAssumption DEF RuntimeFilesAssumption
<1> QED
  BY <1>1 DEF Contents, Objects

LEMMA ChangeIsObject ==
    ASSUME changes \in 0..MaxWorld, changes < MaxWorld
    PROVE  Change \in Objects
  BY RuntimeFilesAssumption DEF RuntimeFilesAssumption, Change, Objects, Contents

LEMMA MakeTyped ==
    ASSUME root \in Inventories, madeHere \in 1..MaxMade, NEW n \in RuntimeNames,
           NEW d \in Contents, Make(n, d)
    PROVE  /\ root' \in Inventories /\ madeHere' \in 1..MaxMade
           /\ root'[n] = [id |-> madeHere', data |-> d] /\ root'[n] \in Objects
           /\ \A m \in RuntimeNames \ {n} : root'[m] = root[m]
<1>1. madeHere' \in 1..MaxMade /\ root' = [root EXCEPT ![n] = [id |-> madeHere', data |-> d]]
  BY RuntimeFilesAssumption DEF RuntimeFilesAssumption, Make
<1>2. [id |-> madeHere', data |-> d] \in Objects
  BY <1>1, ObjectsMade
<1> QED
  BY <1>1, <1>2 DEF Inventories

\* A step of an operation that changes where it is and nothing else.
LEMMA JobGoes ==
    ASSUME prog \in Jobs, NEW step, ProgGoes(step),
           step \in {"stopped", "mark", "identified", "written", "starting", "ready",
                     "manifest", "preflight", "stage", "copy", "verify", "program"}
    PROVE  /\ prog' \in Jobs /\ prog'.at = step
           /\ prog'.want = prog.want /\ prog'.fp = prog.fp /\ prog'.src = prog.src
           /\ prog'.name = prog.name /\ prog'.file = prog.file
           /\ prog'.switched = prog.switched /\ prog'.edited = prog.edited
  BY DEF ProgGoes, Jobs

LEMMA JobEnds ==
    /\ Stopped \in Jobs /\ Stopped.at = "stopped"
    /\ Back => prog' \in Jobs /\ prog'.at = "ready"
  BY DEF Stopped, Back, Jobs

LEMMA StagedAre ==
    /\ StagedNames \subseteq RuntimeNames
    /\ "marker" \in RuntimeNames /\ "bootstrap" \in RuntimeNames /\ "notes" \in RuntimeNames
    /\ "marker" \notin StagedNames /\ "bootstrap" \notin StagedNames
    /\ "notes" \notin StagedNames
  BY RuntimeFilesAssumption DEF RuntimeFilesAssumption, RuntimeNames

LEMMA RuntimeBegin == RuntimeInit => RuntimeInv
<1> SUFFICES ASSUME RuntimeInit PROVE RuntimeInv
  OBVIOUS
<1>1. /\ bit = [id |-> 1, data |-> 1] /\ vivado = {} /\ board = "a" /\ prog = Stopped
      /\ cleaner = Resting /\ drawn = {n \in StagedNames : root[n] # None} /\ madeHere = 1
      /\ changes = 0 /\ touched = FALSE /\ PlatformTypeOK
  BY DEF RuntimeInit
<1>2. 1 \in 1..MaxMade /\ 0 \in 0..MaxWorld
  BY RuntimeFilesAssumption DEF RuntimeFilesAssumption
<1>3. [id |-> 1, data |-> 1] \in Objects
  BY <1>2, ObjectsMade
<1>4. root \in [RuntimeNames -> Objects \cup {None}]
  <2>1. \A n : Before(n) \in [RuntimeNames -> Objects \cup {None}]
    BY <1>3 DEF Before
  <2> QED
    BY <2>1 DEF RuntimeInit
<1>5. prog \in Jobs /\ prog.at = "stopped"
  BY <1>1, JobEnds
<1>6. cleaner \in Cleanups /\ cleaner.at = "idle"
  BY <1>1 DEF Resting, Cleanups
<1>7. RuntimeTypeOK
  BY <1>1, <1>2, <1>3, <1>4, <1>5, <1>6 DEF RuntimeTypeOK, Jobs, Cleanups, Inventories, Boards
<1>8. DrawnFirst /\ Cleans /\ Spares /\ Stages
  BY <1>1, <1>5, <1>6 DEF DrawnFirst, Cleans, Spares, Stages, HasStaged
<1> QED
  BY <1>7, <1>8 DEF RuntimeInv

(***************************************************************************)
(* Runtime directory: what a server does                                   *)
(***************************************************************************)

\* What every step of a server leaves of the invariant.
ServerKeeps ==
    /\ root' \in Inventories /\ bit' \in Objects /\ vivado' \subseteq {"own", "orphan"}
    /\ board' \in Boards /\ prog' \in Jobs /\ drawn' \subseteq StagedNames
    /\ madeHere' \in 1..MaxMade
    /\ drawn \subseteq drawn' /\ DrawnFirst' /\ Stages'
    /\ Connected' /\ HasStaged' =>
           /\ Connected
           /\ \/ HasStaged /\ prog'.name = prog.name
              \/ prog'.name \in StagedNames \ drawn

\* A step after which nothing is staged.
LEMMA NothingStaged ==
    ASSUME RuntimeInv, prog' \in Jobs, ~HasStaged', drawn' = drawn,
           root' \in Inventories, \A n \in StagedNames : root'[n] \in {root[n], None},
           vivado' \subseteq {"own", "orphan"}, madeHere' \in 1..MaxMade,
           UNCHANGED <<bit, board>>,
           prog'.at = "stage" => board = prog'.fp
    PROVE  ServerKeeps
<1>1. bit' \in Objects /\ board' \in Boards /\ drawn' \subseteq StagedNames
  BY RuntimeTypes DEF RuntimeInv
<1>2. DrawnFirst'
  BY DEF RuntimeInv, DrawnFirst
<1>3. Stages'
  BY DEF Stages, HasStaged
<1> QED
  BY <1>1, <1>2, <1>3 DEF ServerKeeps

LEMMA StartKeeps ==
    ASSUME RuntimeInv, drawn' = drawn,
           EnsureIdentity \/ WriteMarker \/ WriteBootstrap \/ Spawn \/ Accept \/ Stop
           \/ ServerDies
    PROVE  ServerKeeps
<1>1. /\ root \in Inventories /\ prog \in Jobs /\ madeHere \in 1..MaxMade
      /\ vivado \subseteq {"own", "orphan"}
  BY RuntimeTypes DEF RuntimeInv
<1>2. \A n \in StagedNames : n \in RuntimeNames /\ n # "marker" /\ n # "bootstrap"
  BY StagedAre
<1>3. CASE EnsureIdentity
  <2>1. CASE Make("marker", 0) /\ ProgGoes("mark")
    <3>1. /\ root' \in Inventories /\ madeHere' \in 1..MaxMade
          /\ \A n \in StagedNames : root'[n] = root[n]
      BY <1>1, <1>2, <2>1, MakeTyped, ObjectsMade, StagedAre
    <3>2. prog' \in Jobs /\ prog'.at = "mark"
      BY <1>1, <2>1, JobGoes
    <3> QED
      BY <1>1, <1>3, <3>1, <3>2, NothingStaged DEF HasStaged, EnsureIdentity
  <2>2. CASE ProgGoes("identified") /\ UNCHANGED <<root, madeHere>>
    <3>1. prog' \in Jobs /\ prog'.at = "identified"
      BY <1>1, <2>2, JobGoes
    <3> QED
      BY <1>1, <1>3, <2>2, <3>1, NothingStaged DEF HasStaged, EnsureIdentity
  <2> QED
    BY <1>3, <2>1, <2>2 DEF EnsureIdentity
<1>4. CASE WriteMarker
  <2>1. prog' \in Jobs /\ prog'.at = "identified"
    BY <1>1, <1>4, JobGoes DEF WriteMarker
  <2>2. root' = [root EXCEPT !["marker"] = [root["marker"] EXCEPT !.data = root["marker"].id]]
    BY <1>4 DEF WriteMarker
  <2>3. [root["marker"] EXCEPT !.data = root["marker"].id] \in Objects
    <3>1. root["marker"] \in Objects
      BY <1>1, <1>4, StagedAre DEF WriteMarker, Inventories
    <3> QED
      BY <3>1, ObjectsMade DEF Objects
  <2>4. root' \in Inventories /\ \A n \in StagedNames : root'[n] = root[n]
    BY <1>1, <1>2, <2>2, <2>3 DEF Inventories
  <2> QED
    BY <1>1, <1>4, <2>1, <2>4, NothingStaged DEF HasStaged, WriteMarker
<1>5. CASE WriteBootstrap
  <2>1. /\ root' \in Inventories /\ madeHere' \in 1..MaxMade
        /\ \A n \in StagedNames : root'[n] = root[n]
    BY <1>1, <1>2, <1>5, MakeTyped, ObjectsMade, StagedAre DEF WriteBootstrap
  <2>2. prog' \in Jobs /\ prog'.at = "written"
    BY <1>1, <1>5, JobGoes DEF WriteBootstrap
  <2> QED
    BY <1>1, <1>5, <2>1, <2>2, NothingStaged DEF HasStaged, WriteBootstrap
<1>6. CASE Spawn
  <2>1. prog' \in Jobs /\ prog'.at = "starting"
    BY <1>1, <1>6, JobGoes DEF Spawn
  <2> QED
    BY <1>1, <1>6, <2>1, NothingStaged DEF HasStaged, Spawn
<1>7. CASE Accept
  <2>1. root' \in Inventories /\ \A n \in StagedNames : root'[n] = root[n]
    BY <1>1, <1>2, <1>7 DEF Accept, Inventories
  <2> QED
    BY <1>1, <1>7, <2>1, JobEnds, NothingStaged DEF HasStaged, Accept
<1>8. CASE Stop \/ ServerDies
  <2>1. prog' = Stopped /\ UNCHANGED <<root, bit, board, madeHere>>
        /\ vivado' \subseteq {"own", "orphan"}
    BY <1>1, <1>8 DEF Stop, ServerDies
  <2> QED
    BY <1>1, <2>1, JobEnds, NothingStaged DEF HasStaged
<1> QED
  BY <1>3, <1>4, <1>5, <1>6, <1>7, <1>8

LEMMA ProgramKeeps ==
    ASSUME RuntimeInv, drawn' = drawn,
           \/ LoadManifest
           \/ \E fp \in Boards : HashBitstream(fp)
           \/ Refuse \/ Preflight \/ CopyFails \/ Program
    PROVE  ServerKeeps
<1>1. /\ root \in Inventories /\ prog \in Jobs /\ madeHere \in 1..MaxMade
      /\ vivado \subseteq {"own", "orphan"} /\ bit \in Objects
  BY RuntimeTypes DEF RuntimeInv
<1>2. CASE LoadManifest
  <2>1. prog' \in Jobs /\ prog'.at = "manifest"
    BY <1>1, <1>2, JobGoes DEF LoadManifest
  <2> QED
    BY <1>1, <1>2, <2>1, NothingStaged DEF HasStaged, LoadManifest
<1>3. CASE \E fp \in Boards : HashBitstream(fp)
  <2>1. PICK fp \in Boards : HashBitstream(fp)
    BY <1>3
  <2>2. /\ prog' = [Stopped EXCEPT !.at = "preflight", !.want = bit.data, !.fp = fp]
        /\ UNCHANGED <<root, bit, vivado, board, madeHere>>
    BY <2>1 DEF HashBitstream
  <2>3. bit.data \in Contents
    BY <1>1, ObjectsMade
  <2>4. prog' \in Jobs /\ prog'.at = "preflight"
    BY <2>2, <2>3, JobEnds DEF Jobs
  <2> QED
    BY <1>1, <2>2, <2>4, NothingStaged DEF HasStaged
<1>4. CASE Refuse
  BY <1>1, <1>4, JobEnds, NothingStaged DEF HasStaged, Refuse
<1>5. CASE Preflight
  <2>1. prog' \in Jobs /\ prog'.at = "stage" /\ prog'.fp = prog.fp
    BY <1>1, <1>5, JobGoes DEF Preflight
  <2> QED
    BY <1>1, <1>5, <2>1, NothingStaged DEF HasStaged, Preflight
<1>6. CASE CopyFails
  <2>1. prog.name \in StagedNames
    BY <1>6, RuntimeTypes DEF CopyFails, RuntimeInv, Stages, HasStaged, Prog
  <2>2. root' \in Inventories /\ \A n \in StagedNames : root'[n] \in {root[n], None}
    BY <1>1, <1>6, <2>1, StagedAre DEF CopyFails, Inventories
  <2> QED
    BY <1>1, <1>6, <2>2, JobEnds, NothingStaged DEF HasStaged, CopyFails
<1>7. CASE Program
  BY <1>1, <1>7, JobEnds, NothingStaged DEF HasStaged, Program
<1> QED
  BY <1>2, <1>3, <1>4, <1>5, <1>6, <1>7

LEMMA StageKeeps == ASSUME RuntimeInv, NEW n \in StagedNames, Stage(n) PROVE ServerKeeps
<1>1. /\ root \in Inventories /\ prog \in Jobs /\ madeHere \in 1..MaxMade
      /\ vivado \subseteq {"own", "orphan"} /\ bit \in Objects /\ board \in Boards
      /\ drawn \subseteq StagedNames
  BY RuntimeTypes DEF RuntimeInv
<1>2. /\ root' \in Inventories /\ madeHere' \in 1..MaxMade
      /\ \A m \in RuntimeNames \ {n} : root'[m] = root[m]
  BY <1>1, MakeTyped, ObjectsMade, StagedAre DEF Stage
<1>3. prog' \in Jobs /\ prog'.at = "copy" /\ prog'.name = n
  BY <1>1 DEF Stage, Jobs
<1>4. prog'.fp = prog.fp /\ prog'.switched = prog.switched /\ UNCHANGED <<bit, vivado, board>>
      /\ prog.at = "stage" /\ drawn' = drawn \cup {n} /\ n \notin drawn
  BY <1>1 DEF Stage, Prog, Jobs
<1>5. DrawnFirst'
  BY <1>2, <1>4, StagedAre DEF RuntimeInv, DrawnFirst
<1>6. Stages'
  BY <1>3, <1>4 DEF RuntimeInv, Stages, HasStaged
<1>7. Connected' => Connected
  BY <1>4 DEF Connected
<1> QED
  BY <1>1, <1>2, <1>3, <1>4, <1>5, <1>6, <1>7 DEF ServerKeeps

LEMMA CopyKeeps ==
    ASSUME RuntimeInv, drawn' = drawn, Copy \/ VerifyStaged
    PROVE  ServerKeeps
<1>1. /\ root \in Inventories /\ prog \in Jobs /\ madeHere \in 1..MaxMade
      /\ vivado \subseteq {"own", "orphan"} /\ bit \in Objects /\ board \in Boards
      /\ drawn \subseteq StagedNames
  BY RuntimeTypes DEF RuntimeInv
<1>2. /\ HasStaged /\ prog.name \in drawn
      /\ prog.name \in StagedNames /\ prog.name \in RuntimeNames
  BY <1>1, StagedAre DEF Copy, VerifyStaged, Prog, HasStaged, RuntimeInv, Stages
<1>3. board = prog.fp \/ prog.switched
  BY <1>2 DEF RuntimeInv, Stages
<1>4. CASE Copy
  <2>1. Make(prog.name, bit.data) /\ bit.data \in Contents /\ bit.data = prog.want
    BY <1>1, <1>4, ObjectsMade DEF Copy, SameSource
  <2>2. /\ root' \in Inventories /\ madeHere' \in 1..MaxMade
        /\ root'[prog.name] = [id |-> madeHere', data |-> bit.data]
        /\ root'[prog.name] \in Objects
        /\ \A m \in RuntimeNames \ {prog.name} : root'[m] = root[m]
    BY <1>1, <1>2, <2>1, MakeTyped
  <2>3. PICK o \in Objects : root'[prog.name] = o /\ o.data = prog.want
    BY <2>1, <2>2
  <2>4. prog' = [prog EXCEPT !.at = "verify", !.file = o] /\ UNCHANGED <<bit, vivado, board>>
    BY <1>4, <2>3 DEF Copy
  <2>5. /\ prog' \in Jobs /\ prog'.at = "verify" /\ prog'.name = prog.name
        /\ prog'.file = o /\ prog'.want = prog.want /\ prog'.fp = prog.fp
        /\ prog'.switched = prog.switched
    BY <1>1, <2>4 DEF Jobs
  <2>6. DrawnFirst'
    BY <1>2, <2>2, StagedAre DEF RuntimeInv, DrawnFirst
  <2>7. Stages'
    BY <1>2, <1>3, <2>3, <2>4, <2>5 DEF Stages, HasStaged
  <2>8. Connected' => Connected
    BY <2>4 DEF Connected
  <2> QED
    BY <1>1, <1>2, <2>2, <2>4, <2>5, <2>6, <2>7, <2>8 DEF ServerKeeps
<1>5. CASE VerifyStaged
  <2>1. /\ prog' \in Jobs /\ prog'.at = "program" /\ prog'.name = prog.name
        /\ prog'.file = prog.file /\ prog'.want = prog.want /\ prog'.fp = prog.fp
        /\ prog'.switched = prog.switched
    BY <1>1, <1>5, JobGoes DEF VerifyStaged
  <2>2. /\ UNCHANGED <<root, bit, vivado, board, madeHere>> /\ root[prog.name] = prog.file
        /\ prog.at = "verify"
    BY <1>5 DEF VerifyStaged, Prog
  <2>3. DrawnFirst'
    BY <2>2 DEF RuntimeInv, DrawnFirst
  <2>4. Stages'
    <3>1. prog.file \in Objects /\ prog.file.data = prog.want
      BY <2>2 DEF RuntimeInv, Stages
    <3> QED
      BY <1>2, <1>3, <2>1, <2>2, <3>1 DEF Stages, HasStaged
  <2>5. Connected' => Connected
    BY <2>2 DEF Connected
  <2> QED
    BY <1>1, <1>2, <2>1, <2>2, <2>3, <2>4, <2>5 DEF ServerKeeps
<1> QED
  BY <1>4, <1>5

LEMMA ServerStepKeeps == ASSUME RuntimeInv, Server PROVE ServerKeeps
  BY StartKeeps, ProgramKeeps, StageKeeps, CopyKeeps DEF Server

(***************************************************************************)
(* Runtime directory: what the user, other runs and Vivado do              *)
(***************************************************************************)

LEMMA WorldKeeps == ASSUME RuntimeInv, World PROVE ServerKeeps /\ changes' \in 0..MaxWorld
<1>1. /\ root \in Inventories /\ prog \in Jobs /\ madeHere \in 1..MaxMade
      /\ vivado \subseteq {"own", "orphan"} /\ bit \in Objects /\ board \in Boards
      /\ drawn \subseteq StagedNames /\ changes \in 0..MaxWorld
  BY RuntimeTypes DEF RuntimeInv
<1>2. DrawnFirst /\ Stages /\ drawn' = drawn
  BY DEF RuntimeInv, World
<1>3. changes' \in 0..MaxWorld
  BY <1>1, RuntimeFilesAssumption DEF World, RuntimeFilesAssumption
<1>4. \A n \in {"notes", "marker"} \cup StagedNames : n \in RuntimeNames
  BY StagedAre
\* A step that leaves the server where it is.
<1>5. ASSUME prog' \in Jobs, prog'.at = prog.at, prog'.name = prog.name, prog'.file = prog.file,
             prog'.want = prog.want, prog'.fp = prog.fp, root' \in Inventories,
             \A n \in StagedNames : root[n] = None => root'[n] = None,
             vivado' \subseteq vivado, UNCHANGED madeHere, bit' \in Objects, board' \in Boards,
             \/ root'[prog.name] \in {root[prog.name], None} /\ (prog.edited => prog'.edited)
             \/ prog.at = "program" => prog'.edited,
             (board' = board /\ prog'.switched = prog.switched)
                 \/ (prog.at = "stage" \/ HasStaged => prog'.switched)
      PROVE  ServerKeeps
  <2>1. DrawnFirst'
    BY <1>2, <1>5 DEF DrawnFirst
  <2>2. HasStaged' <=> HasStaged
    BY <1>5 DEF HasStaged
  <2>3. Stages'
    <3>1. HasStaged' => prog'.name \in drawn'
      BY <1>2, <1>5, <2>2 DEF Stages
    <3>2. prog'.at \in {"verify", "program"} =>
             prog'.file \in Objects /\ prog'.file.data = prog'.want
      BY <1>2, <1>5 DEF Stages
    <3>3. prog'.at = "program" => root'[prog'.name] \in {None, prog'.file} \/ prog'.edited
      BY <1>2, <1>5 DEF Stages
    <3>4. prog'.at = "stage" \/ HasStaged' => board' = prog'.fp \/ prog'.switched
      BY <1>2, <1>5, <2>2 DEF Stages
    <3> QED
      BY <3>1, <3>2, <3>3, <3>4 DEF Stages
  <2>4. Connected' => Connected
    BY <1>5 DEF Connected
  <2> QED
    BY <1>1, <1>2, <1>5, <2>1, <2>2, <2>3, <2>4 DEF ServerKeeps
<1>6. ASSUME NEW n \in {"notes", "marker"} \cup StagedNames, EditFile(n), Change \in Objects
      PROVE  ServerKeeps
  <2>1. PICK o \in Objects : o = Change
    BY <1>6
  <2>2. root' = [root EXCEPT ![n] = o] /\ UNCHANGED <<bit, vivado, board, madeHere>>
        /\ (n \in StagedNames => root[n] # None)
    BY <1>6, <2>1 DEF EditFile
  <2>3. /\ root' \in Inventories
        /\ \A m \in StagedNames : root[m] = None => root'[m] = None
    BY <1>1, <1>4, <2>1, <2>2 DEF Inventories
  <2>4. prog' = [prog EXCEPT !.edited = prog.edited \/ (Prog("program") /\ n = prog.name)]
    BY <1>6 DEF EditFile
  <2>5. (prog.edited \/ (Prog("program") /\ n = prog.name)) \in BOOLEAN
    BY <1>1 DEF Jobs, Prog
  <2>6. PICK b \in BOOLEAN : b = (prog.edited \/ (Prog("program") /\ n = prog.name))
    BY <2>5
  <2>7. prog' = [prog EXCEPT !.edited = b]
    BY <2>4, <2>6
  <2>8. /\ prog' \in Jobs /\ prog'.at = prog.at /\ prog'.name = prog.name
        /\ prog'.file = prog.file /\ prog'.want = prog.want /\ prog'.fp = prog.fp
        /\ prog'.switched = prog.switched /\ prog'.edited = b
    BY <1>1, <2>7 DEF Jobs
  <2>9. \/ root'[prog.name] \in {root[prog.name], None} /\ (prog.edited => prog'.edited)
        \/ prog.at = "program" => prog'.edited
    <3>1. CASE n = prog.name
      BY <2>6, <2>8, <3>1 DEF Prog
    <3>2. CASE n # prog.name
      <4>1. root'[prog.name] = root[prog.name]
        BY <1>1, <2>2, <3>2 DEF Inventories
      <4>2. prog.edited => b
        BY <2>6
      <4> QED
        BY <2>8, <4>1, <4>2
    <3> QED
      BY <3>1, <3>2
  <2> QED
    BY <1>1, <1>5, <2>2, <2>3, <2>8, <2>9
<1>7. ASSUME NEW n \in {"notes", "marker"} \cup StagedNames, RemoveFile(n) PROVE ServerKeeps
  <2>1. root' = [root EXCEPT ![n] = None] /\ UNCHANGED <<bit, vivado, board, prog, madeHere>>
    BY <1>7 DEF RemoveFile
  <2>2. /\ root' \in Inventories
        /\ \A m \in StagedNames : root[m] = None => root'[m] = None
        /\ root'[prog.name] \in {root[prog.name], None}
    BY <1>1, <1>4, <2>1 DEF Inventories
  <2> QED
    BY <1>1, <1>5, <2>1, <2>2
<1>8. ASSUME OverwriteBit, Change \in Objects PROVE ServerKeeps
  <2>1. UNCHANGED <<root, vivado, board, prog, madeHere>> /\ bit' \in Objects
    BY <1>8 DEF OverwriteBit
  <2>2. \A n \in StagedNames : root[n] = None => root'[n] = None
    BY <2>1
  <2> QED
    BY <1>1, <1>5, <2>1, <2>2
<1>9. ASSUME SwitchBoard PROVE ServerKeeps
  <2>1. prog' = [prog EXCEPT !.switched =
                    prog.switched \/ prog.at \in {"stage", "copy", "verify", "program"}]
        /\ board' \in Boards /\ UNCHANGED <<root, bit, vivado, madeHere>>
    BY <1>9 DEF SwitchBoard
  <2>2. PICK b \in BOOLEAN :
           b = (prog.switched \/ prog.at \in {"stage", "copy", "verify", "program"})
    BY <1>1 DEF Jobs
  <2>3. prog' = [prog EXCEPT !.switched = b]
    BY <2>1, <2>2
  <2>4. /\ prog' \in Jobs /\ prog'.at = prog.at /\ prog'.name = prog.name
        /\ prog'.file = prog.file /\ prog'.want = prog.want /\ prog'.fp = prog.fp
        /\ prog'.edited = prog.edited /\ prog'.switched = b
    BY <1>1, <2>3 DEF Jobs
  <2>5. prog.at = "stage" \/ HasStaged => prog'.switched
    BY <2>2, <2>4 DEF HasStaged
  <2> QED
    BY <1>1, <1>5, <2>1, <2>4, <2>5
<1>10. CASE VivadoExits
  <2>1. UNCHANGED <<root, bit, board, prog, madeHere>> /\ vivado' \subseteq vivado
    BY <1>10 DEF VivadoExits
  <2>2. /\ prog' \in Jobs /\ root' \in Inventories /\ bit' \in Objects /\ board' \in Boards
        /\ \A n \in StagedNames : root[n] = None => root'[n] = None
        /\ root'[prog.name] \in {root[prog.name], None}
    BY <1>1, <2>1
  <2>3. /\ prog'.at = prog.at /\ prog'.name = prog.name /\ prog'.file = prog.file
        /\ prog'.want = prog.want /\ prog'.fp = prog.fp /\ prog'.switched = prog.switched
        /\ board' = board /\ madeHere' = madeHere
    BY <2>1
  <2>4. prog.edited => prog'.edited
    BY <2>1
  <2> QED
    BY <1>3, <1>5, <2>1, <2>2, <2>3, <2>4
<1> QED
  BY <1>1, <1>3, <1>6, <1>7, <1>8, <1>9, <1>10, ChangeIsObject DEF World

(***************************************************************************)
(* Runtime directory: while the cleaner rests                              *)
(***************************************************************************)

\* What was planned and checked stays so; a change after the check is noted.
LEMMA CleanerRests ==
    ASSUME RuntimeInv, ServerKeeps, UNCHANGED <<windows, cleaner>>, changes' \in 0..MaxWorld,
           touched' = (touched \/ (cleaner.at = "unlink"
                                      /\ root'[cleaner.now] # root[cleaner.now]))
    PROVE  RuntimeInv'
<1>1. /\ windows \in BOOLEAN /\ touched \in BOOLEAN /\ cleaner \in Cleanups
  BY RuntimeTypes DEF RuntimeInv
<1>2. RuntimeTypeOK'
  <2>1. touched' \in BOOLEAN
    BY <1>1
  <2>2. windows' \in BOOLEAN /\ cleaner' \in Cleanups
    BY <1>1
  <2> QED
    BY <2>1, <2>2, RuntimeTyped DEF ServerKeeps
<1>3. Planned' = Planned
  BY DEF Planned, Targets
<1>4. cleaner.at = "unlink" => touched' \/ Intact(cleaner.now)'
  BY DEF RuntimeInv, Cleans, Intact
<1>5. Cleans'
  <2>1. Cleans /\ drawn \subseteq drawn'
    BY DEF RuntimeInv, ServerKeeps
  <2> QED
    BY <1>3, <1>4, <2>1 DEF Cleans
<1>6. Spares'
  <2> SUFFICES ASSUME cleaner.at \in {"scan", "validate", "delete", "unlink"},
                      ~cleaner.blind, Connected', HasStaged'
               PROVE  cleaner.reviewed[prog'.name] = None
    BY DEF Spares
  <2>1. CASE Connected /\ HasStaged /\ prog'.name = prog.name
    BY <2>1 DEF RuntimeInv, Spares
  <2>2. CASE prog'.name \in StagedNames \ drawn
    BY <2>2 DEF RuntimeInv, Cleans
  <2> QED
    BY <2>1, <2>2 DEF ServerKeeps
<1> QED
  BY <1>2, <1>5, <1>6 DEF RuntimeInv, ServerKeeps

(***************************************************************************)
(* Runtime directory: what the cleaner does                                *)
(***************************************************************************)

\* A step of the cleaner leaves the servers, their files but one, and the user.
LEMMA CleaningKeeps ==
    ASSUME RuntimeInv, cleaner' \in Cleanups, Cleans', Spares',
           root' \in Inventories, \A n \in RuntimeNames : root'[n] \in {root[n], None},
           touched' \in BOOLEAN,
           UNCHANGED <<windows, bit, vivado, board, prog, madeHere, drawn, changes>>
    PROVE  RuntimeInv'
<1>1. RuntimeTypeOK'
  <2>1. /\ windows \in BOOLEAN
        /\ bit \in Objects /\ vivado \subseteq {"own", "orphan"} /\ board \in Boards
        /\ prog \in Jobs /\ drawn \subseteq StagedNames
        /\ madeHere \in 1..MaxMade /\ changes \in 0..MaxWorld
    BY RuntimeTypes DEF RuntimeInv
  <2>2. windows' \in BOOLEAN
    BY <2>1
  <2>3. /\ bit' \in Objects /\ vivado' \subseteq {"own", "orphan"} /\ board' \in Boards
        /\ prog' \in Jobs /\ drawn' \subseteq StagedNames
        /\ madeHere' \in 1..MaxMade /\ changes' \in 0..MaxWorld
    BY <2>1
  <2> QED
    BY <2>2, <2>3, RuntimeTyped
<1>2. DrawnFirst /\ Stages /\ (HasStaged' <=> HasStaged) /\ drawn \subseteq StagedNames
  BY RuntimeTypes DEF RuntimeInv, HasStaged
<1>3. DrawnFirst'
  BY <1>2, StagedAre DEF DrawnFirst
<1>4. HasStaged => root'[prog.name] \in {root[prog.name], None}
  BY <1>2, StagedAre DEF Stages
<1>5. prog.at = "program" => root'[prog.name] \in {None, prog.file} \/ prog.edited
  BY <1>2, <1>4 DEF Stages, HasStaged
<1>6. Stages'
  <2>1. HasStaged' => prog'.name \in drawn'
    BY <1>2 DEF Stages
  <2>2. prog'.at \in {"verify", "program"} =>
           prog'.file \in Objects /\ prog'.file.data = prog'.want
    BY <1>2 DEF Stages
  <2>3. prog'.at = "program" => root'[prog'.name] \in {None, prog'.file} \/ prog'.edited
    BY <1>5
  <2>4. prog'.at = "stage" \/ HasStaged' => board' = prog'.fp \/ prog'.switched
    BY <1>2 DEF Stages
  <2> QED
    BY <2>1, <2>2, <2>3, <2>4 DEF Stages
<1> QED
  BY <1>1, <1>3, <1>6 DEF RuntimeInv

\* The plan a cleanup goes by, as the steps see it.
LEMMA CleanerIs ==
    ASSUME RuntimeInv
    PROVE  /\ cleaner \in Cleanups /\ root \in Inventories /\ Cleans /\ Spares
           /\ DrawnFirst /\ Resting \in Cleanups /\ Resting.at = "idle" /\ touched \in BOOLEAN
  BY RuntimeTypes DEF RuntimeInv, Resting, Cleanups

\* A step that ends the cleanup, or goes on with what was reviewed and planned.
LEMMA CleanerIdles ==
    ASSUME RuntimeInv, cleaner' = Resting,
           root' \in Inventories, \A n \in RuntimeNames : root'[n] \in {root[n], None},
           touched' \in BOOLEAN,
           UNCHANGED <<windows, bit, vivado, board, prog, madeHere, drawn, changes>>
    PROVE  RuntimeInv'
<1>1. cleaner' \in Cleanups /\ cleaner'.at = "idle"
  BY CleanerIs
<1>2. Cleans' /\ Spares'
  BY <1>1 DEF Cleans, Spares
<1> QED
  BY <1>1, <1>2, CleaningKeeps

LEMMA CleaningStepKeeps ==
    ASSUME RuntimeInv, Cleaning, UNCHANGED <<windows, drawn, changes>>
    PROVE  RuntimeInv'
<1>1. /\ cleaner \in Cleanups /\ root \in Inventories /\ Cleans /\ Spares /\ DrawnFirst
      /\ Resting \in Cleanups /\ Resting.at = "idle" /\ touched \in BOOLEAN
      /\ drawn \subseteq StagedNames
  BY CleanerIs, RuntimeTypes DEF RuntimeInv
<1>2. \A n \in RuntimeNames : root[n] \in {root[n], None}
  OBVIOUS
<1>3. ASSUME CleanerOnly, Block PROVE RuntimeInv'
  <2>1. cleaner' = Resting /\ UNCHANGED <<root, bit, vivado, board, prog, touched, madeHere>>
    BY <1>3 DEF CleanerOnly, Block
  <2>2. touched' \in BOOLEAN
    BY <1>1, <2>1
  <2> QED
    BY <1>1, <2>1, <2>2, CleanerIdles
\* Only the cleaner's own record moves.
<1>4. ASSUME CleanerOnly, cleaner' \in Cleanups, Cleans', Spares' PROVE RuntimeInv'
  <2>1. UNCHANGED <<root, bit, vivado, board, prog, touched, madeHere>>
    BY <1>4 DEF CleanerOnly
  <2>2. touched' \in BOOLEAN
    BY <1>1, <2>1
  <2> QED
    BY <1>1, <1>4, <2>1, <2>2, CleaningKeeps
<1>5. ASSUME NEW unknown \in BOOLEAN, Review(unknown) PROVE RuntimeInv'
  <2>1. cleaner' = [Resting EXCEPT !.at = "reviewed", !.reviewed = root, !.unknown = unknown]
        /\ CleanerOnly
    BY <1>5 DEF Review
  <2>2. cleaner' \in Cleanups /\ cleaner'.at = "reviewed" /\ cleaner'.reviewed = root
    BY <1>1, <2>1 DEF Cleanups
  <2>3. Cleans'
    BY <1>1, <2>2 DEF Cleans, DrawnFirst
  <2>4. Spares'
    BY <2>2 DEF Spares
  <2> QED
    BY <1>4, <2>1, <2>2, <2>3, <2>4
<1>6. CASE Apply
  <2>1. CASE CleanerGoes("detect")
    <3>1. /\ cleaner' \in Cleanups /\ cleaner'.at = "detect"
          /\ cleaner'.reviewed = cleaner.reviewed
      BY <1>1, <2>1 DEF CleanerGoes, Cleanups
    <3>2. cleaner.at # "idle"
      BY <1>6 DEF Apply
    <3>3. Cleans'
      BY <1>1, <1>6, <3>1, <3>2 DEF Cleans
    <3>4. Spares'
      BY <3>1 DEF Spares
    <3> QED
      BY <1>4, <1>6, <3>1, <3>3, <3>4 DEF Apply
  <2> QED
    BY <1>3, <1>6, <2>1 DEF Apply
<1>7. CASE Detect
  <2>1. CASE cleaner' = [cleaner EXCEPT !.at = "scan", !.blind = Connected]
    <3>1. /\ cleaner' \in Cleanups /\ cleaner'.at = "scan" /\ cleaner'.reviewed = cleaner.reviewed
          /\ cleaner'.blind = Connected
      <4>1. Connected \in BOOLEAN
        BY DEF Connected
      <4>2. PICK b \in BOOLEAN : b = Connected
        BY <4>1
      <4> QED
        BY <1>1, <2>1, <4>2 DEF Cleanups
    <3>2. cleaner.at # "idle"
      BY <1>7 DEF Detect
    <3>3. Cleans'
      BY <1>1, <1>7, <3>1, <3>2 DEF Cleans
    <3>4. Connected' = Connected
      BY <1>7 DEF Detect, CleanerOnly, Connected
    <3>5. Spares'
      BY <3>1, <3>4 DEF Spares
    <3> QED
      BY <1>4, <1>7, <3>1, <3>3, <3>5 DEF Detect
  <2> QED
    BY <1>3, <1>7, <2>1 DEF Detect
<1>8. CASE Scan
  <2>1. CASE SameInventory /\ cleaner' = [cleaner EXCEPT !.at = "validate", !.plan = root]
    <3>1. /\ cleaner' \in Cleanups /\ cleaner'.at = "validate"
          /\ cleaner'.reviewed = cleaner.reviewed /\ cleaner'.plan = cleaner.reviewed
          /\ cleaner'.blind = cleaner.blind
      BY <1>1, <2>1 DEF Cleanups, SameInventory
    <3>2. cleaner.at = "scan"
      BY <1>8 DEF Scan
    <3>3. Cleans'
      BY <1>1, <1>8, <3>1, <3>2 DEF Cleans
    <3>4. Spares'
      BY <1>1, <1>8, <3>1, <3>2 DEF Spares, HasStaged, Connected, Scan, CleanerOnly
    <3> QED
      BY <1>4, <1>8, <3>1, <3>3, <3>4 DEF Scan
  <2> QED
    BY <1>3, <1>8, <2>1 DEF Scan
<1>9. CASE Validate
  <2>1. CASE cleaner' = [cleaner EXCEPT !.at = "delete", !.rest = Planned]
    <3>1. Planned \subseteq RuntimeNames
      BY DEF Planned, Targets
    <3>2. /\ cleaner' \in Cleanups /\ cleaner'.at = "delete" /\ cleaner'.rest = Planned
          /\ cleaner'.blind = cleaner.blind
          /\ cleaner'.reviewed = cleaner.reviewed /\ cleaner'.plan = cleaner.plan
          /\ cleaner'.unknown = cleaner.unknown
      BY <1>1, <2>1, <3>1 DEF Cleanups
    <3>3. cleaner.at = "validate" /\ Planned' = Planned
      BY <1>9, <3>2 DEF Validate, Planned, Targets
    <3>4. Cleans'
      BY <1>1, <1>9, <3>2, <3>3 DEF Cleans
    <3>5. Spares'
      BY <1>1, <1>9, <3>2, <3>3 DEF Spares, HasStaged, Connected, Validate, CleanerOnly
    <3> QED
      BY <1>4, <1>9, <3>2, <3>4, <3>5 DEF Validate
  <2> QED
    BY <1>3, <1>9, <2>1 DEF Validate
<1>10. ASSUME NEW n \in RuntimeNames, CheckOne(n) PROVE RuntimeInv'
  <2>1. CASE Intact(n) /\ cleaner' = [cleaner EXCEPT !.at = "unlink", !.now = n]
    <3>1. /\ cleaner' \in Cleanups /\ cleaner'.at = "unlink" /\ cleaner'.rest = cleaner.rest
          /\ cleaner'.reviewed = cleaner.reviewed /\ cleaner'.plan = cleaner.plan
          /\ cleaner'.unknown = cleaner.unknown /\ cleaner'.now = n
          /\ cleaner'.blind = cleaner.blind
      BY <1>1, <2>1 DEF Cleanups
    <3>2. cleaner.at = "delete" /\ n \in cleaner.rest /\ Planned' = Planned /\ root' = root
      BY <1>10, <3>1 DEF CheckOne, CleanerOnly, Planned, Targets
    <3>3. Intact(n)' /\ n \in cleaner'.rest
      BY <2>1, <3>1, <3>2 DEF Intact
    <3>4. Cleans'
      <4>1. Intact(cleaner.now)'
        BY <3>1, <3>3 DEF Intact
      <4> QED
        BY <1>1, <3>1, <3>2, <3>3, <4>1 DEF Cleans
    <3>5. Spares'
      BY <1>1, <1>10, <3>1, <3>2 DEF Spares, HasStaged, Connected, CheckOne, CleanerOnly
    <3> QED
      BY <1>4, <1>10, <3>1, <3>4, <3>5 DEF CheckOne
  <2> QED
    BY <1>3, <1>10, <2>1 DEF CheckOne
<1>11. CASE Unlink
  <2>1. /\ touched' \in BOOLEAN /\ UNCHANGED <<bit, vivado, board, prog, madeHere>>
        /\ cleaner.at = "unlink"
    BY <1>11 DEF Unlink
  <2>2. CASE Block /\ UNCHANGED root
    <3>1. cleaner' = Resting /\ root' = root
      BY <2>2 DEF Block
    <3> QED
      BY <1>1, <2>1, <3>1, CleanerIdles
  <2>3. CASE /\ root' = [root EXCEPT ![cleaner.now] = None]
             /\ cleaner' = [cleaner EXCEPT !.at = "delete", !.rest = @ \ {cleaner.now},
                                               !.now = None]
    <3>1. /\ cleaner' \in Cleanups /\ cleaner'.at = "delete"
          /\ cleaner'.rest \subseteq cleaner.rest /\ cleaner'.blind = cleaner.blind
          /\ cleaner'.reviewed = cleaner.reviewed /\ cleaner'.plan = cleaner.plan
          /\ cleaner'.unknown = cleaner.unknown
      BY <1>1, <2>3 DEF Cleanups
    <3>2. Planned' = Planned
      BY <3>1 DEF Planned, Targets
    <3>3. root' \in Inventories /\ \A n \in RuntimeNames : root'[n] \in {root[n], None}
      BY <1>1, <2>3 DEF Inventories
    <3>4. Cleans'
      BY <1>1, <2>1, <3>1, <3>2 DEF Cleans
    <3>5. Spares'
      BY <1>1, <2>1, <3>1 DEF Spares, HasStaged, Connected
    <3> QED
      BY <2>1, <3>1, <3>3, <3>4, <3>5, CleaningKeeps
  <2> QED
    BY <1>11, <2>2, <2>3 DEF Unlink
<1>12. CASE Cleaned
  BY <1>3, <1>12 DEF Cleaned
<1> QED
  BY <1>5, <1>6, <1>7, <1>8, <1>9, <1>10, <1>11, <1>12 DEF Cleaning

LEMMA RuntimeStep == ASSUME RuntimeInv, [RuntimeNext]_runtimeVars PROVE RuntimeInv'
<1>1. CASE UNCHANGED runtimeVars
  BY <1>1 DEF runtimeVars, RuntimeInv, RuntimeTypeOK, PlatformTypeOK, DrawnFirst, Cleans,
              Planned, Intact, Targets, Spares, Connected, HasStaged, Stages
<1>2. CASE Cleaning /\ UNCHANGED <<windows, drawn, changes>>
  BY <1>2, CleaningStepKeeps
<1>3. CASE /\ (Server /\ UNCHANGED changes) \/ World
           /\ UNCHANGED <<windows, cleaner>>
           /\ touched' = (touched \/ (cleaner.at = "unlink"
                                          /\ root'[cleaner.now] # root[cleaner.now]))
  <2>1. changes \in 0..MaxWorld
    BY RuntimeTypes DEF RuntimeInv
  <2> QED
    BY <1>3, <2>1, ServerStepKeeps, WorldKeeps, CleanerRests
<1> QED
  BY <1>1, <1>2, <1>3 DEF RuntimeNext

\* Whatever the servers, the cleaner and the user do in the runtime directory,
\* the invariant holds (evidence_store.py, session.py, tools.py).
THEOREM RuntimeInvariant == RuntimeSpec => []RuntimeInv
<1>1. RuntimeInit => RuntimeInv
  BY RuntimeBegin
<1>2. RuntimeInv /\ [RuntimeNext]_runtimeVars => RuntimeInv'
  BY RuntimeStep
<1> QED BY <1>1, <1>2, PTL DEF RuntimeSpec

(***************************************************************************)
(* Runtime directory: deletions and programming                            *)
(***************************************************************************)

Deleted(n) ==
    /\ n \in Targets(cleaner.reviewed, cleaner.unknown)
    /\ root[n] = cleaner.reviewed[n] \/ (~windows /\ touched)
    /\ cleaner.blind \/ ~Awaited(n)

\* The cleaner takes a file away in one step, with the plan at hand.
LEMMA DeletionStep ==
    ASSUME RuntimeInv, [RuntimeNext]_runtimeVars, NEW n \in RuntimeNames,
           cleaner' # cleaner, root[n] # None, root'[n] = None
    PROVE  Deleted(n)
<1>1. /\ cleaner \in Cleanups /\ root \in Inventories /\ Cleans /\ Spares
  BY CleanerIs
<1>2. Cleaning
  BY DEF RuntimeNext, runtimeVars
<1>3. ~CleanerOnly
  BY DEF CleanerOnly
<1>4. Unlink
  BY <1>2, <1>3 DEF Cleaning, Review, Apply, Detect, Scan, Validate, CheckOne, Cleaned
<1>5. /\ cleaner.at = "unlink" /\ Deletes(cleaner.now)
      /\ root' = [root EXCEPT ![cleaner.now] = None]
  BY <1>4 DEF Unlink
<1>6. n = cleaner.now
  BY <1>1, <1>5 DEF Inventories
<1>7. n \in Targets(cleaner.reviewed, cleaner.unknown) /\ cleaner.plan = cleaner.reviewed
  BY <1>1, <1>5, <1>6 DEF Cleans, Planned
<1>8. root[n] = cleaner.reviewed[n] \/ (~windows /\ touched)
  BY <1>1, <1>5, <1>6, <1>7 DEF Cleans, Deletes, Intact
<1>9. cleaner.blind \/ ~Awaited(n)
  BY <1>1, <1>5, <1>7 DEF Spares, Targets, Awaited, HasStaged
<1> QED
  BY <1>7, <1>8, <1>9 DEF Deleted

\* A board is programmed in one step.
LEMMA ProgrammingStep ==
    ASSUME RuntimeInv, [RuntimeNext]_runtimeVars, device' \notin {None, device}
    PROVE  /\ device'.data = prog.want \/ prog.edited
           /\ device'.board = prog.fp \/ prog.switched
<1>1. ~UNCHANGED device
  OBVIOUS
<1>2. ~Cleaning
  BY <1>1 DEF Cleaning, Review, Apply, Detect, Scan, Validate, CheckOne, Cleaned, Unlink,
              CleanerOnly
<1>3. ~World
  BY <1>1 DEF World, EditFile, RemoveFile, OverwriteBit, SwitchBoard, VivadoExits
<1>4. Server
  BY <1>1, <1>2, <1>3 DEF RuntimeNext, runtimeVars
<1>5. Program
  BY <1>1, <1>4 DEF Server, EnsureIdentity, WriteMarker, WriteBootstrap, Spawn, Accept, Stop,
     ServerDies, LoadManifest, HashBitstream, Refuse, Preflight, Stage, Copy, CopyFails,
     VerifyStaged
<1>6. /\ prog.at = "program" /\ root[prog.name] # None
      /\ device' = [data |-> root[prog.name].data, board |-> board]
  BY <1>5 DEF Program, Prog
<1>7. /\ root[prog.name] = prog.file \/ prog.edited
      /\ prog.file.data = prog.want
      /\ board = prog.fp \/ prog.switched
  BY <1>6 DEF RuntimeInv, Stages, HasStaged
<1> QED
  BY <1>6, <1>7

(***************************************************************************)
(* Bundle folder: the inductive invariant                                  *)
(***************************************************************************)

Founds == [plain : Plain, nested : Reports, ref : Reports, trace : 0..MaxTrail,
           steady : BOOLEAN, intact : BOOLEAN]
Steps  == {"idle", "plain", "listPlain", "nested", "listNested", "trace", "sizeTrace",
           "hashTrace", "open", "fill", "readPlain", "readNested", "openTrace", "readTrace",
           "checkTrace", "readRef"}
Clerks == [at : Steps, own : Listings, found : Founds]

Gathers(c)   == c.at \in {"plain", "listPlain", "nested", "listNested", "trace", "sizeTrace",
                          "hashTrace", "open", "fill"}
Validates(c) == c.at \in {"readPlain", "readNested", "openTrace", "readTrace", "checkTrace",
                          "readRef"}

\* A listing that nobody edited has the plain files of its collection, or notes that
\* something came between.
Complete(l) == l.edited \/ l.raced \/ l.plain = l.c
Steady(c)   == c.at \notin {"plain", "listPlain"} => Complete(c.own)
Listed == /\ project <= tampering + 1
          /\ folder.manifest # Absent => Complete(folder.manifest)
          /\ \A s \in Servers : Steady(clerk[s])

\* The only collection there is, with nobody else at work, as its files come to be ...
Gathered(c) ==
    /\ folder.manifest \in {Absent, Torn}
    /\ c.own.c = 1 /\ c.own.source = 1 /\ ~c.own.edited
    /\ c.at # "plain" => folder.plain = 1
    /\ c.at \notin {"plain", "listPlain"} => c.own.plain = 1
    /\ c.at \notin {"plain", "listPlain", "nested"} => folder.nested = 1
    /\ c.at \in {"trace", "sizeTrace", "hashTrace", "open", "fill"} => c.own.nested = 1
    /\ c.at \in {"sizeTrace", "hashTrace", "open", "fill"} => folder.trace >= 1
    /\ c.at \in {"open", "fill"} => c.own.trace >= 1 /\ c.own.trace <= folder.trace

\* ... and once they are there.
Whole(l) ==
    /\ folder.plain = 1 /\ folder.nested = 1
    /\ l.plain = 1 /\ l.nested = 1 /\ l.source = 1 /\ ~l.edited
    /\ l.trace >= 1 /\ l.trace <= folder.trace
Validated(c) ==
    /\ Whole(c.own)
    /\ c.at # "readPlain" => c.found.plain = 1
    /\ c.at \notin {"readPlain", "readNested"} => c.found.nested = 1
    /\ c.at \in {"readTrace", "checkTrace", "readRef"} => c.found.trace >= c.own.trace

Unused == folder.manifest = Absent /\ \A s \in Servers : clerk[s].at = "idle"
Single ==
    /\ \A s, t \in Servers : Gathers(clerk[s]) /\ s # t => clerk[t].at = "idle"
    /\ \A s \in Servers : Gathers(clerk[s]) => Gathered(clerk[s])
    /\ \A s \in Servers : Validates(clerk[s]) => Validated(clerk[s])
    /\ folder.manifest \notin {Absent, Torn} => Whole(folder.manifest)
Calm ==
    /\ tampering = 0 /\ inPlace => folder.trace >= 1
    /\ collections = 0 => Unused
    /\ tampering = 0 /\ collections = 1 => Single

FolderInv == BundleTypeOK /\ Listed /\ Calm /\ HealthIsTrue

(***************************************************************************)
(* Bundle folder: types                                                    *)
(***************************************************************************)

Folders == [plain : Plain, nested : Reports, trace : 0..MaxTrail, ragged : BOOLEAN,
            manifest : Listings \cup {Absent}]

LEMMA BundleTypes ==
    ASSUME BundleTypeOK
    PROVE  /\ folder \in Folders /\ project \in Reports /\ project >= 1 /\ project \in Nat
           /\ inPlace \in BOOLEAN /\ clerk \in [Servers -> Clerks]
           /\ tampering \in 0..MaxTampering /\ collections \in 0..MaxCollections
  BY BundleFolderAssumption
     DEF BundleFolderAssumption, BundleTypeOK, Folders, Clerks, Steps, Founds,
         Validation, Reports

LEMMA BundleTyped ==
    ASSUME folder' \in Folders, project' \in Reports \ {0}, inPlace' \in BOOLEAN,
           clerk' \in [Servers -> Clerks], tampering' \in 0..MaxTampering,
           collections' \in 0..MaxCollections
    PROVE  BundleTypeOK'
  BY DEF BundleTypeOK, Folders, Clerks, Steps, Founds, Validation

\* What the bounds allow.
LEMMA NumbersAre ==
    /\ MaxCollections \in Nat /\ MaxTrail \in Nat /\ MaxTrail > 0 /\ MaxTampering \in Nat
    /\ 0..MaxCollections \subseteq Plain /\ Foreign \in Plain /\ 0 \in Plain
    /\ 0 \in Reports /\ 1 \in Reports /\ 0 \in 0..MaxTrail /\ 1 \in 0..MaxTrail
    /\ Torn \in Listings /\ Torn.c = 0 /\ Torn.plain = 0 /\ ~Torn.edited
    /\ Away \in Clerks /\ Away.at = "idle" /\ Away.own = Torn
    /\ Steady(Away) /\ ~Gathers(Away) /\ ~Validates(Away)
<1>1. /\ MaxCollections \in Nat /\ MaxTrail \in Nat /\ MaxTrail > 0 /\ MaxTampering \in Nat
  BY BundleFolderAssumption DEF BundleFolderAssumption
<1>2. /\ 0..MaxCollections \subseteq Plain /\ Foreign \in Plain /\ 0 \in Plain
      /\ 0 \in Reports /\ 1 \in Reports /\ 0 \in 0..MaxTrail /\ 1 \in 0..MaxTrail
      /\ 0 \in 0..MaxCollections
  BY <1>1 DEF Plain, Foreign, Reports
<1>3. Torn \in Listings /\ Torn.c = 0 /\ Torn.plain = 0 /\ ~Torn.edited
  BY <1>2 DEF Torn, Listings
<1>4. Nothing \in Founds
  BY <1>2 DEF Nothing, Founds
<1>5. Away \in Clerks /\ Away.at = "idle" /\ Away.own = Torn
  BY <1>3, <1>4 DEF Away, Clerks, Steps
<1>6. Steady(Away) /\ ~Gathers(Away) /\ ~Validates(Away)
  BY <1>3, <1>5 DEF Steady, Complete, Gathers, Validates
<1> QED
  BY <1>1, <1>2, <1>3, <1>5, <1>6

LEMMA BundleBegin == BundleInit => FolderInv
<1> SUFFICES ASSUME BundleInit PROVE FolderInv
  OBVIOUS
<1>1. /\ inPlace \in BOOLEAN /\ project = 1 /\ tampering = 0 /\ collections = 0
      /\ folder = [plain |-> 0, nested |-> 0, trace |-> IF inPlace THEN 1 ELSE 0,
                   ragged |-> FALSE, manifest |-> Absent]
      /\ clerk = [s \in Servers |-> Away] /\ health = Absent
  BY DEF BundleInit
<1>2. folder \in Folders /\ folder.manifest = Absent /\ (inPlace => folder.trace = 1)
  BY <1>1, NumbersAre DEF Folders
<1>3. clerk \in [Servers -> Clerks] /\ \A s \in Servers : clerk[s] = Away
  BY <1>1, NumbersAre
<1>4. BundleTypeOK
  BY <1>1, <1>2, <1>3, NumbersAre DEF BundleTypeOK, Folders, Clerks, Steps, Founds, Validation
<1>5. Listed
  BY <1>1, <1>2, <1>3, NumbersAre DEF Listed
<1>6. Calm
  BY <1>1, <1>2, <1>3, NumbersAre DEF Calm, Unused
<1>7. HealthIsTrue
  BY <1>1 DEF HealthIsTrue
<1> QED
  BY <1>4, <1>5, <1>6, <1>7 DEF FolderInv

(***************************************************************************)
(* Bundle folder: what a server does                                       *)
(***************************************************************************)

\* The invariant but for the answer of the validation that has just ended.
FolderKept == BundleTypeOK /\ Listed /\ Calm

\* One server goes on, in a folder that fits.
LEMMA ClerkGoes ==
    ASSUME FolderInv, NEW s \in Servers, NEW r \in Clerks,
           clerk' = [clerk EXCEPT ![s] = r], Steady(r),
           folder' \in Folders, WorldRests,
           folder'.manifest # Absent => Complete(folder'.manifest),
           tampering = 0 /\ inPlace => folder'.trace >= 1,
           collections' \in 1..MaxCollections,
           tampering = 0 /\ collections' = 1 => Single'
    PROVE  FolderKept'
<1>1. /\ project \in Reports \ {0} /\ inPlace \in BOOLEAN /\ clerk \in [Servers -> Clerks]
      /\ tampering \in 0..MaxTampering
  BY BundleTypes DEF FolderInv
<1>2. UNCHANGED project /\ UNCHANGED inPlace /\ UNCHANGED tampering
  BY DEF WorldRests
<1>3. BundleTypeOK'
  <2>1. clerk' \in [Servers -> Clerks] /\ collections' \in 0..MaxCollections
    BY <1>1, NumbersAre
  <2>2. project' \in Reports \ {0} /\ inPlace' \in BOOLEAN /\ tampering' \in 0..MaxTampering
    BY <1>1, <1>2
  <2> QED
    BY <2>1, <2>2, BundleTyped
<1>4. Listed'
  <2>1. \A t \in Servers : Steady(clerk'[t])
    BY <1>1 DEF FolderInv, Listed
  <2> QED
    BY <1>2, <2>1 DEF FolderInv, Listed
<1>5. Calm'
  BY <1>2 DEF Calm
<1> QED
  BY <1>3, <1>4, <1>5 DEF FolderKept

\* The only collection goes on.
LEMMA OnlyOneGathers ==
    ASSUME FolderInv, NEW s \in Servers, NEW r \in Clerks, clerk' = [clerk EXCEPT ![s] = r],
           \A t \in Servers : s # t => clerk[t].at = "idle",
           Gathers(r) => Gathered(r)', ~Validates(r),
           (folder.manifest \notin {Absent, Torn} => Whole(folder.manifest))'
    PROVE  Single'
<1>1. clerk \in [Servers -> Clerks]
  BY BundleTypes DEF FolderInv
<1>2. clerk'[s] = r /\ \A t \in Servers : s # t => clerk'[t] = clerk[t]
  BY <1>1
<1>3. \A t \in Servers : s # t => ~Gathers(clerk'[t]) /\ ~Validates(clerk'[t])
  BY <1>2 DEF Gathers, Validates
<1>4. \A t \in Servers : Gathers(clerk'[t]) => t = s /\ Gathered(r)'
  BY <1>2, <1>3
<1>5. \A t \in Servers : (Gathers(clerk[t]) => Gathered(clerk[t]))'
  BY <1>2, <1>4 DEF Gathers, Gathered
<1>6. \A t \in Servers : (Validates(clerk[t]) => Validated(clerk[t]))'
  BY <1>2, <1>3 DEF Validates
<1>7. \A t, u \in Servers : Gathers(clerk'[t]) /\ t # u => clerk'[u].at = "idle"
  BY <1>2, <1>4
<1>8. (folder.manifest \notin {Absent, Torn} => Whole(folder.manifest))'
  OBVIOUS
<1> QED
  BY <1>5, <1>6, <1>7, <1>8 DEF Single, Gathers

\* A step of a collection.
LEMMA GatherGoes ==
    ASSUME FolderInv, NEW s \in Servers, Gathers(clerk[s]), NEW r \in Clerks,
           clerk' = [clerk EXCEPT ![s] = r], ~Validates(r), Steady(r),
           folder' \in Folders, WorldRests, UNCHANGED collections,
           folder'.manifest # Absent => Complete(folder'.manifest),
           tampering = 0 /\ inPlace => folder'.trace >= 1,
           tampering = 0 /\ Gathered(clerk[s]) =>
               /\ Gathers(r) => Gathered(r)'
               /\ (folder.manifest \notin {Absent, Torn} => Whole(folder.manifest))'
    PROVE  FolderKept'
<1>1. clerk[s].at # "idle" /\ collections \in 0..MaxCollections
  BY BundleTypes DEF Gathers, FolderInv
<1>2. collections # 0
  BY <1>1 DEF FolderInv, Calm, Unused
<1>3. collections' \in 1..MaxCollections
  BY <1>1, <1>2, NumbersAre
<1>4. ASSUME tampering = 0, collections' = 1 PROVE Single'
  <2>1. Single
    BY <1>4 DEF FolderInv, Calm
  <2>2. (\A t \in Servers : s # t => clerk[t].at = "idle") /\ Gathered(clerk[s])
    BY <2>1 DEF Single
  <2> QED
    BY <1>4, <2>2, OnlyOneGathers
<1> QED
  BY <1>3, <1>4, ClerkGoes

\* A step that leaves the folder alone and collects nothing.
LEMMA ReaderGoes ==
    ASSUME FolderInv, NEW s \in Servers, NEW r \in Clerks,
           clerk' = [clerk EXCEPT ![s] = r], ~Gathers(r), Steady(r),
           UNCHANGED <<folder, collections>>, WorldRests,
           clerk[s].at # "idle" \/ folder.manifest \notin {Absent, Torn},
           r.at = "idle" \/ Validates(clerk[s]) \/ folder.manifest \notin {Absent, Torn},
           tampering = 0 /\ Single /\ Validates(r) => Validated(r)
    PROVE  FolderKept'
<1>1. clerk \in [Servers -> Clerks] /\ collections \in 0..MaxCollections /\ folder \in Folders
  BY BundleTypes DEF FolderInv
<1>2. collections # 0
  BY DEF FolderInv, Calm, Unused
<1>3. collections' \in 1..MaxCollections
  BY <1>1, <1>2, NumbersAre
<1>4. clerk'[s] = r /\ \A t \in Servers : s # t => clerk'[t] = clerk[t]
  BY <1>1
<1>5. ASSUME tampering = 0, collections' = 1 PROVE Single'
  <2>1. Single
    BY <1>5 DEF FolderInv, Calm
  <2>2. \A t \in Servers : Gathers(clerk'[t]) => t # s /\ Gathers(clerk[t])
    BY <1>4 DEF Gathers
  <2>3. \A t, u \in Servers : Gathers(clerk'[t]) /\ t # u => clerk'[u].at = "idle"
    <3> SUFFICES ASSUME NEW t \in Servers, NEW u \in Servers, Gathers(clerk'[t]), t # u
                 PROVE  clerk'[u].at = "idle"
      OBVIOUS
    <3>1. t # s /\ Gathers(clerk[t]) /\ clerk[s].at = "idle" /\ clerk[u].at = "idle"
      BY <2>1, <2>2 DEF Single
    <3>2. folder.manifest \in {Absent, Torn} /\ ~Validates(clerk[s])
      BY <2>1, <3>1 DEF Single, Gathered, Validates
    <3>3. r.at = "idle"
      BY <3>2
    <3> QED
      BY <1>4, <3>1, <3>3
  <2>4. \A t \in Servers : (Gathers(clerk[t]) => Gathered(clerk[t]))'
    BY <1>4, <2>1, <2>2 DEF Single, Gathers, Gathered
  <2>5. \A t \in Servers : (Validates(clerk[t]) => Validated(clerk[t]))'
    BY <1>4, <1>5, <2>1 DEF Single, Validates, Validated, Whole
  <2>6. (folder.manifest \notin {Absent, Torn} => Whole(folder.manifest))'
    BY <2>1 DEF Single, Whole
  <2> QED
    BY <2>3, <2>4, <2>5, <2>6 DEF Single, Gathers
<1>6. /\ folder' \in Folders
      /\ folder'.manifest # Absent => Complete(folder'.manifest)
      /\ tampering = 0 /\ inPlace => folder'.trace >= 1
  BY <1>1 DEF FolderInv, Listed, Calm
<1> QED
  BY <1>3, <1>5, <1>6, ClerkGoes

LEMMA GivesUpKeeps ==
    ASSUME FolderInv, NEW s \in Servers, GivesUp(s), WorldRests
    PROVE  FolderKept'
  BY NumbersAre, ReaderGoes DEF GivesUp, Busy

LEMMA CollectKeeps ==
    ASSUME FolderInv, NEW s \in Servers, Collect(s), WorldRests
    PROVE  FolderKept'
<1>1. /\ clerk \in [Servers -> Clerks] /\ collections \in 0..MaxCollections /\ folder \in Folders
      /\ project \in Reports /\ project \in Nat /\ project >= 1 /\ tampering \in 0..MaxTampering
  BY BundleTypes DEF FolderInv
<1>2. collections' = collections + 1 /\ collections' \in 1..MaxCollections /\ UNCHANGED folder
  BY <1>1, NumbersAre DEF Collect
<1>3. PICK n \in 0..MaxCollections : n = collections'
  BY <1>2, NumbersAre
<1>3a. PICK p \in Reports : p = project
  BY <1>1
<1> DEFINE l == [Torn EXCEPT !.c = n, !.source = p]
           r == [Away EXCEPT !.at = "plain", !.own = l]
<1>4. l \in Listings /\ l.c = n /\ l.source = p /\ ~l.edited
  <2>1. Torn \in Listings /\ ~Torn.edited
    BY NumbersAre
  <2> QED
    BY <1>3, <1>3a, <2>1 DEF Listings
<1>5. clerk' = [clerk EXCEPT ![s] = r]
  BY <1>3, <1>3a DEF Collect
<1> HIDE DEF l
<1>6. r \in Clerks /\ r.at = "plain" /\ r.own = l
  BY <1>4, NumbersAre DEF Clerks, Steps
<1> HIDE DEF r
<1>7. Gathers(r) /\ ~Validates(r) /\ Steady(r)
  BY <1>6 DEF Gathers, Validates, Steady
<1>8. ASSUME tampering = 0, collections' = 1 PROVE Single'
  <2>1. Unused
    BY <1>1, <1>2, <1>8 DEF FolderInv, Calm
  <2>2. project = 1
    BY <1>1, <1>8 DEF FolderInv, Listed
  <2>3. Gathered(r)'
    BY <1>2, <1>3, <1>3a, <1>4, <1>6, <1>8, <2>1, <2>2 DEF Gathered, Unused
  <2> QED
    BY <1>2, <1>5, <1>6, <1>7, <2>1, <2>3, OnlyOneGathers DEF Unused
<1>9. /\ folder' \in Folders
      /\ folder'.manifest # Absent => Complete(folder'.manifest)
      /\ tampering = 0 /\ inPlace => folder'.trace >= 1
  BY <1>1, <1>2 DEF FolderInv, Listed, Calm
<1> QED
  BY <1>2, <1>5, <1>6, <1>7, <1>8, <1>9, ClerkGoes

(***************************************************************************)
(* Bundle folder: the steps of a collection                                *)
(***************************************************************************)

LEMMA ClerkMoves ==
    ASSUME clerk \in [Servers -> Clerks], NEW s \in Servers, NEW step \in Steps, Moves(s, step)
    PROVE  \E r \in Clerks :
              /\ clerk' = [clerk EXCEPT ![s] = r] /\ r.at = step
              /\ r.own = clerk[s].own /\ r.found = clerk[s].found
<1>1. PICK c \in Clerks : c = clerk[s]
  OBVIOUS
<1> DEFINE r == [c EXCEPT !.at = step]
<1>2. clerk' = [clerk EXCEPT ![s] = r]
  BY <1>1 DEF Moves
<1>3. r \in Clerks /\ r.at = step /\ r.own = c.own /\ r.found = c.found
  BY DEF Clerks, Steps
<1> HIDE DEF r
<1> QED
  BY <1>1, <1>2, <1>3

LEMMA ClerkLists ==
    ASSUME clerk \in [Servers -> Clerks], NEW s \in Servers, NEW step \in Steps,
           NEW l \in Listings, Lists(s, l, step)
    PROVE  \E r \in Clerks :
              /\ clerk' = [clerk EXCEPT ![s] = r] /\ r.at = step
              /\ r.own = l
<1>1. PICK c \in Clerks : c = clerk[s]
  OBVIOUS
<1> DEFINE r == [c EXCEPT !.own = l, !.at = step]
<1>2. clerk' = [clerk EXCEPT ![s] = r]
  BY <1>1 DEF Lists
<1>3. r \in Clerks /\ r.at = step /\ r.own = l
  BY DEF Clerks, Steps
<1> HIDE DEF r
<1> QED
  BY <1>1, <1>2, <1>3

\* What is known of a server that collects, and of the folder.
LEMMA GatherIs ==
    ASSUME FolderInv, NEW s \in Servers, Gathers(clerk[s])
    PROVE  /\ clerk \in [Servers -> Clerks] /\ clerk[s] \in Clerks
           /\ clerk[s].own \in Listings
           /\ clerk[s].at \notin {"plain", "listPlain"} => Complete(clerk[s].own)
           /\ folder \in Folders
           /\ folder.manifest # Absent => Complete(folder.manifest)
           /\ tampering = 0 /\ inPlace => folder.trace >= 1
<1>1. clerk \in [Servers -> Clerks] /\ folder \in Folders
  BY BundleTypes DEF FolderInv
<1>2. clerk[s] \in Clerks /\ clerk[s].own \in Listings
  BY <1>1 DEF Clerks
<1>3. Steady(clerk[s]) /\ ~Validates(clerk[s])
  BY DEF FolderInv, Listed, Gathers, Validates
<1> QED
  BY <1>1, <1>2, <1>3 DEF Steady, FolderInv, Listed, Calm

LEMMA PlainKeeps ==
    ASSUME FolderInv, NEW s \in Servers, WritePlain(s) \/ ListPlain(s), WorldRests
    PROVE  FolderKept'
<1>1. Gathers(clerk[s])
  BY DEF Gathers, WritePlain, ListPlain, Busy
<1>2. /\ clerk \in [Servers -> Clerks] /\ clerk[s].own \in Listings
      /\ folder \in Folders
      /\ folder.manifest # Absent => Complete(folder.manifest)
      /\ tampering = 0 /\ inPlace => folder.trace >= 1
  BY <1>1, GatherIs
<1>3. CASE WritePlain(s)
  <2>1. PICK r \in Clerks :
              /\ clerk' = [clerk EXCEPT ![s] = r] /\ r.at = "listPlain"
              /\ r.own = clerk[s].own
    BY <1>2, <1>3, ClerkMoves DEF WritePlain, Puts, Steps
  <2>2. PICK p \in Plain : p = clerk[s].own.c
    BY <1>2, NumbersAre DEF Listings
  <2>3. folder' = [folder EXCEPT !.plain = p] /\ UNCHANGED collections
    BY <1>3, <2>2 DEF WritePlain, Puts, OwnListing
  <2>4. /\ folder' \in Folders /\ folder'.plain = p /\ folder'.manifest = folder.manifest
        /\ folder'.nested = folder.nested /\ folder'.trace = folder.trace
    BY <1>2, <2>3 DEF Folders
  <2>5. Gathers(r) /\ ~Validates(r) /\ Steady(r)
    BY <1>2, <2>1 DEF Gathers, Validates, Steady
  <2>6. Gathered(clerk[s]) => Gathered(r)' /\ folder'.manifest \in {Absent, Torn}
    BY <2>1, <2>2, <2>4 DEF Gathered
  <2>7. /\ folder'.manifest # Absent => Complete(folder'.manifest)
        /\ tampering = 0 /\ inPlace => folder'.trace >= 1
    BY <1>2, <2>4
  <2> QED
    BY <1>1, <2>1, <2>3, <2>4, <2>5, <2>6, <2>7, GatherGoes
<1>4. CASE ListPlain(s)
  <2>1. PICK p \in Plain : p = folder.plain
    BY <1>2 DEF Folders
  <2>2. PICK b \in BOOLEAN : b = (p # clerk[s].own.c)
    OBVIOUS
  <2>3. PICK o \in Listings : o = clerk[s].own
    BY <1>2
  <2> DEFINE l == [o EXCEPT !.plain = p, !.raced = b]
  <2>4. Lists(s, l, "nested") /\ UNCHANGED <<folder, collections>>
    BY <1>4, <2>1, <2>2, <2>3 DEF ListPlain, Lists, OwnListing
  <2>5. /\ l \in Listings /\ l.plain = p /\ l.c = o.c /\ l.source = o.source
        /\ l.edited = o.edited /\ l.raced = b
    BY <2>1, <2>2, <2>3 DEF Listings
  <2> HIDE DEF l
  <2>6. PICK r \in Clerks : /\ clerk' = [clerk EXCEPT ![s] = r] /\ r.at = "nested"
                            /\ r.own = l
    BY <1>2, <2>4, <2>5, ClerkLists DEF Steps
  <2>7. Complete(l)
    BY <2>2, <2>3, <2>5 DEF Complete
  <2>8. Gathers(r) /\ ~Validates(r) /\ Steady(r)
    BY <1>2, <2>6, <2>7 DEF Gathers, Validates, Steady
  <2>9. Gathered(clerk[s]) => Gathered(r)' /\ folder'.manifest \in {Absent, Torn}
    BY <1>4, <2>1, <2>3, <2>4, <2>5, <2>6 DEF Gathered, ListPlain, Busy
  <2>10. folder' \in Folders /\ (folder'.manifest # Absent => Complete(folder'.manifest))
         /\ (tampering = 0 /\ inPlace => folder'.trace >= 1)
    BY <1>2, <2>4
  <2> QED
    BY <1>1, <2>4, <2>6, <2>8, <2>9, <2>10, GatherGoes
<1> QED
  BY <1>3, <1>4

LEMMA NestedKeeps ==
    ASSUME FolderInv, NEW s \in Servers, WriteNested(s) \/ ListNested(s), WorldRests
    PROVE  FolderKept'
<1>1. Gathers(clerk[s])
  BY DEF Gathers, WriteNested, ListNested, Busy
<1>2. /\ clerk \in [Servers -> Clerks] /\ clerk[s].own \in Listings
      /\ Complete(clerk[s].own) /\ folder \in Folders
      /\ folder.manifest # Absent => Complete(folder.manifest)
      /\ tampering = 0 /\ inPlace => folder.trace >= 1
  BY <1>1, GatherIs DEF WriteNested, ListNested, Busy
<1>3. CASE WriteNested(s)
  <2>1. PICK r \in Clerks :
              /\ clerk' = [clerk EXCEPT ![s] = r] /\ r.at = "listNested"
              /\ r.own = clerk[s].own
    BY <1>2, <1>3, ClerkMoves DEF WriteNested, Puts, Steps
  <2>2. PICK n \in Reports : n = clerk[s].own.source
    BY <1>2 DEF Listings
  <2>3. folder' = [folder EXCEPT !.nested = n] /\ UNCHANGED collections
    BY <1>3, <2>2 DEF WriteNested, Puts, OwnListing
  <2>4. /\ folder' \in Folders /\ folder'.plain = folder.plain
        /\ folder'.manifest = folder.manifest
        /\ folder'.nested = n /\ folder'.trace = folder.trace
    BY <1>2, <2>3 DEF Folders
  <2>5. Gathers(r) /\ ~Validates(r) /\ Steady(r)
    BY <1>2, <2>1 DEF Gathers, Validates, Steady
  <2>6. Gathered(clerk[s]) => Gathered(r)' /\ folder'.manifest \in {Absent, Torn}
    BY <1>3, <2>1, <2>2, <2>4 DEF Gathered, WriteNested, Busy
  <2>7. /\ folder'.manifest # Absent => Complete(folder'.manifest)
        /\ tampering = 0 /\ inPlace => folder'.trace >= 1
    BY <1>2, <2>4
  <2> QED
    BY <1>1, <2>1, <2>3, <2>4, <2>5, <2>6, <2>7, GatherGoes
<1>4. CASE ListNested(s)
  <2>1. PICK n \in Reports : n = folder.nested
    BY <1>2 DEF Folders
  <2>2. PICK o \in Listings : o = clerk[s].own
    BY <1>2
  <2> DEFINE l == [o EXCEPT !.nested = n]
  <2>3. Lists(s, l, "trace") /\ UNCHANGED <<folder, collections>>
    BY <1>4, <2>1, <2>2 DEF ListNested, Lists, OwnListing
  <2>4. /\ l \in Listings /\ l.plain = o.plain /\ l.c = o.c /\ l.source = o.source
        /\ l.edited = o.edited /\ l.raced = o.raced /\ l.nested = n
    BY <2>1, <2>2 DEF Listings
  <2> HIDE DEF l
  <2>5. PICK r \in Clerks : /\ clerk' = [clerk EXCEPT ![s] = r] /\ r.at = "trace"
                            /\ r.own = l
    BY <1>2, <2>3, <2>4, ClerkLists DEF Steps
  <2>6. Complete(l)
    BY <1>2, <2>2, <2>4 DEF Complete
  <2>7. Gathers(r) /\ ~Validates(r) /\ Steady(r)
    BY <1>2, <2>5, <2>6 DEF Gathers, Validates, Steady
  <2>8. Gathered(clerk[s]) => Gathered(r)' /\ folder'.manifest \in {Absent, Torn}
    BY <1>4, <2>1, <2>2, <2>3, <2>4, <2>5 DEF Gathered, ListNested, Busy
  <2>9. folder' \in Folders /\ (folder'.manifest # Absent => Complete(folder'.manifest))
         /\ (tampering = 0 /\ inPlace => folder'.trace >= 1)
    BY <1>2, <2>3
  <2> QED
    BY <1>1, <2>3, <2>5, <2>7, <2>8, <2>9, GatherGoes
<1> QED
  BY <1>3, <1>4

LEMMA TraceCopied ==
    ASSUME FolderInv, NEW s \in Servers, NEW length \in 0..MaxTrail, NEW ragged \in BOOLEAN,
           CopyTrace(s, length, ragged), WorldRests
    PROVE  FolderKept'
<1>1. Gathers(clerk[s])
  BY DEF Gathers, CopyTrace, Busy
<1>2. /\ clerk \in [Servers -> Clerks] /\ clerk[s].own \in Listings
      /\ Complete(clerk[s].own) /\ folder \in Folders
      /\ folder.manifest # Absent => Complete(folder.manifest)
      /\ tampering = 0 /\ inPlace => folder.trace >= 1
  BY <1>1, GatherIs DEF CopyTrace, Busy
<1>3. PICK r \in Clerks :
            /\ clerk' = [clerk EXCEPT ![s] = r] /\ r.at = "sizeTrace"
            /\ r.own = clerk[s].own
  BY <1>2, ClerkMoves DEF CopyTrace, Steps
<1>4. folder' = [folder EXCEPT !.trace = length, !.ragged = ragged] /\ UNCHANGED collections
  BY DEF CopyTrace
<1>5. /\ folder' \in Folders /\ folder'.plain = folder.plain
      /\ folder'.manifest = folder.manifest
      /\ folder'.nested = folder.nested /\ folder'.trace = length
  BY <1>2, <1>4 DEF Folders
<1>6. Gathers(r) /\ ~Validates(r) /\ Steady(r)
  BY <1>2, <1>3 DEF Gathers, Validates, Steady
<1>7. tampering = 0 => length >= 1
  BY <1>2, NumbersAre DEF CopyTrace
<1>8. ASSUME tampering = 0, Gathered(clerk[s])
      PROVE  Gathered(r)' /\ folder'.manifest \in {Absent, Torn}
  BY <1>3, <1>5, <1>7, <1>8 DEF Gathered, CopyTrace, Busy
<1>9. /\ folder'.manifest # Absent => Complete(folder'.manifest)
      /\ tampering = 0 /\ inPlace => folder'.trace >= 1
  BY <1>2, <1>5, <1>7
<1> QED
  BY <1>1, <1>3, <1>4, <1>5, <1>6, <1>8, <1>9, GatherGoes

LEMMA TraceListed ==
    ASSUME FolderInv, NEW s \in Servers, SizeTrace(s) \/ HashTrace(s), WorldRests
    PROVE  FolderKept'
<1>1. Gathers(clerk[s])
  BY DEF Gathers, SizeTrace, HashTrace, Busy
<1>2. /\ clerk \in [Servers -> Clerks] /\ clerk[s].own \in Listings
      /\ Complete(clerk[s].own) /\ folder \in Folders
      /\ folder.manifest # Absent => Complete(folder.manifest)
      /\ tampering = 0 /\ inPlace => folder.trace >= 1
  BY <1>1, GatherIs DEF SizeTrace, HashTrace, Busy
<1>3. PICK n \in 0..MaxTrail : n = folder.trace
  BY <1>2 DEF Folders
<1>4. PICK o \in Listings : o = clerk[s].own
  BY <1>2
<1>5. UNCHANGED <<folder, collections>>
  BY DEF SizeTrace, HashTrace, Lists
<1>6. folder' \in Folders /\ (folder'.manifest # Absent => Complete(folder'.manifest))
       /\ (tampering = 0 /\ inPlace => folder'.trace >= 1)
  BY <1>2, <1>5
<1>7. CASE SizeTrace(s)
  <2> DEFINE l == [o EXCEPT !.size = n]
  <2>1. Lists(s, l, "hashTrace")
    BY <1>3, <1>4, <1>7 DEF SizeTrace, OwnListing
  <2>2. /\ l \in Listings /\ l.plain = o.plain /\ l.c = o.c /\ l.source = o.source
        /\ l.edited = o.edited /\ l.raced = o.raced /\ l.nested = o.nested
    BY <1>3, <1>4 DEF Listings
  <2> HIDE DEF l
  <2>3. PICK r \in Clerks : /\ clerk' = [clerk EXCEPT ![s] = r] /\ r.at = "hashTrace"
                            /\ r.own = l
    BY <1>2, <2>1, <2>2, ClerkLists DEF Steps
  <2>4. Gathers(r) /\ ~Validates(r) /\ Steady(r)
    BY <1>2, <1>4, <2>2, <2>3 DEF Gathers, Validates, Steady, Complete
  <2>5. Gathered(clerk[s]) => Gathered(r)' /\ folder'.manifest \in {Absent, Torn}
    BY <1>4, <1>5, <1>7, <2>2, <2>3 DEF Gathered, SizeTrace, Busy
  <2> QED
    BY <1>1, <1>5, <1>6, <2>3, <2>4, <2>5, GatherGoes
<1>8. CASE HashTrace(s)
  <2> DEFINE l == [o EXCEPT !.trace = n]
  <2>1. Lists(s, l, "open")
    BY <1>3, <1>4, <1>8 DEF HashTrace, OwnListing
  <2>2. /\ l \in Listings /\ l.plain = o.plain /\ l.c = o.c /\ l.source = o.source
        /\ l.edited = o.edited /\ l.raced = o.raced /\ l.nested = o.nested /\ l.trace = n
    BY <1>3, <1>4 DEF Listings
  <2> HIDE DEF l
  <2>3. PICK r \in Clerks : /\ clerk' = [clerk EXCEPT ![s] = r] /\ r.at = "open"
                            /\ r.own = l
    BY <1>2, <2>1, <2>2, ClerkLists DEF Steps
  <2>4. Gathers(r) /\ ~Validates(r) /\ Steady(r)
    BY <1>2, <1>4, <2>2, <2>3 DEF Gathers, Validates, Steady, Complete
  <2>5. Gathered(clerk[s]) => Gathered(r)' /\ folder'.manifest \in {Absent, Torn}
    BY <1>3, <1>4, <1>5, <1>8, <2>2, <2>3, NumbersAre DEF Gathered, HashTrace, Busy
  <2> QED
    BY <1>1, <1>5, <1>6, <2>3, <2>4, <2>5, GatherGoes
<1> QED
  BY <1>7, <1>8

LEMMA ManifestKeeps ==
    ASSUME FolderInv, NEW s \in Servers, WorldRests, OpenManifest(s) \/ FillManifest(s)
    PROVE  FolderKept'
<1>1. Gathers(clerk[s])
  BY DEF Gathers, OpenManifest, FillManifest, Busy
<1>2. /\ clerk \in [Servers -> Clerks] /\ clerk[s].own \in Listings
      /\ Complete(clerk[s].own) /\ folder \in Folders
      /\ tampering = 0 /\ inPlace => folder.trace >= 1
  BY <1>1, GatherIs DEF OpenManifest, FillManifest, Busy
<1>3. CASE OpenManifest(s)
  <2>1. PICK r \in Clerks :
              /\ clerk' = [clerk EXCEPT ![s] = r] /\ r.at = "fill"
              /\ r.own = clerk[s].own
    BY <1>2, <1>3, ClerkMoves DEF OpenManifest, Puts, Steps
  <2>2. folder' = [folder EXCEPT !.manifest = Torn] /\ UNCHANGED collections
    BY <1>3 DEF OpenManifest, Puts
  <2>3. /\ folder' \in Folders /\ folder'.plain = folder.plain /\ folder'.manifest = Torn
        /\ folder'.nested = folder.nested /\ folder'.trace = folder.trace
    BY <1>2, <2>2, NumbersAre DEF Folders
  <2>4. Gathers(r) /\ ~Validates(r) /\ Steady(r)
    BY <1>2, <2>1 DEF Gathers, Validates, Steady
  <2>5. Complete(Torn)
    BY NumbersAre DEF Complete
  <2>6. Gathered(clerk[s]) => Gathered(r)' /\ folder'.manifest \in {Absent, Torn}
    BY <1>3, <2>1, <2>3 DEF Gathered, OpenManifest, Busy
  <2>7. tampering = 0 /\ inPlace => folder'.trace >= 1
    BY <1>2, <2>3
  <2> QED
    BY <1>1, <2>1, <2>2, <2>3, <2>4, <2>5, <2>6, <2>7, GatherGoes
<1>4. CASE FillManifest(s)
  <2>1. PICK l \in Listings : l = clerk[s].own
    BY <1>2
  <2>2. folder' = [folder EXCEPT !.manifest = l] /\ UNCHANGED collections
        /\ clerk' = [clerk EXCEPT ![s] = Away]
    BY <1>4, <2>1 DEF FillManifest, OwnListing
  <2>3. /\ folder' \in Folders /\ folder'.plain = folder.plain /\ folder'.manifest = l
        /\ folder'.nested = folder.nested /\ folder'.trace = folder.trace
    BY <1>2, <2>2 DEF Folders
  <2>4. Gathered(clerk[s]) => Whole(folder.manifest)'
    BY <1>4, <2>1, <2>3 DEF Gathered, Whole, FillManifest, Busy
  <2>5. tampering = 0 /\ inPlace => folder'.trace >= 1
    BY <1>2, <2>3
  <2> QED
    BY <1>1, <1>2, <2>1, <2>2, <2>3, <2>4, <2>5, NumbersAre, GatherGoes
<1> QED
  BY <1>3, <1>4

(***************************************************************************)
(* Bundle folder: the steps of a validation                                *)
(***************************************************************************)

\* What is known of a server that validates.
LEMMA ValidatorIs ==
    ASSUME FolderInv, NEW s \in Servers, Validates(clerk[s])
    PROVE  /\ clerk \in [Servers -> Clerks] /\ clerk[s] \in Clerks /\ folder \in Folders
           /\ Steady(clerk[s]) /\ Complete(clerk[s].own) /\ clerk[s].at # "idle"
           /\ Single => Validated(clerk[s])
           /\ project \in Reports /\ (tampering = 0 => project = 1)
<1>1. /\ clerk \in [Servers -> Clerks] /\ folder \in Folders /\ project \in Reports
      /\ project \in Nat /\ project >= 1 /\ project <= tampering + 1
      /\ tampering \in 0..MaxTampering
  BY BundleTypes DEF FolderInv, Listed
<1>2. Steady(clerk[s])
  BY DEF FolderInv, Listed
<1>3. Complete(clerk[s].own) /\ clerk[s].at # "idle"
  BY <1>2 DEF Steady, Validates
<1> QED
  BY <1>1, <1>2, <1>3 DEF Single

LEMMA ValidateBundleKeeps ==
    ASSUME FolderInv, NEW s \in Servers, ValidateBundle(s), WorldRests
    PROVE  FolderKept'
<1>1. clerk \in [Servers -> Clerks] /\ folder \in Folders
  BY BundleTypes DEF FolderInv
<1>2. folder.manifest \in Listings /\ folder.manifest \notin {Absent, Torn}
  BY <1>1 DEF ValidateBundle, Folders
<1>3. PICK m \in Listings : m = folder.manifest
  BY <1>2
<1> DEFINE r == [Away EXCEPT !.at = "readPlain", !.own = m]
<1>4. clerk' = [clerk EXCEPT ![s] = r] /\ UNCHANGED <<folder, collections>>
  BY <1>3 DEF ValidateBundle
<1>5. r \in Clerks /\ r.at = "readPlain" /\ r.own = m
  BY NumbersAre DEF Clerks, Steps
<1> HIDE DEF r
<1>6. Complete(m)
  BY <1>2, <1>3 DEF FolderInv, Listed
<1>7. ~Gathers(r) /\ Steady(r)
  BY <1>5, <1>6 DEF Gathers, Steady, Validates
<1>8. Single => Validated(r)
  BY <1>2, <1>3, <1>5 DEF Single, Validated
<1> QED
  BY <1>2, <1>4, <1>5, <1>7, <1>8, ReaderGoes

\* A server that has read one more file, or looked at the trace again.
LEMMA HasRead ==
    ASSUME FolderInv, NEW s \in Servers, Validates(clerk[s]), WorldRests,
           NEW f \in Founds,
           NEW step \in {"readNested", "openTrace", "readTrace", "checkTrace", "readRef"},
           clerk' = [clerk EXCEPT ![s] = [clerk[s] EXCEPT !.found = f, !.at = step]],
           UNCHANGED <<folder, collections>>,
           Single =>
               /\ f.plain = 1
               /\ step # "readNested" => f.nested = 1
               /\ step \in {"readTrace", "checkTrace", "readRef"} =>
                      f.trace >= clerk[s].own.trace
    PROVE  FolderKept'
<1>1. /\ clerk \in [Servers -> Clerks] /\ clerk[s] \in Clerks /\ Steady(clerk[s])
      /\ clerk[s].at # "idle" /\ (Single => Validated(clerk[s])) /\ Complete(clerk[s].own)
  BY ValidatorIs
<1>2. PICK c \in Clerks : c = clerk[s]
  BY <1>1
<1> DEFINE r == [c EXCEPT !.found = f, !.at = step]
<1>3. clerk' = [clerk EXCEPT ![s] = r]
  BY <1>2
<1>4. r \in Clerks /\ r.at = step /\ r.own = c.own /\ r.found = f
  BY DEF Clerks, Steps
<1> HIDE DEF r
<1>5. ~Gathers(r) /\ Steady(r)
  BY <1>1, <1>2, <1>4 DEF Gathers, Steady
<1>6. Single => Validated(r)
  BY <1>1, <1>2, <1>4 DEF Validated
<1> QED
  BY <1>1, <1>3, <1>4, <1>5, <1>6, ReaderGoes

LEMMA FilesReadKeep ==
    ASSUME FolderInv, NEW s \in Servers, WorldRests,
           ReadPlain(s) \/ ReadNested(s) \/ OpenTrace(s)
    PROVE  FolderKept'
<1>1. Validates(clerk[s])
  BY DEF Validates, ReadPlain, ReadNested, OpenTrace, Busy
<1>2. /\ clerk \in [Servers -> Clerks] /\ clerk[s] \in Clerks /\ folder \in Folders
      /\ Single => Validated(clerk[s])
  BY <1>1, ValidatorIs
<1>3. PICK g \in Founds : g = clerk[s].found
  BY <1>2 DEF Clerks
<1>4. CASE ReadPlain(s)
  <2>1. PICK p \in Plain : p = folder.plain
    BY <1>2 DEF Folders
  <2> DEFINE f == [g EXCEPT !.plain = p]
  <2>2. clerk' = [clerk EXCEPT ![s] = [clerk[s] EXCEPT !.found = f, !.at = "readNested"]]
        /\ UNCHANGED <<folder, collections>>
    BY <1>3, <1>4, <2>1 DEF ReadPlain, Reads
  <2>3. f \in Founds /\ f.plain = p
    BY DEF Founds
  <2> HIDE DEF f
  <2>4. Single => f.plain = 1
    BY <1>2, <2>1, <2>3 DEF Validated, Whole
  <2> QED
    BY <1>1, <2>2, <2>3, <2>4, HasRead
<1>5. CASE ReadNested(s)
  <2>1. PICK p \in Reports : p = folder.nested
    BY <1>2 DEF Folders
  <2> DEFINE f == [g EXCEPT !.nested = p]
  <2>2. clerk' = [clerk EXCEPT ![s] = [clerk[s] EXCEPT !.found = f, !.at = "openTrace"]]
        /\ UNCHANGED <<folder, collections>>
    BY <1>3, <1>5, <2>1 DEF ReadNested, Reads
  <2>3. f \in Founds /\ f.plain = g.plain /\ f.nested = p
    BY DEF Founds
  <2> HIDE DEF f
  <2>4. Single => f.plain = 1 /\ f.nested = 1
    BY <1>2, <1>3, <1>5, <2>1, <2>3 DEF Validated, Whole, ReadNested, Busy
  <2> QED
    BY <1>1, <2>2, <2>3, <2>4, HasRead
<1>6. CASE OpenTrace(s)
  <2>1. PICK p \in 0..MaxTrail : p = folder.trace
    BY <1>2 DEF Folders
  <2> DEFINE f == [g EXCEPT !.trace = p]
  <2>2. clerk' = [clerk EXCEPT ![s] = [clerk[s] EXCEPT !.found = f, !.at = "readTrace"]]
        /\ UNCHANGED <<folder, collections>>
    BY <1>3, <1>6, <2>1 DEF OpenTrace, Reads
  <2>3. f \in Founds /\ f.plain = g.plain /\ f.nested = g.nested /\ f.trace = p
    BY DEF Founds
  <2> HIDE DEF f
  <2>4. clerk[s].own.trace \in Nat /\ p \in Nat
    BY <1>2, NumbersAre DEF Clerks, Listings
  <2>5. Single => f.plain = 1 /\ f.nested = 1 /\ f.trace >= clerk[s].own.trace
    BY <1>2, <1>3, <1>6, <2>1, <2>3, <2>4 DEF Validated, Whole, OpenTrace, Busy
  <2> QED
    BY <1>1, <2>2, <2>3, <2>5, HasRead
<1> QED
  BY <1>4, <1>5, <1>6

LEMMA TraceReadKeeps ==
    ASSUME FolderInv, NEW s \in Servers, WorldRests, ReadTrace(s) \/ CheckTrace(s)
    PROVE  FolderKept'
<1>1. Validates(clerk[s])
  BY DEF Validates, ReadTrace, CheckTrace, Busy
<1>2. /\ clerk \in [Servers -> Clerks] /\ clerk[s] \in Clerks
      /\ Single => Validated(clerk[s])
  BY <1>1, ValidatorIs
<1>3. PICK g \in Founds : g = clerk[s].found
  BY <1>2 DEF Clerks
<1>4. Single => g.plain = 1 /\ g.nested = 1 /\ g.trace >= clerk[s].own.trace
  BY <1>2, <1>3 DEF Validated, ReadTrace, CheckTrace, Busy
<1>5. CASE ReadTrace(s)
  <2>1. PICK b \in BOOLEAN : b = (folder.trace = clerk[s].found.trace)
    OBVIOUS
  <2> DEFINE f == [g EXCEPT !.steady = b]
  <2>2. clerk' = [clerk EXCEPT ![s] = [clerk[s] EXCEPT !.found = f, !.at = "checkTrace"]]
        /\ UNCHANGED <<folder, collections>>
    BY <1>3, <1>5, <2>1 DEF ReadTrace, Reads
  <2>3. f \in Founds /\ f.plain = g.plain /\ f.nested = g.nested /\ f.trace = g.trace
    BY DEF Founds
  <2> HIDE DEF f
  <2> QED
    BY <1>1, <1>4, <2>2, <2>3, HasRead
<1>6. CASE CheckTrace(s)
  <2>1. PICK b \in BOOLEAN : b = (folder.trace # 0 /\ ~folder.ragged)
    OBVIOUS
  <2> DEFINE f == [g EXCEPT !.intact = b]
  <2>2. clerk' = [clerk EXCEPT ![s] = [clerk[s] EXCEPT !.found = f, !.at = "readRef"]]
        /\ UNCHANGED <<folder, collections>>
    BY <1>3, <1>6, <2>1 DEF CheckTrace, Reads
  <2>3. f \in Founds /\ f.plain = g.plain /\ f.nested = g.nested /\ f.trace = g.trace
    BY DEF Founds
  <2> HIDE DEF f
  <2> QED
    BY <1>1, <1>4, <2>2, <2>3, HasRead
<1> QED
  BY <1>5, <1>6

\* The answer, from what was read.
LEMMA ConcludeHealthKeeps ==
    ASSUME FolderInv, NEW s \in Servers, NEW audit \in Audits,
           NEW auth \in {"READY", "WARN", "BLOCK"},
           ConcludeHealth(s, audit, auth), WorldRests
    PROVE  FolderInv'
<1>1. clerk[s].at = "readRef" /\ Validates(clerk[s])
  BY DEF ConcludeHealth, Busy, Validates
<1>2. /\ clerk[s] \in Clerks /\ Complete(clerk[s].own)
      /\ clerk[s].at # "idle" /\ (Single => Validated(clerk[s]))
      /\ project \in Reports /\ (tampering = 0 => project = 1)
  BY <1>1, ValidatorIs
<1>3. FolderKept'
  BY <1>1, <1>2, NumbersAre, ReaderGoes DEF ConcludeHealth
<1>4. PICK c \in Clerks : c = clerk[s]
  BY <1>2
<1>5. PICK m \in Listings, g \in Founds, p \in Reports :
         m = c.own /\ g = c.found /\ p = project
  BY <1>2 DEF Clerks
<1> DEFINE f  == [g EXCEPT !.ref = p]
           st == Status(m, f, audit, auth)
           re == Reviewable(m, f, audit, auth)
<1>6. /\ health' = [status |-> st, auth |-> auth, audit |-> audit, reviewable |-> re,
                    read |-> m, found |-> f]
      /\ auth \in Attested(m)
  BY <1>4, <1>5 DEF ConcludeHealth, OwnListing, ReadRef
<1>7. UNCHANGED tampering /\ UNCHANGED collections
  BY DEF ConcludeHealth, WorldRests
<1>8. /\ f.plain = g.plain /\ f.nested = g.nested /\ f.trace = g.trace /\ f.ref = p
      /\ f.steady = g.steady /\ f.intact = g.intact
  BY DEF Founds
<1> HIDE DEF f
<1>9. ASSUME re, auth = "READY" \/ ~m.edited
      PROVE  /\ f.plain = m.c \/ m.raced
             /\ f.nested = m.source /\ f.ref = m.source
             /\ f.intact /\ audit = "fresh"
  <2>1. st = "WARN" /\ audit # "stale"
    BY <1>9 DEF Reviewable
  <2>2. Holds(m, f) /\ audit # "block" /\ f.intact
    BY <2>1 DEF Status
  <2>3. ~m.edited
    BY <1>6, <1>9 DEF Attested
  <2>4. m.plain = m.c \/ m.raced
    BY <1>2, <1>4, <1>5, <2>3 DEF Complete
  <2>5. audit = "fresh"
    BY <2>1, <2>2 DEF Audits, PartialAudit
  <2> QED
    BY <2>2, <2>4, <2>5 DEF Holds, PlainHolds, NestedHolds
<1>10. ASSUME tampering = 0, collections = 1, audit # "block", TraceAtRest(m, f)
       PROVE  st # "BLOCK"
  <2>1. Validated(c)
    BY <1>2, <1>4, <1>10 DEF FolderInv, Calm
  <2>2. Holds(m, f) /\ f.intact
    BY <1>1, <1>2, <1>4, <1>5, <1>8, <1>10, <2>1
       DEF Validated, Whole, Holds, PlainHolds, NestedHolds, TraceHolds, TraceAtRest
  <2>3. auth # "BLOCK"
    BY <1>4, <1>5, <1>6, <2>1 DEF Attested, Validated, Whole
  <2> QED
    BY <1>10, <2>2, <2>3 DEF Status
<1> HIDE DEF st, re
<1>11. HealthIsTrue'
  <2>1. /\ health'.status = st /\ health'.auth = auth /\ health'.read = m
        /\ health'.audit = audit /\ health'.reviewable = re /\ health'.found = f
    BY <1>6
  <2>2. health'.reviewable <=> re
    BY <2>1
  <2> QED
    BY <1>7, <1>9, <1>10, <2>1, <2>2 DEF HealthIsTrue
<1> QED
  BY <1>3, <1>11 DEF FolderKept, FolderInv

(***************************************************************************)
(* Bundle folder: what others do, and the theorem                          *)
(***************************************************************************)

LEMMA OthersKeep == ASSUME FolderInv, Others PROVE FolderKept'
<1>1. /\ folder \in Folders /\ project \in Reports /\ project >= 1 /\ project \in Nat
      /\ inPlace \in BOOLEAN /\ clerk \in [Servers -> Clerks] /\ project <= tampering + 1
      /\ tampering \in 0..MaxTampering /\ collections \in 0..MaxCollections
  BY BundleTypes DEF FolderInv, Listed
<1>2. UNCHANGED inPlace /\ UNCHANGED clerk /\ UNCHANGED collections
  BY DEF Others
<1>3. folder.manifest # Absent => Complete(folder.manifest)
  BY DEF FolderInv, Listed
<1>4. CASE Grow
  <2>1. PICK n \in 0..MaxTrail : n >= 1 /\ n = folder.trace + 1 /\ folder.trace \in Nat
    BY <1>1, <1>4, NumbersAre DEF Grow, Folders
  <2>2. PICK ragged \in BOOLEAN :
            /\ folder' = [folder EXCEPT !.trace = n, !.ragged = ragged]
            /\ UNCHANGED project /\ UNCHANGED tampering
    BY <1>4, <2>1 DEF Grow
  <2>3. /\ folder' \in Folders /\ folder'.plain = folder.plain /\ folder'.nested = folder.nested
        /\ folder'.manifest = folder.manifest /\ folder'.trace = n
    BY <1>1, <2>2 DEF Folders
  <2>4. BundleTypeOK'
    <3>1. project' \in Reports \ {0} /\ inPlace' \in BOOLEAN /\ tampering' \in 0..MaxTampering
          /\ clerk' \in [Servers -> Clerks] /\ collections' \in 0..MaxCollections
      BY <1>1, <1>2, <2>2
    <3> QED
      BY <2>3, <3>1, BundleTyped
  <2>5. Listed'
    BY <1>2, <2>2, <2>3 DEF FolderInv, Listed
  <2>6. ASSUME NEW l \in Listings, Whole(l) PROVE Whole(l)'
    <3>1. l.trace \in Nat
      BY NumbersAre DEF Listings
    <3> QED
      BY <2>1, <2>3, <2>6, <3>1 DEF Whole
  <2>7. \A s \in Servers : clerk[s] \in Clerks /\ clerk[s].own \in Listings
                           /\ clerk[s].own.trace \in Nat
    BY <1>1, NumbersAre DEF Clerks, Listings
  <2>8. ASSUME Single PROVE Single'
    <3>1. \A s \in Servers : (Gathers(clerk[s]) => Gathered(clerk[s]))'
      BY <1>2, <2>1, <2>3, <2>7, <2>8 DEF Single, Gathers, Gathered
    <3>2. \A s \in Servers : (Validates(clerk[s]) => Validated(clerk[s]))'
      BY <1>2, <2>1, <2>3, <2>7, <2>8 DEF Single, Validates, Validated, Whole
    <3>3. (folder.manifest \notin {Absent, Torn} => Whole(folder.manifest))'
      <4> SUFFICES ASSUME folder'.manifest \notin {Absent, Torn} PROVE Whole(folder.manifest)'
        OBVIOUS
      <4>1. PICK l \in Listings : l = folder.manifest /\ Whole(l)
        BY <1>1, <2>3, <2>8 DEF Single, Folders
      <4>2. Whole(l)' /\ l = folder'.manifest
        BY <2>3, <2>6, <4>1
      <4> QED
        BY <4>2 DEF Whole
    <3> QED
      BY <1>2, <2>8, <3>1, <3>2, <3>3 DEF Single, Gathers
  <2>9. Calm'
    BY <1>2, <2>1, <2>2, <2>3, <2>8 DEF FolderInv, Calm, Unused
  <2> QED
    BY <2>4, <2>5, <2>9 DEF FolderKept
<1>5. CASE /\ tampering < MaxTampering /\ tampering' = tampering + 1
           /\ RewritePlain \/ RewriteTrace \/ EditManifest \/ ReportAgain
  <2>1. tampering' \in 1..MaxTampering /\ tampering' = tampering + 1
    BY <1>1, <1>5, NumbersAre
  <2>2. project' \in Reports \ {0} /\ project' <= tampering' + 1
    BY <1>1, <1>5, <2>1, NumbersAre
       DEF RewritePlain, RewriteTrace, EditManifest, ReportAgain, Reports
  <2>3. /\ folder' \in Folders /\ (folder'.manifest # Absent => Complete(folder'.manifest))
        /\ folder.manifest = Absent => folder'.manifest = Absent
    <3>1. CASE ReportAgain
      BY <1>1, <1>3, <3>1 DEF ReportAgain
    <3>2. CASE RewritePlain \/ RewriteTrace
      BY <1>1, <1>3, <3>2, NumbersAre DEF RewritePlain, RewriteTrace, Folders
    <3>3. CASE EditManifest
      <4>1. PICK l \in Listings : l = folder.manifest /\ l # Absent
        BY <1>1, <3>3 DEF EditManifest, Folders
      <4>2. PICK p \in Plain, t \in 0..MaxTrail : p = folder.plain /\ t = folder.trace
        BY <1>1 DEF Folders
      <4> DEFINE e == [l EXCEPT !.plain = p, !.size = t, !.trace = t, !.edited = TRUE]
      <4>3. folder' = [folder EXCEPT !.manifest = e]
        BY <3>3, <4>1, <4>2 DEF EditManifest
      <4>4. e \in Listings /\ e.edited
        BY DEF Listings
      <4> HIDE DEF e
      <4>5. folder' \in Folders /\ folder'.manifest = e
        BY <1>1, <4>3, <4>4 DEF Folders
      <4> QED
        BY <4>1, <4>4, <4>5 DEF Complete
    <3> QED
      BY <1>5, <3>1, <3>2, <3>3
  <2>4. BundleTypeOK'
    <3>1. inPlace' \in BOOLEAN /\ tampering' \in 0..MaxTampering
          /\ clerk' \in [Servers -> Clerks] /\ collections' \in 0..MaxCollections
      BY <1>1, <1>2, <2>1, NumbersAre
    <3> QED
      BY <2>2, <2>3, <3>1, BundleTyped
  <2>5. Listed'
    BY <1>2, <2>2, <2>3 DEF FolderInv, Listed
  <2>6. Calm'
    <3>1. tampering' # 0
      BY <2>1
    <3> QED
      BY <1>2, <2>3, <3>1 DEF FolderInv, Calm, Unused
  <2> QED
    BY <2>4, <2>5, <2>6 DEF FolderKept
<1> QED
  BY <1>4, <1>5 DEF Others

LEMMA BundleStep == ASSUME FolderInv, [BundleNext]_folderVars PROVE FolderInv'
<1>1. CASE UNCHANGED folderVars
  BY <1>1 DEF folderVars, FolderInv, BundleTypeOK, Listed, Steady, Validates, Complete, Calm,
              Unused, Single, Gathers, Gathered, Validated, Whole, HealthIsTrue
<1>2. CASE /\ \E s \in Servers, audit \in Audits, auth \in {"READY", "WARN", "BLOCK"} :
                 ConcludeHealth(s, audit, auth)
           /\ WorldRests
  BY <1>2, ConcludeHealthKeeps
<1>3. CASE FolderKept' /\ health' = Absent
  BY <1>3 DEF FolderKept, FolderInv, HealthIsTrue
<1>4. CASE Others /\ health' = Absent
  BY <1>3, <1>4, OthersKeep
<1>5. ASSUME NEW s \in Servers, WorldRests, health' = Absent,
             \/ Collect(s)
             \/ WritePlain(s) \/ ListPlain(s) \/ WriteNested(s) \/ ListNested(s)
             \/ \E length \in 0..MaxTrail, ragged \in BOOLEAN : CopyTrace(s, length, ragged)
             \/ SizeTrace(s) \/ HashTrace(s) \/ OpenManifest(s)
             \/ FillManifest(s) \/ ValidateBundle(s)
             \/ ReadPlain(s) \/ ReadNested(s)
             \/ OpenTrace(s) \/ ReadTrace(s) \/ CheckTrace(s) \/ GivesUp(s)
      PROVE  FolderInv'
  BY <1>3, <1>5, CollectKeeps, PlainKeeps, NestedKeeps, TraceCopied, TraceListed,
     ManifestKeeps, ValidateBundleKeeps, FilesReadKeep, TraceReadKeeps, GivesUpKeeps
<1> QED
  BY <1>1, <1>2, <1>4, <1>5 DEF BundleNext

\* Whatever servers and others do in the directory of a bundle, the invariant
\* holds (audit.py, agent_catalog.py).
THEOREM FolderInvariant == BundleSpec => []FolderInv
<1>1. BundleInit => FolderInv
  BY BundleBegin
<1>2. FolderInv /\ [BundleNext]_folderVars => FolderInv'
  BY BundleStep
<1> QED BY <1>1, <1>2, PTL DEF BundleSpec

(***************************************************************************)
(* The composition                                                         *)
(***************************************************************************)

\* A behaviour of the composition is one of every place (ManagedStorage).
LEMMA PlacesAct ==
    ASSUME [Next]_vars
    PROVE  /\ [FilesNext]_fileVars /\ [RuntimeNext]_runtimeVars
           /\ [TrustNext]_trustVars /\ [BundleNext]_folderVars
<1>1. CASE UNCHANGED vars
  BY <1>1 DEF vars
<1>2. CASE Next
  BY <1>2 DEF Next
<1> QED
  BY <1>1, <1>2

LEMMA PlacesBegin == Init => FilesInit /\ RuntimeInit /\ TrustInit /\ BundleInit
  BY DEF Init

LEMMA PlacesAreSpecified == Spec => FilesSpec /\ RuntimeSpec /\ TrustSpec /\ BundleSpec
<1>1. [Next]_vars => /\ [FilesNext]_fileVars /\ [RuntimeNext]_runtimeVars
                     /\ [TrustNext]_trustVars /\ [BundleNext]_folderVars
  BY PlacesAct
<1> QED
  BY <1>1, PlacesBegin, PTL DEF Spec, FilesSpec, RuntimeSpec, TrustSpec, BundleSpec

\* Files, processes, keys and bundles keep their types in every interleaving.
THEOREM StorageTyped == Spec => []TypeOK
<1>1. FilesInv /\ RuntimeInv /\ TrustInv /\ FolderInv => TypeOK
  BY DEF FilesInv, RuntimeInv, TrustInv, FolderInv, TypeOK
<1> QED
  BY <1>1, PlacesAreSpecified, FilesInvariant, RuntimeInvariant, TrustInvariant,
     FolderInvariant, PTL

\* A managed write or copy never leaves half a file at the target, and never takes
\* away a file but the one it saw there, after the new one is in place (managed_path.py).
THEOREM ReplacementIsSafeHolds == Spec => ReplacementIsSafe
<1>1. FilesInv /\ [FilesNext]_fileVars =>
        [\A w \in Writers : writer'[w] # writer[w] =>
           /\ disk'[Leaf] # NoFile => disk'[Leaf].data # Partial
           /\ \A f \in OnDisk \ OnDisk' :
                \/ f = disk[Temp(w)]
                \/ windows /\ At(w, "retire") /\ f = writer[w].seen
                \/ ~windows /\ f = disk[Leaf] /\ disk'[Leaf] = disk[Temp(w)]]_fileVars
  BY ReplacementStep DEF Replaces
<1> QED
  BY <1>1, PlacesAreSpecified, FilesInvariant, PTL DEF FilesSpec, ReplacementIsSafe

\* clean_runtime_cache deletes what its dry run has shown and no file that came or
\* changed since, nor a bitstream a session is about to program, if that session's
\* Vivado was not overlooked (runtime_cache.py, evidence_store.py).
THEOREM OnlyReviewedDeletedHolds == Spec => OnlyReviewedDeleted
<1>1. RuntimeInv /\ [RuntimeNext]_runtimeVars =>
        [cleaner' # cleaner => \A n \in RuntimeNames : root[n] # None /\ root'[n] = None =>
          /\ n \in Targets(cleaner.reviewed, cleaner.unknown)
          /\ root[n] = cleaner.reviewed[n] \/ (~windows /\ touched)
          /\ cleaner.blind \/ ~Awaited(n)]_runtimeVars
  BY DeletionStep DEF Deleted
<1> QED
  BY <1>1, PlacesAreSpecified, RuntimeInvariant, PTL DEF RuntimeSpec, OnlyReviewedDeleted

\* What program_hw_device programs is the confirmed bitstream, on the confirmed
\* board, but for an edit or a switch after the last look at each (tools.py).
THEOREM ProgrammedAsConfirmedHolds == Spec => ProgrammedAsConfirmed
<1>1. RuntimeInv /\ [RuntimeNext]_runtimeVars =>
        [device' \notin {None, device} =>
          /\ device'.data = prog.want \/ prog.edited
          /\ device'.board = prog.fp \/ prog.switched]_runtimeVars
  BY ProgrammingStep
<1> QED
  BY <1>1, PlacesAreSpecified, RuntimeInvariant, PTL DEF RuntimeSpec, ProgrammedAsConfirmed

\* An attestation is called valid only for what a server has signed, and a bundle is
\* offered for review only as it was collected (evidence_attestation.py, audit.py).
THEOREM VerdictIsTrueHolds == Spec => []VerdictIsTrue
<1>1. TrustInv /\ FolderInv => VerdictIsTrue
  BY DEF TrustInv, FolderInv, VerdictIsTrue
<1> QED
  BY <1>1, PlacesAreSpecified, TrustInvariant, FolderInvariant, PTL
=============================================================================
