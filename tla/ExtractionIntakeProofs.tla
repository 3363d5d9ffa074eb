----------------------- MODULE ExtractionIntakeProofs -----------------------
(***************************************************************************)
(* Theorems about ExtractionIntake, for any number of requests, processes,  *)
(* pages and attempts.                                                      *)
(*                                                                          *)
(* Every part of the invariant is about one request and its directory.  A   *)
(* step of another request, or of a sweep that is busy with another         *)
(* directory, is calm for it; what is left is the step of the request       *)
(* itself, and the step of a sweep that removes its directory.              *)
(***************************************************************************)
EXTENDS ExtractionIntake, TLAPS

USE StorageAssumption, PagesAssumption DEF Answers

-----------------------------------------------------------------------------
(* The invariant.                                                          *)

\* No sweep takes r for expired, and none removes it.
Untouched(r) == \A p \in Procs : r \notin sweep[p].stale /\ sweep[p].target # r

\* What is on disk for r.
DirInv(r) ==
  /\ ~dir[r].exists => dir[r].marker = "none" /\ ~dir[r].original
  /\ dir[r].exists /\ dir[r].marker = "none" /\ r \notin torn =>
       req[r].at \in {"mark", "end"} /\ ~dir[r].original

\* A request that has not written its marker yet is of no interest to sweeps.
EarlyInv(r) ==
  /\ req[r].at = "new" => ~dir[r].exists
  /\ req[r].at = "mark" => dir[r].exists
  /\ req[r].at \in {"new", "mark"} =>
       dir[r].marker = "none" /\ ~dir[r].original /\ Untouched(r)

\* Neither is one that renewed its lease in time.
LiveInv(r) ==
  /\ Using(r) /\ ~req[r].late =>
       dir[r].exists /\ dir[r].marker = "fresh" /\ Untouched(r)
  /\ Stored(r) /\ ~req[r].late => dir[r].original

\* Where a handler is, and what it has counted.
HandlerInv(r) ==
  /\ req[r].at \notin {"new", "end"} => req[r].by \in Procs
  /\ req[r].at \in {"mark", "upload", "lease"} => req[r].files > 0
  /\ req[r].at = "page" => req[r].todo > 0
  /\ \A page \in req[r].pages : ~page.review => page.text /\ ~page.failed

\* The end of a request.
EndInv(r) ==
  /\ req[r].at = "insert" => ~dir[r].exists
  /\ row[r] # None => req[r].at = "end" /\ ~dir[r].exists
  /\ req[r].answer # None => req[r].at = "end"
  /\ req[r].answer \in {"created", "error"} => ~dir[r].original
  /\ row[r] # None => \E pages \in SUBSET Page :
       /\ row[r] = Extraction(pages)
       /\ \A page \in pages : ~page.review => page.text /\ ~page.failed

RequestInv(r) == DirInv(r) /\ EarlyInv(r) /\ LiveInv(r) /\ HandlerInv(r) /\ EndInv(r)

IntakeInv == TypeOK /\ \A r \in Requests : RequestInv(r)

-----------------------------------------------------------------------------
(* Steps of others.                                                        *)

\* A step that leaves r alone.
Calm(r) ==
  /\ dir'[r] = dir[r] /\ req'[r] = req[r] /\ row'[r] = row[r]
  /\ r \in torn => r \in torn'
  /\ \A p \in Procs : /\ r \in sweep'[p].stale => r \in sweep[p].stale
                      /\ sweep'[p].target = r => sweep[p].target = r

LEMMA CalmKeeps ==
  ASSUME NEW r \in Requests, RequestInv(r), Calm(r)
  PROVE  RequestInv(r)'
<1>1. Untouched(r) => Untouched(r)'
  BY DEF Calm, Untouched
<1> QED
  BY <1>1 DEF Calm, RequestInv, DirInv, EarlyInv, LiveInv, HandlerInv, EndInv, Using, Stored

LEMMA RemnantsShape ==
  ASSUME NEW d \in Dir, NEW left \in Remnants(d)
  PROVE  /\ left \in Dir /\ left.exists
         /\ left.marker \in {"none", d.marker} /\ (left.original => d.original)
<1>1. PICK m \in {"none", d.marker}, o \in {FALSE, d.original} :
        left = [exists |-> TRUE, marker |-> m, original |-> o]
  BY DEF Remnants
<1>2. m \in Markers /\ o \in BOOLEAN /\ (o => d.original)
  BY DEF Dir, Markers
<1> QED
  BY <1>1, <1>2 DEF Dir

-----------------------------------------------------------------------------
(* Type correctness.                                                       *)

LEMMA InitType == Init => TypeOK
<1> SUFFICES ASSUME Init PROVE TypeOK
  OBVIOUS
<1>1. dir \in [Requests -> Dir]
  BY DEF Init, StorageInit, Absent, Dir, Markers
<1>2. sweep \in [Procs -> Sweep]
  BY DEF Init, StorageInit, NoSweep, Sweep
<1>3. req \in [Requests -> Handler]
  BY DEF Init, NewHandler, Handler, Steps
<1> QED
  BY <1>1, <1>2, <1>3 DEF Init, StorageInit, TypeOK, StorageTypeOK

\* What the operations on one directory do to the storage.
LEMMA MakeType ==
  ASSUME TypeOK, NEW r \in Requests, MakeDirectory(r)
  PROVE  /\ dir' \in [Requests -> Dir]
         /\ dir'[r] = [exists |-> TRUE, marker |-> "none", original |-> FALSE]
         /\ \A o \in Requests \ {r} : dir'[o] = dir[o]
  BY DEF TypeOK, StorageTypeOK, MakeDirectory, Absent, Dir, Markers

LEMMA WriteType ==
  ASSUME TypeOK, NEW r \in Requests, WriteMarker(r)
  PROVE  /\ dir' \in [Requests -> Dir] /\ sweep' \in [Procs -> Sweep]
         /\ dir[r].exists /\ dir'[r] = [dir[r] EXCEPT !.marker = "fresh"]
         /\ \A o \in Requests \ {r} : dir'[o] = dir[o]
         /\ \A p \in Procs : /\ sweep'[p].stale = sweep[p].stale \ {r}
                             /\ sweep'[p].target = sweep[p].target
<1>1. dir' \in [Requests -> Dir]
  BY DEF TypeOK, StorageTypeOK, WriteMarker, Dir, Markers
<1>2. ASSUME NEW p \in Procs
      PROVE  [sweep[p] EXCEPT !.stale = @ \ {r}] \in Sweep
  BY DEF TypeOK, StorageTypeOK, Sweep
<1>3. sweep' \in [Procs -> Sweep]
  BY <1>2 DEF WriteMarker, RenewedFor
<1>4. \A p \in Procs : /\ sweep'[p].stale = sweep[p].stale \ {r}
                       /\ sweep'[p].target = sweep[p].target
  BY DEF TypeOK, StorageTypeOK, WriteMarker, RenewedFor, Sweep
<1> QED
  BY <1>1, <1>3, <1>4 DEF TypeOK, StorageTypeOK, WriteMarker, Dir

LEMMA WriteIsCalm ==
  ASSUME TypeOK, NEW r \in Requests, WriteMarker(r), UNCHANGED torn,
         NEW o \in Requests \ {r}, req'[o] = req[o], row'[o] = row[o]
  PROVE  Calm(o)
<1>1. dir'[o] = dir[o]
  BY WriteType
<1>2. ASSUME NEW p \in Procs
      PROVE  /\ o \in sweep'[p].stale => o \in sweep[p].stale
             /\ sweep'[p].target = o => sweep[p].target = o
  BY WriteType
<1> QED
  BY <1>1, <1>2 DEF Calm

LEMMA RemoveType ==
  ASSUME TypeOK, NEW r \in Requests, CleanupRemoves(r) \/ CleanupFails(r) \/ CleanupRefused(r)
  PROVE  /\ dir' \in [Requests -> Dir] /\ torn' \subseteq Requests /\ torn \subseteq torn'
         /\ \A o \in Requests \ {r} : dir'[o] = dir[o]
         /\ CleanupRemoves(r) => dir[r].exists /\ dir'[r] = Absent
         /\ CleanupFails(r) => dir[r].exists /\ dir'[r] \in Remnants(dir[r]) /\ r \in torn'
         /\ CleanupRefused(r) => ~dir[r].exists /\ dir'[r] = dir[r]
<1>1. CASE CleanupRemoves(r)
  BY <1>1 DEF TypeOK, StorageTypeOK, CleanupRemoves, CleanupFails, CleanupRefused, Absent, Dir, Markers
<1>2. CASE CleanupFails(r)
  <2>1. PICK left \in Remnants(dir[r]) : dir' = [dir EXCEPT ![r] = left]
    BY <1>2 DEF CleanupFails
  <2>2. left \in Dir
    BY RemnantsShape DEF TypeOK, StorageTypeOK
  <2> QED
    BY <1>2, <2>1, <2>2 DEF TypeOK, StorageTypeOK, CleanupFails, CleanupRemoves, CleanupRefused
<1>3. CASE CleanupRefused(r)
  BY <1>3 DEF TypeOK, StorageTypeOK, CleanupRefused, CleanupRemoves, CleanupFails
<1> QED
  BY <1>1, <1>2, <1>3

\* What happens to a handler.
LEMMA HandlerUpdates ==
  /\ NewHandler \in Handler
  /\ \A h \in Handler, at \in Steps, e \in BOOLEAN : [h EXCEPT !.at = at, !.error = e] \in Handler
  /\ \A at \in Steps, a \in Answers :
       [NewHandler EXCEPT !.at = at, !.answer = a] \in Handler
<1>1. NewHandler \in Handler
  BY DEF Handler, NewHandler, Steps
<1> QED
  BY <1>1, ZenonT(40) DEF Handler

LEMMA StepNames == Blocking \cup {"new", "upload", "end"} \subseteq Steps
  BY DEF Steps

LEMMA GotoType ==
  ASSUME TypeOK, NEW r \in Requests, NEW at \in Steps, Goto(r, at)
  PROVE  /\ req' \in [Requests -> Handler] /\ req'[r] = [req[r] EXCEPT !.at = at]
         /\ \A o \in Requests \ {r} : req'[o] = req[o]
  BY DEF TypeOK, Goto, Handler

LEMMA FailsType ==
  ASSUME TypeOK, NEW r \in Requests, Fails(r)
  PROVE  /\ req' \in [Requests -> Handler]
         /\ req'[r] = [req[r] EXCEPT !.at = "cleanup", !.error = TRUE]
         /\ \A o \in Requests \ {r} : req'[o] = req[o]
<1>1. "cleanup" \in Steps
  BY SMTT(30) DEF Steps, Blocking
<1>2. PICK h : h = [req[r] EXCEPT !.at = "cleanup", !.error = TRUE]
  OBVIOUS
<1>3. h \in Handler
  <2>1. req[r] \in Handler
    BY DEF TypeOK
  <2>2. [req[r] EXCEPT !.at = "cleanup", !.error = TRUE] \in Handler
    BY <1>1, <2>1, HandlerUpdates, ZenonT(40)
  <2> QED
    BY <1>2, <2>2
<1>4. req' = [req EXCEPT ![r] = h] /\ req \in [Requests -> Handler]
  BY <1>2 DEF TypeOK, Fails
<1> QED
  BY <1>2, <1>3, <1>4

LEMMA AnswerType ==
  ASSUME TypeOK, NEW r \in Requests,
         NEW answer \in Answers, Answer(r, answer)
  PROVE  /\ req' \in [Requests -> Handler]
         /\ req'[r] = [NewHandler EXCEPT !.at = "end", !.answer = answer]
         /\ req'[r].at = "end" /\ req'[r].pages = {} /\ req'[r].answer = answer
         /\ \A o \in Requests \ {r} : req'[o] = req[o]
<1> DEFINE h == [NewHandler EXCEPT !.at = "end", !.answer = answer]
<1>1. h \in Handler
  BY HandlerUpdates, StepNames
<1>2. h.at = "end" /\ h.pages = {} /\ h.answer = answer
  BY DEF NewHandler
<1> HIDE DEF h
<1>3. req' = [req EXCEPT ![r] = h]
  BY DEF Answer, h
<1> QED
  BY <1>1, <1>2, <1>3, SMTT(30) DEF TypeOK, h

-----------------------------------------------------------------------------
(* The steps of a handler.                                                 *)

\* What a step of request r has to show.
StepOf(r) == TypeOK' /\ RequestInv(r)' /\ \A o \in Requests \ {r} : Calm(o)

LEMMA BeginStep ==
  ASSUME IntakeInv, NEW r \in Requests, NEW p \in Procs, NEW kind \in {"pdf", "image"},
         NEW files \in 1 .. MaxPages, Begin(r, p, kind, files)
  PROVE  StepOf(r)
<1> USE DEF IntakeInv
<1>1. /\ TypeOK /\ RequestInv(r) /\ req[r].at = "new"
      /\ UNCHANGED <<proc, sweep, torn, row>>
  BY DEF Begin
<1>2. ~dir[r].exists /\ row[r] = None /\ Untouched(r)
  BY <1>1 DEF RequestInv, EarlyInv, EndInv
<1>3. CASE MakeDirectory(r) /\ req' = [req EXCEPT ![r] = [NewHandler EXCEPT !.at = "mark", !.by = p,
                                        !.kind = kind, !.files = files]]
  <2> DEFINE h == [NewHandler EXCEPT !.at = "mark", !.by = p, !.kind = kind, !.files = files]
  <2>1. h \in Handler
    <3>1. "mark" \in Steps
      BY DEF Steps, Blocking
    <3>2. files \in 0 .. MaxPages /\ p \in Procs \cup {None}
      OBVIOUS
    <3> QED
      BY <3>1, <3>2, HandlerUpdates, ZenonT(40) DEF Handler
  <2>2. /\ h.at = "mark" /\ h.by = p /\ h.files = files /\ h.pages = {} /\ h.answer = None
    BY DEF NewHandler
  <2> HIDE DEF h
  <2>3. /\ req' \in [Requests -> Handler] /\ req'[r] = h
        /\ \A o \in Requests \ {r} : req'[o] = req[o]
    BY <1>1, <1>3, <2>1 DEF TypeOK, h
  <2>4. TypeOK'
    BY <1>1, <1>3, <2>3, MakeType DEF TypeOK, StorageTypeOK
  <2>5. \A o \in Requests \ {r} : Calm(o)
    BY <1>1, <1>3, <2>3, MakeType DEF Calm
  <2>6. Untouched(r)'
    BY <1>1, <1>2 DEF Untouched
  <2>7. dir'[r].exists /\ dir'[r].marker = "none" /\ ~dir'[r].original
    BY <1>1, <1>3, MakeType
  <2>8. DirInv(r)' /\ EarlyInv(r)' /\ LiveInv(r)'
    BY <2>2, <2>3, <2>6, <2>7 DEF DirInv, EarlyInv, LiveInv, Using, Stored
  <2>9. HandlerInv(r)' /\ EndInv(r)'
    BY <1>1, <1>2, <2>2, <2>3 DEF HandlerInv, EndInv
  <2> QED
    BY <2>4, <2>5, <2>8, <2>9 DEF StepOf, RequestInv
<1>4. CASE (MakeDirectory(r) \/ UNCHANGED dir) /\ Answer(r, "error")
  <2>1. /\ req' \in [Requests -> Handler]
        /\ req'[r].at = "end" /\ req'[r].pages = {} /\ req'[r].answer = "error"
        /\ \A o \in Requests \ {r} : req'[o] = req[o]
    BY <1>1, <1>4, AnswerType
  <2>2. /\ dir' \in [Requests -> Dir] /\ ~dir'[r].original
        /\ ~dir'[r].exists => dir'[r].marker = "none"
        /\ \A o \in Requests \ {r} : dir'[o] = dir[o]
    BY <1>1, <1>2, <1>4, MakeType DEF TypeOK, StorageTypeOK, RequestInv, DirInv
  <2>3. TypeOK'
    BY <1>1, <2>1, <2>2 DEF TypeOK, StorageTypeOK
  <2>4. \A o \in Requests \ {r} : Calm(o)
    BY <1>1, <2>1, <2>2 DEF Calm
  <2>5. RequestInv(r)'
    BY <1>1, <1>2, <2>1, <2>2
       DEF RequestInv, DirInv, EarlyInv, LiveInv, HandlerInv, EndInv, Using, Stored
  <2> QED
    BY <2>3, <2>4, <2>5 DEF StepOf
<1> QED
  BY <1>3, <1>4 DEF Begin

LEMMA MarkStep ==
  ASSUME IntakeInv, NEW r \in Requests, Mark(r)
  PROVE  StepOf(r)
<1> USE DEF IntakeInv
<1>1. /\ TypeOK /\ RequestInv(r) /\ req[r].at = "mark" /\ UNCHANGED <<proc, row>>
  BY DEF Mark, Runs
<1>2. /\ dir[r].exists /\ ~dir[r].original /\ Untouched(r) /\ row[r] = None
      /\ req[r].by \in Procs /\ req[r].answer = None
  BY <1>1 DEF RequestInv, EarlyInv, HandlerInv, EndInv
<1>3. CASE WriteMarker(r) /\ Goto(r, "upload") /\ UNCHANGED torn
  <2>1. /\ req' \in [Requests -> Handler] /\ req'[r] = [req[r] EXCEPT !.at = "upload"]
        /\ \A o \in Requests \ {r} : req'[o] = req[o]
    BY <1>1, <1>3, GotoType DEF Steps
  <2>2. /\ req'[r].at = "upload" /\ req'[r].by = req[r].by /\ req'[r].files = req[r].files
        /\ req'[r].pages = req[r].pages /\ req'[r].answer = None /\ req'[r].late = req[r].late
    BY <1>1, <1>2, <2>1 DEF TypeOK, Handler
  <2>3. dir'[r].exists /\ dir'[r].marker = "fresh" /\ ~dir'[r].original
    <3>1. dir[r] \in Dir
      BY <1>1 DEF TypeOK, StorageTypeOK
    <3>2. dir'[r] = [dir[r] EXCEPT !.marker = "fresh"]
      BY <1>1, <1>3, WriteType
    <3> QED
      BY <1>2, <3>1, <3>2 DEF Dir
  <2>4. TypeOK'
    BY <1>1, <1>3, <2>1, WriteType DEF TypeOK, StorageTypeOK
  <2>5. \A o \in Requests \ {r} : Calm(o)
    BY <1>1, <1>3, <2>1, WriteIsCalm
  <2>6. Untouched(r)'
    BY <1>1, <1>2, <1>3, WriteType DEF Untouched
  <2>7. RequestInv(r)'
    BY <1>1, <1>2, <2>2, <2>3, <2>6
       DEF RequestInv, DirInv, EarlyInv, LiveInv, HandlerInv, EndInv, Using, Stored
  <2> QED
    BY <2>4, <2>5, <2>7 DEF StepOf
<1>4. CASE /\ CleanupRemoves(r) \/ CleanupFails(r) \/ CleanupRefused(r)
           /\ Answer(r, "error") \/ Answer(r, "cleanup_failed")
           /\ UNCHANGED sweep
  <2>1. /\ req' \in [Requests -> Handler]
        /\ req'[r].at = "end" /\ req'[r].pages = {} /\ req'[r].answer \in {"error", "cleanup_failed"}
        /\ \A o \in Requests \ {r} : req'[o] = req[o]
    BY <1>1, <1>4, AnswerType
  <2>2. dir'[r] \in Dir /\ ~dir'[r].original /\ (~dir'[r].exists => dir'[r].marker = "none")
    BY <1>1, <1>2, <1>4, RemoveType, RemnantsShape
       DEF TypeOK, StorageTypeOK, Absent, Dir
  <2>3. TypeOK'
    BY <1>1, <1>4, <2>1, RemoveType DEF TypeOK, StorageTypeOK
  <2>4. \A o \in Requests \ {r} : Calm(o)
    BY <1>1, <1>4, <2>1, RemoveType DEF Calm
  <2>5. RequestInv(r)'
    BY <1>1, <1>2, <2>1, <2>2
       DEF RequestInv, DirInv, EarlyInv, LiveInv, HandlerInv, EndInv, Using, Stored
  <2> QED
    BY <2>3, <2>4, <2>5 DEF StepOf
<1> QED
  BY <1>3, <1>4 DEF Mark

\* A request that was marked goes on, with or without a renewal of its lease.
LEMMA MoveStep ==
  ASSUME IntakeInv, NEW r \in Requests, Using(r),
         NEW h \in Handler, req' = [req EXCEPT ![r] = h],
         UNCHANGED <<proc, torn, row>>,
         UNCHANGED <<dir, sweep>> \/ (CanRefresh(r) /\ WriteMarker(r)),
         h.by = req[r].by, h.late = req[r].late, h.answer = req[r].answer,
         h.at \in {"upload", "lease", "extract", "page", "prepare", "ocr", "limits", "cleanup"},
         h.at \in {"lease", "extract", "page", "prepare", "ocr", "limits"} /\ ~h.late => dir[r].original,
         h.at \in {"upload", "lease"} => h.files > 0, h.at = "page" => h.todo > 0,
         \A page \in h.pages : ~page.review => page.text /\ ~page.failed
  PROVE  StepOf(r)
<1>1. TypeOK /\ RequestInv(r) /\ req'[r] = h /\ row'[r] = row[r]
  BY DEF IntakeInv, TypeOK
<1>2. /\ req[r].by \in Procs /\ row[r] = None /\ req[r].answer = None
      /\ ~h.late => Untouched(r) /\ dir[r].exists /\ dir[r].marker = "fresh"
      /\ dir[r].exists /\ dir[r].marker = "none" => r \in torn
  BY <1>1 DEF RequestInv, DirInv, HandlerInv, EndInv, LiveInv, Using
<1>3. dir[r] \in Dir
  BY <1>1 DEF TypeOK, StorageTypeOK
<1>4. /\ dir'[r] = dir[r] \/ dir'[r] = [dir[r] EXCEPT !.marker = "fresh"]
      /\ dir'[r].exists = dir[r].exists /\ dir'[r].original = dir[r].original
      /\ dir'[r].marker = dir[r].marker \/ (dir'[r].marker = "fresh" /\ dir[r].exists)
  <2>1. CASE UNCHANGED <<dir, sweep>>
    BY <2>1
  <2>2. CASE CanRefresh(r) /\ WriteMarker(r)
    <3>1. dir'[r] = [dir[r] EXCEPT !.marker = "fresh"] /\ dir[r].exists
      BY <1>1, <2>2, WriteType
    <3> QED
      BY <1>3, <3>1 DEF Dir
  <2> QED
    BY <2>1, <2>2
<1>5. TypeOK'
  BY <1>1, WriteType DEF TypeOK, StorageTypeOK
<1>6. \A o \in Requests \ {r} : Calm(o)
  <2>1. ASSUME NEW o \in Requests \ {r} PROVE req'[o] = req[o] /\ row'[o] = row[o]
    BY <1>1 DEF TypeOK
  <2>2. CASE UNCHANGED <<dir, sweep>>
    BY <2>1, <2>2 DEF Calm
  <2>3. CASE CanRefresh(r) /\ WriteMarker(r)
    BY <1>1, <2>1, <2>3, WriteIsCalm
  <2> QED
    BY <2>2, <2>3
<1>7. Untouched(r) => Untouched(r)'
  BY <1>1, WriteType DEF Untouched
<1>8. DirInv(r)' /\ EarlyInv(r)'
  BY <1>1, <1>2, <1>4 DEF RequestInv, DirInv, EarlyInv
<1>9. LiveInv(r)'
  BY <1>1, <1>2, <1>4, <1>7 DEF LiveInv, Using, Stored
<1>10. HandlerInv(r)' /\ EndInv(r)'
  BY <1>1, <1>2 DEF HandlerInv, EndInv
<1> QED
  BY <1>5, <1>6, <1>8, <1>9, <1>10 DEF StepOf, RequestInv

\* An error of such a request.
LEMMA FailStep ==
  ASSUME IntakeInv, NEW r \in Requests, Using(r), Fails(r), UNCHANGED <<proc, torn, row>>,
         UNCHANGED <<dir, sweep>> \/ (CanRefresh(r) /\ WriteMarker(r))
  PROVE  StepOf(r)
<1> DEFINE h == [req[r] EXCEPT !.at = "cleanup", !.error = TRUE]
<1>1. TypeOK /\ req[r] \in Handler /\ HandlerInv(r)
  BY DEF IntakeInv, TypeOK, RequestInv
<1>2. h \in Handler
  <2>1. "cleanup" \in Steps
    BY SMTT(30) DEF Steps, Blocking
  <2> QED
    BY <1>1, <2>1, HandlerUpdates, ZenonT(40)
<1>3. /\ h.at = "cleanup" /\ h.by = req[r].by /\ h.late = req[r].late
      /\ h.answer = req[r].answer /\ h.pages = req[r].pages
  BY <1>1 DEF Handler
<1>4. req' = [req EXCEPT ![r] = h]
  BY <1>1 DEF Fails, TypeOK
<1> HIDE DEF h
<1> QED
  BY <1>1, <1>2, <1>3, <1>4, MoveStep DEF HandlerInv

LEMMA UploadStep ==
  ASSUME IntakeInv, NEW r \in Requests, Upload(r)
  PROVE  StepOf(r)
<1>1. /\ TypeOK /\ RequestInv(r) /\ req[r].at = "upload" /\ req[r] \in Handler
      /\ dir[r] \in Dir /\ UNCHANGED <<proc, sweep, torn, row>>
  BY DEF IntakeInv, Upload, Runs, TypeOK, StorageTypeOK
<1>2. CASE ~dir[r].exists
  BY <1>1, <1>2, FailStep DEF Upload, Using
<1>3. CASE dir[r].exists
  <2>1. /\ dir' = [dir EXCEPT ![r].original = TRUE]
        /\ Goto(r, "lease") \/ Fails(r)
    BY <1>3 DEF Upload
  <2>2. /\ dir' \in [Requests -> Dir] /\ \A o \in Requests \ {r} : dir'[o] = dir[o]
        /\ dir'[r].exists /\ dir'[r].original /\ dir'[r].marker = dir[r].marker
    BY <1>1, <1>3, <2>1 DEF TypeOK, StorageTypeOK, Dir
  <2>3. /\ req' \in [Requests -> Handler] /\ req'[r].at \in {"lease", "cleanup"}
        /\ req'[r].by = req[r].by /\ req'[r].late = req[r].late /\ req'[r].files = req[r].files
        /\ req'[r].pages = req[r].pages /\ req'[r].answer = req[r].answer
        /\ \A o \in Requests \ {r} : req'[o] = req[o]
    <3>1. "lease" \in Steps
      BY DEF Steps, Blocking
    <3>2. CASE Goto(r, "lease")
      <4>1. /\ req' \in [Requests -> Handler] /\ req'[r] = [req[r] EXCEPT !.at = "lease"]
            /\ \A o \in Requests \ {r} : req'[o] = req[o]
        BY <1>1, <3>1, <3>2, GotoType
      <4> QED
        BY <1>1, <4>1 DEF Handler
    <3>3. CASE Fails(r)
      <4>1. /\ req' \in [Requests -> Handler]
            /\ req'[r] = [req[r] EXCEPT !.at = "cleanup", !.error = TRUE]
            /\ \A o \in Requests \ {r} : req'[o] = req[o]
        BY <1>1, <3>3, FailsType
      <4> QED
        BY <1>1, <4>1 DEF Handler
    <3> QED
      BY <2>1, <3>2, <3>3
  <2>4. /\ req[r].by \in Procs /\ row[r] = None /\ req[r].answer = None /\ req[r].files > 0
        /\ ~req[r].late => Untouched(r) /\ dir[r].marker = "fresh"
        /\ dir[r].marker = "none" => r \in torn
    BY <1>1, <1>3 DEF RequestInv, DirInv, HandlerInv, EndInv, LiveInv, Using
  <2>5. TypeOK'
    BY <1>1, <2>2, <2>3 DEF TypeOK, StorageTypeOK
  <2>6. \A o \in Requests \ {r} : Calm(o)
    BY <1>1, <2>2, <2>3 DEF Calm
  <2>7. Untouched(r) => Untouched(r)'
    BY <1>1 DEF Untouched
  <2>8. DirInv(r)' /\ EarlyInv(r)' /\ LiveInv(r)'
    BY <1>1, <2>2, <2>3, <2>4, <2>7 DEF DirInv, EarlyInv, LiveInv, Using, Stored
  <2>9. HandlerInv(r)' /\ EndInv(r)'
    BY <1>1, <2>3, <2>4 DEF RequestInv, HandlerInv, EndInv
  <2> QED
    BY <2>5, <2>6, <2>8, <2>9 DEF StepOf, RequestInv
<1> QED
  BY <1>2, <1>3

LEMMA LeaseStep ==
  ASSUME IntakeInv, NEW r \in Requests, Lease(r)
  PROVE  StepOf(r)
<1>1. /\ TypeOK /\ RequestInv(r) /\ req[r].at = "lease" /\ req[r] \in Handler
      /\ Using(r) /\ UNCHANGED <<proc, torn, row>>
  BY DEF IntakeInv, Lease, Runs, TypeOK, Using
<1>2. CASE Fails(r) /\ UNCHANGED <<dir, sweep>>
  BY <1>1, <1>2, FailStep
<1>3. CASE /\ CanRefresh(r) /\ WriteMarker(r)
           /\ req' = [req EXCEPT ![r].files = @ - 1,
                              ![r].at = IF req[r].files > 1 THEN "upload"
                                        ELSE IF req[r].kind = "pdf" THEN "extract" ELSE "prepare"]
  <2> DEFINE at == IF req[r].files > 1 THEN "upload"
                   ELSE IF req[r].kind = "pdf" THEN "extract" ELSE "prepare"
             files == req[r].files - 1
             h == [req[r] EXCEPT !.files = files, !.at = at]
  <2>1. /\ req[r].files \in 1 .. MaxPages
        /\ \A page \in req[r].pages : ~page.review => page.text /\ ~page.failed
        /\ ~req[r].late => dir[r].original
    BY <1>1 DEF RequestInv, HandlerInv, LiveInv, Stored, Handler
  <2>2. files \in 0 .. MaxPages /\ at \in Steps /\ at \in {"upload", "extract", "prepare"}
        /\ (at = "upload" => files > 0)
    BY <2>1 DEF Steps, Blocking
  <2>3. req' = [req EXCEPT ![r] = h]
    BY <1>1, <1>3 DEF TypeOK
  <2> HIDE DEF at, files
  <2>4. /\ h \in Handler /\ h.at = at /\ h.files = files /\ h.pages = req[r].pages
        /\ h.by = req[r].by /\ h.late = req[r].late /\ h.answer = req[r].answer
    BY <1>1, <2>2 DEF Handler
  <2> HIDE DEF h
  <2> QED
    BY <1>1, <1>3, <2>1, <2>2, <2>3, <2>4, MoveStep
<1> QED
  BY <1>2, <1>3 DEF Lease

LEMMA ExtractStep ==
  ASSUME IntakeInv, NEW r \in Requests, ExtractText(r)
  PROVE  StepOf(r)
<1>1. /\ TypeOK /\ RequestInv(r) /\ req[r].at = "extract" /\ req[r] \in Handler
      /\ Using(r) /\ UNCHANGED <<dir, proc, sweep, torn, row>>
  BY DEF IntakeInv, ExtractText, Runs, TypeOK, Using
<1>2. CASE Fails(r)
  BY <1>1, <1>2, FailStep
<1>3. ASSUME dir[r].original, NEW count \in 1 .. MaxPages,
             req' = [req EXCEPT ![r].at = "page", ![r].todo = count]
      PROVE  StepOf(r)
  <2> DEFINE h == [req[r] EXCEPT !.at = "page", !.todo = count]
  <2>1. \A page \in req[r].pages : ~page.review => page.text /\ ~page.failed
    BY <1>1 DEF RequestInv, HandlerInv
  <2>2. "page" \in Steps /\ count \in 0 .. MaxPages /\ count > 0
    BY DEF Steps, Blocking
  <2>3. /\ h \in Handler /\ h.at = "page" /\ h.todo = count /\ h.pages = req[r].pages
        /\ h.by = req[r].by /\ h.late = req[r].late /\ h.answer = req[r].answer
    BY <1>1, <2>2 DEF Handler
  <2>4. req' = [req EXCEPT ![r] = h]
    BY <1>1, <1>3 DEF TypeOK
  <2> HIDE DEF h
  <2> QED
    BY <1>1, <1>3, <2>1, <2>2, <2>3, <2>4, MoveStep
<1> QED
  BY <1>2, <1>3 DEF ExtractText

\* What a page becomes is a page, and is exempt from review for a good reason.
LEMMA OutcomesAreSound ==
  ASSUME NEW class \in Classes, NEW page \in PageOutcomes(class)
  PROVE  page \in Page /\ (~page.review => page.text /\ ~page.failed)
<1>1. CASE page = [review |-> FALSE, failed |-> FALSE, text |-> TRUE, method |-> "direct"]
  BY <1>1 DEF Page
<1>2. CASE page = [review |-> TRUE, failed |-> FALSE, text |-> TRUE, method |-> "ocr"]
  BY <1>2 DEF Page
<1>3. CASE page = [review |-> TRUE, failed |-> TRUE, text |-> (class = "ocr_required"), method |-> "direct"]
  <2>1. (class = "ocr_required") \in BOOLEAN
    OBVIOUS
  <2> QED
    BY <1>3, <2>1 DEF Page
<1> QED
  BY <1>1, <1>2, <1>3 DEF PageOutcomes

\* A page was processed, with or without a renewal of the lease.
LEMMA ProcessedStep ==
  ASSUME IntakeInv, NEW r \in Requests, req[r].at = "page", UNCHANGED <<proc, torn, row>>,
         UNCHANGED <<dir, sweep>> \/ (CanRefresh(r) /\ WriteMarker(r)),
         NEW page \in Page, ~page.review => page.text /\ ~page.failed, Processed(r, page)
  PROVE  StepOf(r)
<1>1. TypeOK /\ RequestInv(r) /\ req[r] \in Handler /\ Using(r)
  BY DEF IntakeInv, TypeOK, Using
<1> DEFINE at == IF req[r].todo = 1 THEN "limits" ELSE "page"
           todo == req[r].todo - 1
           pages == req[r].pages \cup {page}
           h == [req[r] EXCEPT !.pages = pages, !.todo = todo, !.at = at]
<1>2. req[r].todo \in 1 .. MaxPages /\ (~req[r].late => dir[r].original)
  BY <1>1 DEF RequestInv, HandlerInv, LiveInv, Stored, Handler
<1>3. /\ todo \in 0 .. MaxPages /\ at \in Steps /\ at \in {"limits", "page"}
      /\ at = "page" => todo > 0
  BY <1>2 DEF Steps, Blocking
<1>4. pages \in SUBSET Page /\ \A other \in pages : ~other.review => other.text /\ ~other.failed
  BY <1>1 DEF RequestInv, HandlerInv, Handler
<1>5. req' = [req EXCEPT ![r] = h]
  BY <1>1 DEF TypeOK, Processed
<1> HIDE DEF at, todo, pages
<1>6. /\ h \in Handler /\ h.at = at /\ h.todo = todo /\ h.pages = pages
      /\ h.by = req[r].by /\ h.late = req[r].late /\ h.answer = req[r].answer
  BY <1>1, <1>3, <1>4 DEF Handler
<1> HIDE DEF h
<1> QED
  BY <1>1, <1>2, <1>3, <1>4, <1>5, <1>6, MoveStep

LEMMA PageStep ==
  ASSUME IntakeInv, NEW r \in Requests, ProcessPage(r)
  PROVE  StepOf(r)
<1>1. req[r].at = "page" /\ Using(r) /\ UNCHANGED <<proc, torn, row>>
  BY DEF ProcessPage, Runs, Using
<1>2. CASE Fails(r) /\ UNCHANGED <<dir, sweep>>
  BY <1>1, <1>2, FailStep
<1>3. ASSUME NEW class \in Classes, NEW page \in PageOutcomes(class), Processed(r, page),
             UNCHANGED <<dir, sweep>> \/ (CanRefresh(r) /\ WriteMarker(r))
      PROVE  StepOf(r)
  BY <1>1, <1>3, OutcomesAreSound, ProcessedStep
<1> QED
  BY <1>2, <1>3 DEF ProcessPage, Classes

LEMMA LimitsStep ==
  ASSUME IntakeInv, NEW r \in Requests, CheckLimits(r) \/ PrepareImages(r)
  PROVE  StepOf(r)
<1>1. /\ TypeOK /\ RequestInv(r) /\ req[r].at \in {"limits", "prepare"} /\ req[r] \in Handler
      /\ Using(r) /\ UNCHANGED <<dir, proc, sweep, torn, row>>
  BY DEF IntakeInv, CheckLimits, PrepareImages, Runs, TypeOK, Using
<1>2. CASE Fails(r)
  BY <1>1, <1>2, FailStep
<1>3. ASSUME NEW at \in {"cleanup", "ocr"}, Goto(r, at), at = "ocr" => dir[r].original
      PROVE  StepOf(r)
  <2> DEFINE h == [req[r] EXCEPT !.at = at]
  <2>1. \A page \in req[r].pages : ~page.review => page.text /\ ~page.failed
    BY <1>1 DEF RequestInv, HandlerInv
  <2>2. at \in Steps
    BY DEF Steps, Blocking
  <2>3. /\ h \in Handler /\ h.at = at /\ h.pages = req[r].pages
        /\ h.by = req[r].by /\ h.late = req[r].late /\ h.answer = req[r].answer
    BY <1>1, <2>2 DEF Handler
  <2>4. req' = [req EXCEPT ![r] = h]
    BY <1>1, <1>3 DEF TypeOK, Goto
  <2> HIDE DEF h
  <2> QED
    BY <1>1, <1>3, <2>1, <2>2, <2>3, <2>4, MoveStep
<1> QED
  BY <1>2, <1>3 DEF CheckLimits, PrepareImages

LEMMA ImagesStep ==
  ASSUME IntakeInv, NEW r \in Requests, ExtractImages(r)
  PROVE  StepOf(r)
<1>1. /\ TypeOK /\ RequestInv(r) /\ req[r].at = "ocr" /\ req[r] \in Handler
      /\ Using(r) /\ UNCHANGED <<proc, torn, row>>
  BY DEF IntakeInv, ExtractImages, Runs, TypeOK, Using
<1>2. CASE Fails(r)
  BY <1>1, <1>2, FailStep DEF ExtractImages
<1>3. CASE /\ CanRefresh(r) /\ WriteMarker(r)
           /\ req' = [req EXCEPT ![r].at = "cleanup",
                              ![r].pages = {ImagePage}]
  <2> DEFINE h == [req[r] EXCEPT !.at = "cleanup", !.pages = {ImagePage}]
  <2>1. ImagePage \in Page /\ ImagePage.review
    BY DEF ImagePage, Page
  <2>2. "cleanup" \in Steps /\ {ImagePage} \in SUBSET Page
    BY <2>1 DEF Steps, Blocking
  <2>3. /\ h \in Handler /\ h.at = "cleanup" /\ h.pages = {ImagePage}
        /\ h.by = req[r].by /\ h.late = req[r].late /\ h.answer = req[r].answer
    BY <1>1, <2>2 DEF Handler
  <2>4. req' = [req EXCEPT ![r] = h]
    BY <1>1, <1>3 DEF TypeOK
  <2> HIDE DEF h
  <2> QED
    BY <1>1, <1>3, <2>1, <2>2, <2>3, <2>4, MoveStep
<1> QED
  BY <1>2, <1>3 DEF ExtractImages

\* An exception that nobody handles leaves what is stored, and its marker.
LEMMA EscapesStep ==
  ASSUME IntakeInv, NEW r \in Requests, Escapes(r)
  PROVE  StepOf(r)
<1>1. /\ TypeOK /\ RequestInv(r) /\ Using(r) /\ dir[r] \in Dir
      /\ UNCHANGED <<proc, sweep, torn, row>> /\ Answer(r, "unhandled")
  BY DEF IntakeInv, Escapes, TypeOK, StorageTypeOK
<1>2. /\ row[r] = None
      /\ ~dir[r].exists => dir[r].marker = "none" /\ ~dir[r].original
      /\ dir[r].exists /\ dir[r].marker = "none" => r \in torn
  BY <1>1 DEF RequestInv, DirInv, EndInv, Using
<1>3. /\ req' \in [Requests -> Handler] /\ req'[r].at = "end" /\ req'[r].pages = {}
      /\ req'[r].answer = "unhandled" /\ \A o \in Requests \ {r} : req'[o] = req[o]
  <2>1. "unhandled" \in Answers
    BY DEF Answers
  <2> QED
    BY <1>1, <2>1, AnswerType
<1>4. /\ dir' \in [Requests -> Dir] /\ \A o \in Requests \ {r} : dir'[o] = dir[o]
      /\ dir'[r].exists = dir[r].exists /\ dir'[r].marker = dir[r].marker
      /\ dir'[r].original => dir[r].original \/ dir[r].exists
  <2>1. CASE UNCHANGED dir
    BY <1>1, <2>1 DEF TypeOK, StorageTypeOK
  <2>2. CASE dir[r].exists /\ dir' = [dir EXCEPT ![r].original = TRUE]
    BY <1>1, <2>2 DEF TypeOK, StorageTypeOK, Dir
  <2> QED
    BY <2>1, <2>2 DEF Escapes
<1>5. TypeOK'
  BY <1>1, <1>3, <1>4 DEF TypeOK, StorageTypeOK
<1>6. \A o \in Requests \ {r} : Calm(o)
  BY <1>1, <1>3, <1>4 DEF Calm
<1>7. DirInv(r)' /\ EarlyInv(r)' /\ LiveInv(r)'
  BY <1>1, <1>2, <1>3, <1>4 DEF DirInv, EarlyInv, LiveInv, Using, Stored
<1>8. HandlerInv(r)' /\ EndInv(r)'
  BY <1>1, <1>2, <1>3 DEF HandlerInv, EndInv
<1> QED
  BY <1>5, <1>6, <1>7, <1>8 DEF StepOf, RequestInv

\* A handler removes its own directory; sweeps of other processes may have been faster.
LEMMA CleanupStep ==
  ASSUME IntakeInv, NEW r \in Requests, Cleanup(r)
  PROVE  StepOf(r)
<1>1. /\ TypeOK /\ RequestInv(r) /\ req[r].at = "cleanup" /\ req[r] \in Handler
      /\ dir[r] \in Dir /\ UNCHANGED <<proc, sweep, row>>
      /\ CleanupRemoves(r) \/ CleanupFails(r) \/ CleanupRefused(r)
  BY DEF IntakeInv, Cleanup, Runs, TypeOK, StorageTypeOK
<1>2. /\ row[r] = None /\ req[r].answer = None /\ req[r].by \in Procs
      /\ \A page \in req[r].pages : ~page.review => page.text /\ ~page.failed
  BY <1>1 DEF RequestInv, EndInv, HandlerInv
<1>3. /\ dir'[r] \in Dir /\ (~dir'[r].exists => dir'[r].marker = "none" /\ ~dir'[r].original)
      /\ CleanupRemoves(r) => ~dir'[r].exists /\ ~dir'[r].original
      /\ dir'[r].exists => r \in torn'
  <2>1. Absent \in Dir /\ ~Absent.exists /\ ~Absent.original /\ Absent.marker = "none"
    BY DEF Absent, Dir, Markers
  <2>2. CASE CleanupRemoves(r)
    BY <1>1, <2>1, <2>2, RemoveType
  <2>3. CASE CleanupFails(r) /\ ~CleanupRemoves(r)
    <3>1. dir'[r] \in Remnants(dir[r]) /\ r \in torn'
      BY <1>1, <2>3, RemoveType
    <3>2. dir'[r] \in Dir /\ dir'[r].exists
      BY <1>1, <3>1, RemnantsShape
    <3> QED
      BY <2>3, <3>1, <3>2
  <2>4. CASE CleanupRefused(r)
    <3>1. dir'[r] = dir[r] /\ ~dir[r].exists
      BY <1>1, <2>4, RemoveType
    <3>2. ~CleanupRemoves(r)
      BY <1>1, <3>1, RemoveType
    <3> QED
      BY <1>1, <3>1, <3>2 DEF RequestInv, DirInv
  <2> QED
    BY <1>1, <2>2, <2>3, <2>4
<1>4. \A o \in Requests \ {r} : dir'[o] = dir[o] /\ (o \in torn => o \in torn')
  BY <1>1, RemoveType
<1>5. CASE CleanupRemoves(r) /\ Goto(r, "insert")
  <2>1. "insert" \in Steps
    BY DEF Steps, Blocking
  <2>2. /\ req' \in [Requests -> Handler] /\ req'[r] = [req[r] EXCEPT !.at = "insert"]
        /\ \A o \in Requests \ {r} : req'[o] = req[o]
    BY <1>1, <1>5, <2>1, GotoType
  <2>3. /\ req'[r].at = "insert" /\ req'[r].by = req[r].by
        /\ req'[r].pages = req[r].pages /\ req'[r].answer = req[r].answer
    BY <1>1, <2>2 DEF Handler
  <2>4. TypeOK'
    BY <1>1, <2>2, RemoveType DEF TypeOK, StorageTypeOK
  <2>5. \A o \in Requests \ {r} : Calm(o)
    BY <1>1, <1>4, <2>2 DEF Calm
  <2>6. DirInv(r)' /\ EarlyInv(r)' /\ LiveInv(r)'
    BY <1>3, <1>5, <2>3 DEF DirInv, EarlyInv, LiveInv, Using, Stored
  <2>7. HandlerInv(r)' /\ EndInv(r)'
    BY <1>1, <1>2, <1>3, <1>5, <2>3 DEF HandlerInv, EndInv
  <2> QED
    BY <2>4, <2>5, <2>6, <2>7 DEF StepOf, RequestInv
<1>6. CASE \/ CleanupRemoves(r) /\ Answer(r, "error")
           \/ Answer(r, "cleanup_failed")
  <2>1. /\ req' \in [Requests -> Handler]
        /\ req'[r].at = "end" /\ req'[r].pages = {}
        /\ req'[r].answer \in {"error", "cleanup_failed"}
        /\ req'[r].answer = "error" => CleanupRemoves(r)
        /\ \A o \in Requests \ {r} : req'[o] = req[o]
    BY <1>1, <1>6, AnswerType
  <2>2. TypeOK'
    BY <1>1, <2>1, RemoveType DEF TypeOK, StorageTypeOK
  <2>3. \A o \in Requests \ {r} : Calm(o)
    BY <1>1, <1>4, <2>1 DEF Calm
  <2>4. DirInv(r)' /\ EarlyInv(r)' /\ LiveInv(r)'
    BY <1>3, <2>1 DEF DirInv, EarlyInv, LiveInv, Using, Stored
  <2>5. HandlerInv(r)' /\ EndInv(r)'
    BY <1>1, <1>2, <1>3, <2>1 DEF HandlerInv, EndInv
  <2> QED
    BY <2>2, <2>3, <2>4, <2>5 DEF StepOf, RequestInv
<1> QED
  BY <1>5, <1>6 DEF Cleanup

\* The rows come last.
LEMMA InsertStep ==
  ASSUME IntakeInv, NEW r \in Requests, Insert(r)
  PROVE  StepOf(r)
<1>1. /\ TypeOK /\ RequestInv(r) /\ req[r].at = "insert" /\ req[r] \in Handler
      /\ dir[r] \in Dir /\ UNCHANGED <<dir, proc, sweep, torn>>
  BY DEF IntakeInv, Insert, Runs, TypeOK, StorageTypeOK
<1>2. /\ row[r] = None /\ ~dir[r].exists /\ ~dir[r].original /\ dir[r].marker = "none"
      /\ req[r].pages \in SUBSET Page
      /\ \A page \in req[r].pages : ~page.review => page.text /\ ~page.failed
  BY <1>1 DEF RequestInv, DirInv, EndInv, HandlerInv, Handler
<1>3. /\ req' \in [Requests -> Handler]
      /\ req'[r].at = "end" /\ req'[r].pages = {} /\ req'[r].answer \in {"created", "error"}
      /\ \A o \in Requests \ {r} : req'[o] = req[o]
  BY <1>1, AnswerType DEF Insert
<1>4. Extraction(req[r].pages) \in Row
  <2> DEFINE review == \E page \in req[r].pages : page.review
             failed == \E page \in req[r].pages : page.failed
  <2>1. review \in BOOLEAN /\ failed \in BOOLEAN
    OBVIOUS
  <2>2. Extraction(req[r].pages) =
          [pages |-> req[r].pages, review |-> review, blocked |-> review \/ failed,
           canConfirm |-> ~failed /\ ~review]
    BY DEF Extraction
  <2> HIDE DEF review, failed
  <2>3. (review \/ failed) \in BOOLEAN /\ (~failed /\ ~review) \in BOOLEAN
    BY <2>1
  <2> QED
    BY <1>2, <2>1, <2>2, <2>3 DEF Row
<1>5. /\ row' \in [Requests -> Row \cup {None}]
      /\ row'[r] = None \/ row'[r] = Extraction(req[r].pages)
      /\ \A o \in Requests \ {r} : row'[o] = row[o]
  BY <1>1, <1>2, <1>4 DEF Insert, TypeOK
<1>6. TypeOK'
  BY <1>1, <1>3, <1>5 DEF TypeOK, StorageTypeOK
<1>7. \A o \in Requests \ {r} : Calm(o)
  BY <1>1, <1>3, <1>5 DEF Calm
<1>8. DirInv(r)' /\ EarlyInv(r)' /\ LiveInv(r)'
  BY <1>1, <1>2, <1>3 DEF DirInv, EarlyInv, LiveInv, Using, Stored
<1>9. HandlerInv(r)'
  BY <1>3 DEF HandlerInv
<1>10. EndInv(r)'
  BY <1>1, <1>2, <1>3, <1>5 DEF EndInv
<1> QED
  BY <1>6, <1>7, <1>8, <1>9, <1>10 DEF StepOf, RequestInv

\* A lease that runs out while the handler is busy is no longer of interest.
LEMMA ExpireStep ==
  ASSUME IntakeInv, NEW r \in Requests, Expire(r)
  PROVE  StepOf(r)
<1>1. /\ TypeOK /\ RequestInv(r) /\ req[r] \in Handler /\ dir[r] \in Dir
      /\ dir[r].marker = "fresh" /\ UNCHANGED <<proc, sweep, torn, row>>
  BY DEF IntakeInv, Expire, ExpireLease, TypeOK, StorageTypeOK
<1>2. /\ dir' \in [Requests -> Dir] /\ dir'[r].exists = dir[r].exists
      /\ dir'[r].marker = "expired" /\ dir'[r].original = dir[r].original
      /\ \A o \in Requests \ {r} : dir'[o] = dir[o]
  BY <1>1 DEF Expire, ExpireLease, TypeOK, StorageTypeOK, Dir, Markers
<1> DEFINE late == req[r].by # None
           h == [req[r] EXCEPT !.late = late]
<1>3. late \in BOOLEAN /\ req' = [req EXCEPT ![r] = h]
  BY <1>1 DEF Expire, TypeOK
<1> HIDE DEF late
<1>4. /\ h \in Handler /\ h.at = req[r].at /\ h.by = req[r].by /\ h.files = req[r].files
      /\ h.todo = req[r].todo /\ h.pages = req[r].pages /\ h.answer = req[r].answer
      /\ h.late = late
  BY <1>1, <1>3 DEF Handler
<1> HIDE DEF h
<1>5. /\ req' \in [Requests -> Handler] /\ req'[r] = h
      /\ \A o \in Requests \ {r} : req'[o] = req[o]
  BY <1>1, <1>3, <1>4 DEF TypeOK
<1>6. TypeOK'
  BY <1>1, <1>2, <1>5 DEF TypeOK, StorageTypeOK
<1>7. \A o \in Requests \ {r} : Calm(o)
  BY <1>1, <1>2, <1>5 DEF Calm
<1>8. /\ req[r].at \notin {"new", "mark"} /\ dir[r].exists
      /\ Using(r) => late
  BY <1>1 DEF RequestInv, DirInv, EarlyInv, HandlerInv, Using, late
<1>9. DirInv(r)' /\ EarlyInv(r)' /\ LiveInv(r)'
  BY <1>1, <1>2, <1>4, <1>5, <1>8 DEF DirInv, EarlyInv, LiveInv, Using, Stored
<1>10. HandlerInv(r)' /\ EndInv(r)'
  BY <1>1, <1>2, <1>4, <1>5 DEF RequestInv, HandlerInv, EndInv
<1> QED
  BY <1>6, <1>7, <1>9, <1>10 DEF StepOf, RequestInv

-----------------------------------------------------------------------------
(* The steps of a sweep.                                                   *)

\* A sweep may take an interest in a directory whose lease is expired, and in
\* no other.
LEMMA SweepKeeps ==
  ASSUME NEW r \in Requests, RequestInv(r),
         dir'[r] = dir[r], req'[r] = req[r], row'[r] = row[r], r \in torn => r \in torn',
         Untouched(r) /\ dir[r].marker # "expired" => Untouched(r)'
  PROVE  RequestInv(r)'
<1>1. DirInv(r)' /\ HandlerInv(r)' /\ EndInv(r)'
  BY DEF RequestInv, DirInv, HandlerInv, EndInv
<1>2. EarlyInv(r)' /\ LiveInv(r)'
  BY DEF RequestInv, EarlyInv, LiveInv, Using, Stored
<1> QED
  BY <1>1, <1>2 DEF RequestInv

\* What a removal of the directory of r by a sweep leaves of the invariant.
LEMMA RemovalKeeps ==
  ASSUME TypeOK, NEW r \in Requests, RequestInv(r), ~Untouched(r),
         CleanupRemoves(r) \/ CleanupFails(r) \/ CleanupRefused(r),
         req'[r] = req[r], row'[r] = row[r]
  PROVE  RequestInv(r)'
<1>1. /\ dir[r] \in Dir /\ req[r].at \notin {"new", "mark"} /\ (Using(r) => req[r].late)
  BY DEF TypeOK, StorageTypeOK, RequestInv, EarlyInv, LiveInv
<1>2. /\ ~dir'[r].exists => dir'[r].marker = "none" /\ ~dir'[r].original
      /\ dir'[r].exists => dir[r].exists
      /\ dir'[r].original => dir[r].original
      /\ dir'[r].exists => r \in torn'
  <2>1. ~Absent.exists /\ ~Absent.original /\ Absent.marker = "none"
    BY DEF Absent
  <2>2. CASE CleanupRemoves(r)
    BY <2>1, <2>2, RemoveType
  <2>3. CASE CleanupFails(r)
    <3>1. dir'[r] \in Remnants(dir[r]) /\ r \in torn' /\ dir[r].exists
      BY <2>3, RemoveType
    <3> QED
      BY <1>1, <3>1, RemnantsShape
  <2>4. CASE CleanupRefused(r)
    <3>1. dir'[r] = dir[r] /\ ~dir[r].exists
      BY <2>4, RemoveType
    <3> QED
      BY <3>1 DEF RequestInv, DirInv
  <2> QED
    BY <2>2, <2>3, <2>4
<1>3. DirInv(r)' /\ EarlyInv(r)' /\ LiveInv(r)'
  BY <1>1, <1>2 DEF DirInv, EarlyInv, LiveInv, Using, Stored
<1>4. HandlerInv(r)' /\ EndInv(r)'
  BY <1>2 DEF RequestInv, HandlerInv, EndInv
<1> QED
  BY <1>3, <1>4 DEF RequestInv

\* What a sweep remembers has the right shape.
LEMMA SweepTypes ==
  ASSUME NEW s \in Sweep
  PROVE  /\ NoSweep \in Sweep /\ Done(s) \in Sweep
         /\ Done(s).stale = s.stale /\ Done(s).target = None
         /\ s.target # None =>
              /\ GivenUp(s) \in Sweep /\ GivenUp(s).stale = s.stale /\ GivenUp(s).target = None
              /\ AfterFailure(s) \in Sweep /\ AfterFailure(s).stale = s.stale
              /\ AfterFailure(s).target \in {s.target, None}
<1>0. 0 \in 0 .. MaxTries - 1
  OBVIOUS
<1>1. NoSweep \in Sweep
  BY <1>0 DEF NoSweep, Sweep
<1>2. Done(s) \in Sweep /\ Done(s).stale = s.stale /\ Done(s).target = None
  BY <1>0 DEF Done, Sweep
<1>3. ASSUME s.target # None
      PROVE  /\ GivenUp(s) \in Sweep /\ GivenUp(s).stale = s.stale /\ GivenUp(s).target = None
             /\ AfterFailure(s) \in Sweep /\ AfterFailure(s).stale = s.stale
             /\ AfterFailure(s).target \in {s.target, None}
  <2>1. s.target \in Requests
    BY <1>3 DEF Sweep
  <2>2. GivenUp(s) \in Sweep /\ GivenUp(s).stale = s.stale /\ GivenUp(s).target = None
    BY <1>2, <2>1 DEF GivenUp, Sweep
  <2>3. CASE s.tries + 1 < MaxTries
    <3>1. AfterFailure(s) = [s EXCEPT !.tries = @ + 1]
      BY <2>3 DEF AfterFailure
    <3>2. s.tries + 1 \in 0 .. MaxTries - 1
      BY <2>3 DEF Sweep
    <3> QED
      BY <2>2, <3>1, <3>2 DEF Sweep
  <2>4. CASE ~(s.tries + 1 < MaxTries)
    BY <2>2, <2>4 DEF AfterFailure
  <2> QED
    BY <2>2, <2>3, <2>4
<1> QED
  BY <1>1, <1>2, <1>3

\* A step that only changes what p remembers, and whether it serves.
LEMMA MemoryStep ==
  ASSUME IntakeInv, NEW p \in Procs, NEW s \in Sweep, sweep' = [sweep EXCEPT ![p] = s],
         NEW state \in {"down", "sweeping", "serving"}, proc' = [proc EXCEPT ![p] = state],
         UNCHANGED <<dir, torn, req, row>>,
         \A r \in s.stale : r \in sweep[p].stale \/ dir[r].marker = "expired",
         s.target # None => s.target = sweep[p].target \/ s.target \in sweep[p].stale
  PROVE  IntakeInv'
<1>1. TypeOK'
  BY DEF IntakeInv, TypeOK, StorageTypeOK
<1>2. ASSUME NEW r \in Requests
      PROVE  RequestInv(r)'
  <2>1. r # None
    OBVIOUS
  <2>2. Untouched(r) /\ dir[r].marker # "expired" => Untouched(r)'
    BY <2>1 DEF IntakeInv, TypeOK, StorageTypeOK, Untouched
  <2> QED
    BY <2>2, SweepKeeps DEF IntakeInv
<1> QED
  BY <1>1, <1>2 DEF IntakeInv

\* Removal of the target of a sweep.
LEMMA SweepRemoveStep ==
  ASSUME IntakeInv, NEW p \in Procs, SweepRemove(p), UNCHANGED <<req, row>>
  PROVE  IntakeInv'
<1>0. PICK t \in Requests : t = sweep[p].target
  BY DEF IntakeInv, TypeOK, StorageTypeOK, SweepRemove, Sweep
<1>1. /\ TypeOK /\ sweep[p] \in Sweep /\ t # None
      /\ CleanupRemoves(t) \/ CleanupFails(t) \/ CleanupRefused(t)
  BY <1>0 DEF IntakeInv, TypeOK, StorageTypeOK, SweepRemove
<1>2. PICK s \in {Done(sweep[p]), AfterFailure(sweep[p]), GivenUp(sweep[p])} :
        sweep' = [sweep EXCEPT ![p] = s]
  BY <1>0, <1>1 DEF SweepRemove, IntakeInv, TypeOK, StorageTypeOK
<1>3. s \in Sweep /\ s.stale = sweep[p].stale /\ s.target \in {t, None}
  BY <1>0, <1>1, <1>2, SweepTypes
<1>4. ~Untouched(t) /\ RequestInv(t)
  BY <1>0 DEF Untouched, IntakeInv
<1>5. UNCHANGED proc
  BY DEF SweepRemove
<1>6. TypeOK'
  BY <1>1, <1>2, <1>3, <1>5, RemoveType DEF TypeOK, StorageTypeOK
<1>7. RequestInv(t)'
  <2>1. req'[t] = req[t] /\ row'[t] = row[t]
    OBVIOUS
  <2> QED
    BY <1>1, <1>4, <2>1, RemovalKeeps
<1>8. ASSUME NEW o \in Requests \ {t}
      PROVE  RequestInv(o)'
  <2>1. dir'[o] = dir[o] /\ (o \in torn => o \in torn') /\ o # None
    BY <1>1, RemoveType
  <2>2. Untouched(o) => Untouched(o)'
    BY <1>0, <1>1, <1>2, <1>3, <2>1 DEF Untouched, TypeOK, StorageTypeOK
  <2> QED
    BY <2>1, <2>2, SweepKeeps DEF IntakeInv
<1> QED
  BY <1>6, <1>7, <1>8 DEF IntakeInv

LEMMA SweepInv ==
  ASSUME IntakeInv, NEW p \in Procs, SweepStep(p), UNCHANGED <<req, row>>
  PROVE  IntakeInv'
<1>1. /\ TypeOK /\ sweep[p] \in Sweep /\ sweep \in [Procs -> Sweep]
      /\ proc[p] \in {"down", "sweeping", "serving"}
      /\ proc \in [Procs -> {"down", "sweeping", "serving"}]
      /\ NoSweep \in Sweep /\ NoSweep.stale = {} /\ NoSweep.target = None
  BY SweepTypes DEF IntakeInv, TypeOK, StorageTypeOK, NoSweep
<1>2. CASE SweepStart(p)
  <2> DEFINE stale == {r \in Requests : dir[r].marker = "expired"}
             todo == {r \in Requests : dir[r].exists}
             s == [NoSweep EXCEPT !.stale = stale, !.todo = todo]
  <2>1. stale \in SUBSET Requests /\ todo \in SUBSET Requests
    OBVIOUS
  <2>2. \A r \in stale : dir[r].marker = "expired"
    OBVIOUS
  <2>3. sweep' = [sweep EXCEPT ![p] = s] /\ proc' = [proc EXCEPT ![p] = "sweeping"]
        /\ UNCHANGED <<dir, torn, req, row>>
    BY <1>2 DEF SweepStart
  <2> HIDE DEF stale, todo
  <2>4. s \in Sweep /\ s.stale = stale /\ s.target = None
    BY <1>1, <2>1 DEF Sweep
  <2> HIDE DEF s
  <2> QED
    BY <2>2, <2>3, <2>4, MemoryStep
<1>3. ASSUME NEW r \in Requests, SweepSkip(p, r) \/ SweepTake(p, r)
      PROVE  IntakeInv'
  <2>1. PICK s \in Sweep : /\ sweep' = [sweep EXCEPT ![p] = s]
                           /\ s.stale = sweep[p].stale
                           /\ s.target \in {None} \/ s.target \in sweep[p].stale
    <3>1. CASE SweepSkip(p, r)
      <4> DEFINE reported == IF CanRefresh(r) THEN sweep[p].reported ELSE sweep[p].reported \cup {r}
                 s == [sweep[p] EXCEPT !.todo = @ \ {r}, !.reported = reported]
      <4>1. reported \in SUBSET Requests /\ sweep[p].target = None
        BY <1>1, <3>1 DEF SweepSkip, Sweep
      <4>2. sweep' = [sweep EXCEPT ![p] = s]
        BY <1>1, <3>1 DEF SweepSkip
      <4> HIDE DEF reported
      <4>3. s \in Sweep /\ s.stale = sweep[p].stale /\ s.target = None
        BY <1>1, <4>1 DEF Sweep
      <4> QED
        BY <4>2, <4>3
    <3>2. CASE SweepTake(p, r)
      <4> DEFINE s == [sweep[p] EXCEPT !.todo = @ \ {r}, !.target = r]
      <4>1. sweep' = [sweep EXCEPT ![p] = s] /\ r \in sweep[p].stale
        BY <1>1, <3>2 DEF SweepTake, Eligible
      <4>2. s \in Sweep /\ s.stale = sweep[p].stale /\ s.target = r
        BY <1>1 DEF Sweep
      <4> QED
        BY <4>1, <4>2
    <3> QED
      BY <1>3, <3>1, <3>2
  <2>2. UNCHANGED <<dir, proc, torn>>
    BY <1>3 DEF SweepSkip, SweepTake
  <2>3. proc' = [proc EXCEPT ![p] = proc[p]]
    BY <1>1, <2>2
  <2> QED
    BY <1>1, <2>1, <2>2, <2>3, MemoryStep
<1>4. CASE SweepRemove(p)
  BY <1>4, SweepRemoveStep
<1>5. CASE SweepEnd(p)
  BY <1>1, <1>5, MemoryStep DEF SweepEnd
<1> QED
  BY <1>2, <1>3, <1>4, <1>5 DEF SweepStep

-----------------------------------------------------------------------------
(* A process dies.                                                         *)

LEMMA CrashInv ==
  ASSUME IntakeInv, NEW p \in Procs, Crash(p)
  PROVE  IntakeInv'
<1> DEFINE removing == {r \in Requests : \/ r = sweep[p].target
                                         \/ req[r].by = p /\ req[r].at \in {"mark", "cleanup"}}
           gone == [NewHandler EXCEPT !.at = "end", !.answer = "lost"]
<1>1. /\ TypeOK /\ StorageCrash(p, removing) /\ UNCHANGED row
      /\ req' = [r \in Requests |-> IF req[r].by = p THEN gone ELSE req[r]]
  BY DEF IntakeInv, Crash
<1>2. PICK part \in SUBSET removing :
        /\ torn' = torn \cup {r \in part : dir[r].exists}
        /\ \E left \in [part -> Dir] :
             /\ \A r \in part : left[r] \in IF dir[r].exists THEN Remnants(dir[r]) \cup {Absent}
                                                              ELSE {Absent}
             /\ dir' = [r \in Requests |-> IF r \in part THEN left[r] ELSE dir[r]]
  BY <1>1 DEF StorageCrash
<1>3. PICK left \in [part -> Dir] :
        /\ \A r \in part : left[r] \in IF dir[r].exists THEN Remnants(dir[r]) \cup {Absent}
                                                         ELSE {Absent}
        /\ dir' = [r \in Requests |-> IF r \in part THEN left[r] ELSE dir[r]]
  BY <1>2
<1>4. /\ gone \in Handler /\ gone.at = "end" /\ gone.pages = {} /\ gone.answer = "lost"
  <2>1. gone \in Handler
    BY HandlerUpdates, StepNames
  <2> QED
    BY <2>1, SMTT(30) DEF NewHandler
<1> HIDE DEF gone
<1>5. /\ dir' \in [Requests -> Dir] /\ req' \in [Requests -> Handler] /\ torn' \subseteq Requests
  BY <1>1, <1>2, <1>3, <1>4 DEF TypeOK, StorageTypeOK
<1>6. /\ proc' = [proc EXCEPT ![p] = "down"] /\ sweep' = [sweep EXCEPT ![p] = NoSweep]
      /\ NoSweep \in Sweep /\ NoSweep.stale = {} /\ NoSweep.target = None
  <2>1. sweep[p] \in Sweep
    BY <1>1 DEF TypeOK, StorageTypeOK
  <2> QED
    BY <1>1, <2>1, SweepTypes DEF StorageCrash, NoSweep
<1>7. TypeOK'
  BY <1>1, <1>5, <1>6 DEF TypeOK, StorageTypeOK
<1>8. ASSUME NEW r \in Requests
      PROVE  RequestInv(r)'
  <2>1. RequestInv(r) /\ r # None /\ dir[r] \in Dir /\ dir'[r] \in Dir /\ row'[r] = row[r]
        /\ (r \in torn => r \in torn')
    BY <1>1, <1>2, <1>5 DEF IntakeInv, TypeOK, StorageTypeOK
  <2>2. Untouched(r) => Untouched(r)'
    BY <1>1, <1>6, <2>1 DEF Untouched, TypeOK, StorageTypeOK
  <2>3. CASE req[r].by # p /\ r \notin part
    <3>1. dir'[r] = dir[r] /\ req'[r] = req[r]
      BY <1>1, <1>3, <2>3
    <3> QED
      BY <2>1, <2>2, <3>1, SweepKeeps
  <2>4. r \in part => /\ dir'[r].exists => dir[r].exists /\ r \in torn'
                      /\ dir'[r].original => dir[r].original
                      /\ ~dir'[r].exists => dir'[r].marker = "none" /\ ~dir'[r].original
    <3> SUFFICES ASSUME r \in part
                 PROVE  /\ dir'[r].exists => dir[r].exists /\ r \in torn'
                        /\ dir'[r].original => dir[r].original
                        /\ ~dir'[r].exists => dir'[r].marker = "none" /\ ~dir'[r].original
      OBVIOUS
    <3>1. dir'[r] = left[r] /\ (dir[r].exists => r \in torn')
      BY <1>2, <1>3
    <3>2. CASE dir'[r] = Absent
      BY <3>2 DEF Absent
    <3>3. CASE dir'[r] # Absent
      <4>1. dir[r].exists /\ dir'[r] \in Remnants(dir[r])
        BY <1>3, <3>1, <3>3
      <4> QED
        BY <2>1, <3>1, <4>1, RemnantsShape
    <3> QED
      BY <3>2, <3>3
  <2>5. r \notin part => dir'[r] = dir[r]
    BY <1>3
  <2>6. /\ dir'[r].exists => dir[r].exists
        /\ dir'[r].original => dir[r].original
        /\ ~dir'[r].exists => dir'[r].marker = "none" /\ ~dir'[r].original
    BY <2>1, <2>4, <2>5 DEF RequestInv, DirInv
  <2>7. CASE req[r].by = p
    <3>1. req'[r] = gone
      BY <1>1, <2>7
    <3>2. DirInv(r)'
      BY <1>4, <2>1, <2>4, <2>5, <2>6, <3>1 DEF RequestInv, DirInv
    <3>3. EarlyInv(r)' /\ LiveInv(r)' /\ HandlerInv(r)'
      BY <1>4, <3>1 DEF EarlyInv, LiveInv, HandlerInv, Using, Stored
    <3>4. EndInv(r)'
      BY <1>4, <2>1, <2>6, <3>1 DEF RequestInv, EndInv
    <3> QED
      BY <3>2, <3>3, <3>4 DEF RequestInv
  <2>8. CASE req[r].by # p /\ r \in part
    <3>1. r = sweep[p].target /\ ~Untouched(r) /\ req'[r] = req[r]
      BY <1>1, <2>8 DEF Untouched
    <3>2. req[r].at \notin {"new", "mark"} /\ (Using(r) => req[r].late)
      BY <2>1, <3>1 DEF RequestInv, EarlyInv, LiveInv
    <3>3. DirInv(r)' /\ EarlyInv(r)' /\ LiveInv(r)'
      BY <2>4, <2>6, <2>8, <3>1, <3>2 DEF DirInv, EarlyInv, LiveInv, Using, Stored
    <3>4. HandlerInv(r)' /\ EndInv(r)'
      BY <2>1, <2>6, <3>1 DEF RequestInv, HandlerInv, EndInv
    <3> QED
      BY <3>3, <3>4 DEF RequestInv
  <2> QED
    BY <2>3, <2>7, <2>8
<1> QED
  BY <1>7, <1>8 DEF IntakeInv

-----------------------------------------------------------------------------
(* The theorems.                                                           *)

LEMMA InitInv == Init => IntakeInv
<1> SUFFICES ASSUME Init PROVE IntakeInv
  OBVIOUS
<1>1. TypeOK
  BY InitType
<1>2. ASSUME NEW r \in Requests
      PROVE  RequestInv(r)
  <2>1. dir[r] = Absent /\ req[r] = NewHandler /\ row[r] = None
        /\ \A p \in Procs : sweep[p] = NoSweep
    BY DEF Init, StorageInit
  <2>2. r # None
    OBVIOUS
  <2>3. Untouched(r)
    BY <2>1, <2>2 DEF Untouched, NoSweep
  <2> QED
    BY <2>1, <2>3 DEF Absent, NewHandler, RequestInv, DirInv, EarlyInv, LiveInv, HandlerInv,
                      EndInv, Using, Stored
<1> QED
  BY <1>1, <1>2 DEF IntakeInv

\* The step of a request, or of its lease.
LEMMA RequestStep ==
  ASSUME IntakeInv, NEW r \in Requests, HandlerStep(r) \/ Expire(r)
  PROVE  IntakeInv'
<1>1. StepOf(r)
  BY BeginStep, MarkStep, UploadStep, LeaseStep, ExtractStep, PageStep, LimitsStep, ImagesStep,
     CleanupStep, EscapesStep, InsertStep, ExpireStep DEF HandlerStep
<1> QED
  BY <1>1, CalmKeeps DEF StepOf, IntakeInv

\* The invariant holds in every reachable state.
THEOREM IntakeIsInvariant == Spec => []IntakeInv
<1>1. ASSUME IntakeInv, [Next]_vars
      PROVE  IntakeInv'
  <2>1. CASE UNCHANGED vars
    <3>1. UNCHANGED <<dir, proc, sweep, torn, req, row>>
      BY <2>1 DEF vars, storageVars
    <3>2. TypeOK'
      BY <1>1, <3>1 DEF IntakeInv, TypeOK, StorageTypeOK
    <3>3. \A r \in Requests : Calm(r)
      BY <3>1 DEF Calm
    <3> QED
      BY <3>2, <3>3, <1>1, CalmKeeps DEF IntakeInv
  <2>2. CASE Next
    BY <1>1, <2>2, RequestStep, SweepInv, CrashInv DEF Next
  <2> QED
    BY <1>1, <2>1, <2>2
<1> QED
  BY <1>1, InitInv, PTL DEF Spec

\* Every reachable state has the right shape.
THEOREM IntakeTypeCorrect == Spec => []TypeOK
<1>1. IntakeInv => TypeOK
  BY DEF IntakeInv
<1> QED
  BY <1>1, IntakeIsInvariant, PTL

\* However many processes start, sweep and die while requests are served, a
\* request that renews its lease in time keeps its directory, marker and
\* original (_marker_is_expired, cleanup_request_directory).
THEOREM LiveDirectoriesAreKept == Spec => []LiveDirectoryIsKept
<1>1. IntakeInv => LiveDirectoryIsKept
  BY DEF IntakeInv, RequestInv, LiveInv, LiveDirectoryIsKept
<1> QED
  BY <1>1, IntakeIsInvariant, PTL

\* An answer that does not report a failed cleanup means that the original is
\* gone, and an extraction is only inserted after its directory is removed.
THEOREM OriginalsAreNotKept == Spec => []NothingIsKept
<1>1. IntakeInv => NothingIsKept
  BY DEF IntakeInv, RequestInv, EndInv, NothingIsKept
<1> QED
  BY <1>1, IntakeIsInvariant, PTL

\* An original on disk without a marker, which no sweep would ever remove, is
\* left by an interrupted or failed removal and by nothing else.
THEOREM OriginalsAreMarked == Spec => []EveryOriginalIsMarked
<1>1. IntakeInv => EveryOriginalIsMarked
  BY DEF IntakeInv, RequestInv, DirInv, EveryOriginalIsMarked
<1> QED
  BY <1>1, IntakeIsInvariant, PTL

\* A page that is exempt from review has usable text, and an extraction with a
\* failed page is blocked (_process_pdf_pages, create_extraction).
THEOREM RowsAreReviewable == Spec => []RowIsReviewable
<1>1. ASSUME IntakeInv, NEW r \in Requests, row[r] # None, NEW page \in row[r].pages
      PROVE  /\ ~page.review => page.text /\ ~page.failed
             /\ page.failed => row[r].blocked
             /\ row[r].canConfirm => ~page.review
  <2>1. PICK pages \in SUBSET Page :
          /\ row[r] = Extraction(pages)
          /\ \A other \in pages : ~other.review => other.text /\ ~other.failed
    BY <1>1 DEF IntakeInv, RequestInv, EndInv
  <2>2. /\ row[r].pages = pages
        /\ row[r].blocked = ((\E other \in pages : other.review) \/ (\E other \in pages : other.failed))
        /\ row[r].canConfirm = (~(\E other \in pages : other.failed) /\ ~(\E other \in pages : other.review))
    BY <2>1 DEF Extraction
  <2>3. page \in pages
    BY <1>1, <2>2
  <2> QED
    BY <2>1, <2>2, <2>3
<1>2. IntakeInv => RowIsReviewable
  BY <1>1 DEF RowIsReviewable
<1> QED
  BY <1>2, IntakeIsInvariant, PTL

-----------------------------------------------------------------------------
(* What a sweep reports.                                                   *)

\* A stale directory is still to be looked at, or under removal, or reported.
Accounted(p) == proc[p] = "sweeping" =>
  \A r \in sweep[p].stale : dir[r].exists =>
    r \in sweep[p].todo \/ r = sweep[p].target \/ r \in sweep[p].reported

\* A step in which no sweep gets on: stale directories may only become fewer or go.
Waits(p) ==
  /\ proc'[p] = proc[p]
  /\ \A r \in sweep'[p].stale : r \in sweep[p].stale /\ (dir'[r].exists => dir[r].exists)
  /\ sweep'[p].todo = sweep[p].todo /\ sweep'[p].target = sweep[p].target
  /\ sweep'[p].reported = sweep[p].reported

LEMMA WaitsKeeps ==
  ASSUME NEW p \in Procs, Accounted(p), Waits(p)
  PROVE  Accounted(p)'
  BY DEF Accounted, Waits

\* Only a new request makes a directory, and no sweep knows it.
LEMMA RequestWaits ==
  ASSUME IntakeInv, NEW r \in Requests, HandlerStep(r) \/ Expire(r), NEW p \in Procs
  PROVE  Waits(p)
<1>1. TypeOK /\ RequestInv(r) /\ dir \in [Requests -> Dir] /\ sweep[p] \in Sweep
  BY DEF IntakeInv, TypeOK, StorageTypeOK
<1>2. proc' = proc
  BY DEF HandlerStep, Begin, Mark, Upload, Lease, ExtractText, ProcessPage, CheckLimits,
         PrepareImages, ExtractImages, Cleanup, Escapes, Insert, Expire, ExpireLease
<1>3. UNCHANGED sweep \/ WriteMarker(r)
  BY DEF HandlerStep, Begin, Mark, Upload, Lease, ExtractText, ProcessPage, CheckLimits,
         PrepareImages, ExtractImages, Cleanup, Escapes, Insert, Expire, ExpireLease
<1>4. /\ sweep'[p].stale \subseteq sweep[p].stale
      /\ sweep'[p].todo = sweep[p].todo /\ sweep'[p].target = sweep[p].target
      /\ sweep'[p].reported = sweep[p].reported
  <2>1. CASE UNCHANGED sweep
    BY <2>1
  <2>2. CASE WriteMarker(r)
    <3>1. sweep'[p] = [sweep[p] EXCEPT !.stale = @ \ {r}]
      BY <2>2 DEF WriteMarker, RenewedFor
    <3> QED
      BY <1>1, <3>1 DEF Sweep
  <2> QED
    BY <1>3, <2>1, <2>2
<1>5. \A o \in sweep[p].stale : dir'[o].exists => dir[o].exists
  <2>1. \/ MakeDirectory(r) /\ req[r].at = "new"
        \/ WriteMarker(r) \/ CleanupRemoves(r) \/ CleanupFails(r) \/ CleanupRefused(r)
        \/ UNCHANGED dir \/ ExpireLease(r)
        \/ dir' = [dir EXCEPT ![r].original = TRUE]
    BY DEF HandlerStep, Begin, Mark, Upload, Lease, ExtractText, ProcessPage, CheckLimits,
           PrepareImages, ExtractImages, Cleanup, Escapes, Insert, Expire
  <2>2. CASE MakeDirectory(r) /\ req[r].at = "new"
    <3>1. r \notin sweep[p].stale
      BY <1>1, <2>2 DEF RequestInv, EarlyInv, Untouched
    <3> QED
      BY <1>1, <2>2, <3>1, MakeType DEF Sweep
  <2>3. CASE WriteMarker(r)
    BY <1>1, <2>3, WriteType DEF Sweep
  <2>4. CASE CleanupRemoves(r) \/ CleanupFails(r) \/ CleanupRefused(r)
    <3>1. /\ \A o \in Requests \ {r} : dir'[o] = dir[o]
          /\ dir'[r].exists => dir[r].exists
      BY <1>1, <2>4, RemoveType DEF Absent
    <3> QED
      BY <1>1, <3>1 DEF Sweep
  <2>5. CASE UNCHANGED dir \/ ExpireLease(r) \/ dir' = [dir EXCEPT ![r].original = TRUE]
    <3>1. \A o \in Requests : dir'[o].exists = dir[o].exists
      BY <1>1, <2>5 DEF ExpireLease, Dir
    <3> QED
      BY <1>1, <3>1 DEF Sweep
  <2> QED
    BY <2>1, <2>2, <2>3, <2>4, <2>5
<1> QED
  BY <1>2, <1>4, <1>5 DEF Waits

\* What an attempt at removal leaves in the memory of a sweep.
LEMMA AttemptShape ==
  ASSUME NEW s \in Sweep, s.target # None
  PROVE  /\ Done(s).stale = s.stale /\ Done(s).todo = s.todo /\ Done(s).reported = s.reported
         /\ GivenUp(s).stale = s.stale /\ GivenUp(s).todo = s.todo
         /\ GivenUp(s).reported = s.reported \cup {s.target}
         /\ AfterFailure(s).stale = s.stale /\ AfterFailure(s).todo = s.todo
         /\ \/ AfterFailure(s).reported = s.reported /\ AfterFailure(s).target = s.target
            \/ AfterFailure(s).reported = s.reported \cup {s.target}
<1>1. Done(s) \in Sweep /\ s.target \in Requests
  BY SweepTypes DEF Sweep
<1>2. Done(s).stale = s.stale /\ Done(s).todo = s.todo /\ Done(s).reported = s.reported
  BY DEF Done, Sweep
<1>3. /\ GivenUp(s).stale = s.stale /\ GivenUp(s).todo = s.todo
      /\ GivenUp(s).reported = s.reported \cup {s.target}
  BY <1>1, <1>2 DEF GivenUp, Sweep
<1>4. CASE s.tries + 1 < MaxTries
  <2>1. AfterFailure(s) = [s EXCEPT !.tries = @ + 1]
    BY <1>4 DEF AfterFailure
  <2>2. /\ AfterFailure(s).stale = s.stale /\ AfterFailure(s).todo = s.todo
        /\ AfterFailure(s).reported = s.reported /\ AfterFailure(s).target = s.target
    BY <2>1 DEF Sweep
  <2> QED
    BY <1>2, <1>3, <2>2
<1>5. CASE ~(s.tries + 1 < MaxTries)
  <2>1. AfterFailure(s) = GivenUp(s)
    BY <1>5 DEF AfterFailure
  <2> QED
    BY <1>2, <1>3, <2>1
<1> QED
  BY <1>4, <1>5

\* A sweep that gets on accounts for what it passes over, removes or gives up.
LEMMA SweepAccounts ==
  ASSUME IntakeInv, NEW p \in Procs, Accounted(p), SweepStep(p)
  PROVE  Accounted(p)'
<1>1. /\ TypeOK /\ sweep[p] \in Sweep /\ sweep \in [Procs -> Sweep]
      /\ proc \in [Procs -> {"down", "sweeping", "serving"}]
  BY DEF IntakeInv, TypeOK, StorageTypeOK
<1>2. CASE SweepStart(p)
  <2>1. /\ sweep'[p].stale = {r \in Requests : dir[r].marker = "expired"}
        /\ sweep'[p].todo = {r \in Requests : dir[r].exists} /\ dir' = dir
    BY <1>1, <1>2 DEF SweepStart, NoSweep
  <2> QED
    BY <2>1 DEF Accounted
<1>3. ASSUME NEW r \in Requests, SweepSkip(p, r)
      PROVE  Accounted(p)'
  <2>1. /\ sweep'[p].stale = sweep[p].stale /\ sweep'[p].todo = sweep[p].todo \ {r}
        /\ sweep'[p].target = sweep[p].target
        /\ sweep[p].reported \subseteq sweep'[p].reported
        /\ CanRefresh(r) \/ r \in sweep'[p].reported
        /\ dir' = dir /\ proc' = proc
    BY <1>1, <1>3 DEF SweepSkip, Sweep
  <2>2. r \in sweep[p].stale /\ CanRefresh(r) => FALSE
    BY <1>3 DEF SweepSkip, Eligible, CanRefresh
  <2> QED
    BY <2>1, <2>2 DEF Accounted
<1>4. ASSUME NEW r \in Requests, SweepTake(p, r)
      PROVE  Accounted(p)'
  <2>1. /\ sweep'[p].stale = sweep[p].stale /\ sweep'[p].todo = sweep[p].todo \ {r}
        /\ sweep[p].target = None /\ sweep'[p].target = r
        /\ sweep'[p].reported = sweep[p].reported /\ dir' = dir /\ proc' = proc
    BY <1>1, <1>4 DEF SweepTake, Sweep
  <2>2. \A o \in sweep[p].stale : o # None
    BY <1>1 DEF Sweep
  <2> QED
    BY <2>1, <2>2 DEF Accounted
<1>5. CASE SweepRemove(p)
  <2>1. PICK t \in Requests : t = sweep[p].target
    BY <1>1, <1>5 DEF SweepRemove, Sweep
  <2>2. /\ proc' = proc /\ t # None
        /\ \/ CleanupRemoves(t) /\ sweep'[p] = Done(sweep[p])
           \/ CleanupFails(t) /\ sweep'[p] = AfterFailure(sweep[p])
           \/ CleanupRefused(t) /\ sweep'[p] = GivenUp(sweep[p])
    BY <1>1, <1>5, <2>1 DEF SweepRemove
  <2>3. /\ \A o \in Requests \ {t} : dir'[o] = dir[o]
        /\ CleanupRemoves(t) => ~dir'[t].exists
        /\ dir'[t].exists => dir[t].exists
    BY <1>1, <2>2, RemoveType DEF Absent
  <2>4. /\ sweep'[p].stale = sweep[p].stale /\ sweep'[p].todo = sweep[p].todo
        /\ sweep[p].reported \subseteq sweep'[p].reported
        /\ \/ CleanupRemoves(t)
           \/ sweep'[p].target = t \/ t \in sweep'[p].reported
    BY <1>1, <2>1, <2>2, AttemptShape
  <2>5. sweep[p].stale \subseteq Requests
    BY <1>1 DEF Sweep
  <2>6. ASSUME proc[p] = "sweeping", NEW r \in sweep[p].stale, dir'[r].exists
        PROVE  r \in sweep'[p].todo \/ r = sweep'[p].target \/ r \in sweep'[p].reported
    <3>1. CASE r = t
      BY <2>3, <2>4, <2>6, <3>1
    <3>2. CASE r # t
      BY <2>1, <2>3, <2>4, <2>5, <2>6, <3>2 DEF Accounted
    <3> QED
      BY <3>1, <3>2
  <2> QED
    BY <2>2, <2>4, <2>6 DEF Accounted
<1>6. CASE SweepEnd(p)
  <2>1. proc'[p] = "serving"
    BY <1>1, <1>6 DEF SweepEnd
  <2> QED
    BY <2>1 DEF Accounted
<1> QED
  BY <1>2, <1>3, <1>4, <1>5, <1>6 DEF SweepStep

\* To the other sweeps a removal is one more directory that goes.
LEMMA OthersWait ==
  ASSUME IntakeInv, NEW p \in Procs, SweepStep(p), NEW q \in Procs \ {p}
  PROVE  Waits(q)
<1>1. TypeOK /\ sweep[p] \in Sweep /\ sweep[q] \in Sweep /\ sweep \in [Procs -> Sweep]
  BY DEF IntakeInv, TypeOK, StorageTypeOK
<1>2. proc'[q] = proc[q] /\ sweep'[q] = sweep[q]
  BY <1>1 DEF SweepStep, SweepStart, SweepSkip, SweepTake, SweepRemove, SweepEnd, TypeOK, StorageTypeOK
<1>3. \A r \in Requests : dir'[r].exists => dir[r].exists
  <2>1. CASE SweepRemove(p)
    <3>1. PICK t \in Requests : t = sweep[p].target
      BY <1>1, <2>1 DEF SweepRemove, Sweep
    <3>2. CleanupRemoves(t) \/ CleanupFails(t) \/ CleanupRefused(t)
      BY <2>1, <3>1 DEF SweepRemove
    <3> QED
      BY <1>1, <3>2, RemoveType DEF Absent
  <2>2. CASE ~SweepRemove(p)
    <3>1. dir' = dir
      BY <2>2 DEF SweepStep, SweepStart, SweepSkip, SweepTake, SweepEnd
    <3> QED
      BY <3>1
  <2> QED
    BY <2>1, <2>2
<1> QED
  BY <1>1, <1>2, <1>3 DEF Waits, Sweep

\* The sweep of a process that dies is forgotten, and others lose at most directories.
LEMMA CrashAccounts ==
  ASSUME IntakeInv, NEW p \in Procs, Crash(p), NEW q \in Procs, Accounted(q)
  PROVE  Accounted(q)'
<1>1. TypeOK /\ sweep[q] \in Sweep /\ dir \in [Requests -> Dir]
      /\ sweep \in [Procs -> Sweep] /\ proc \in [Procs -> {"down", "sweeping", "serving"}]
  BY DEF IntakeInv, TypeOK, StorageTypeOK
<1>2. proc' = [proc EXCEPT ![p] = "down"] /\ sweep' = [sweep EXCEPT ![p] = NoSweep]
  BY DEF Crash, StorageCrash
<1>3. CASE q = p
  BY <1>1, <1>2, <1>3 DEF Accounted
<1>4. CASE q # p
  <2>1. \A r \in Requests : dir'[r].exists => dir[r].exists
    BY <1>1 DEF Crash, StorageCrash, Absent
  <2>2. proc'[q] = proc[q] /\ sweep'[q] = sweep[q]
    BY <1>1, <1>2, <1>4
  <2> QED
    BY <1>1, <2>1, <2>2, WaitsKeeps DEF Waits, Sweep
<1> QED
  BY <1>3, <1>4

LEMMA AccountedStep ==
  ASSUME IntakeInv, [Next]_vars, NEW q \in Procs, Accounted(q)
  PROVE  Accounted(q)'
<1>1. CASE UNCHANGED vars
  BY <1>1 DEF vars, storageVars, Accounted
<1>2. ASSUME NEW r \in Requests, HandlerStep(r) \/ Expire(r)
      PROVE  Accounted(q)'
  BY <1>2, RequestWaits, WaitsKeeps
<1>3. ASSUME NEW p \in Procs, SweepStep(p)
      PROVE  Accounted(q)'
  <2>1. CASE q = p
    BY <1>3, <2>1, SweepAccounts
  <2>2. CASE q # p
    BY <1>3, <2>2, OthersWait, WaitsKeeps
  <2> QED
    BY <2>1, <2>2
<1>4. ASSUME NEW p \in Procs, Crash(p)
      PROVE  Accounted(q)'
  BY <1>4, CrashAccounts
<1> QED
  BY <1>1, <1>2, <1>3, <1>4 DEF Next

LEMMA InitAccounted == Init => \A p \in Procs : Accounted(p)
  BY DEF Init, StorageInit, Accounted

\* A sweep only ends when all that was expired at its beginning is gone, renewed or
\* reported, whatever requests and other sweeps did meanwhile
\* (cleanup_expired_orphans: failed and unsafe counts).
THEOREM SweepsReport == Spec => SweepReports
<1> DEFINE AllAccounted == \A p \in Procs : Accounted(p)
<1>1. Init => AllAccounted
  BY InitAccounted
<1>2. IntakeInv /\ AllAccounted /\ [Next]_vars => AllAccounted'
  BY AccountedStep
<1>3. ASSUME IntakeInv, AllAccounted, [Next]_vars, NEW p \in Procs,
             proc[p] = "sweeping", proc'[p] = "serving", NEW r \in sweep[p].stale, dir[r].exists
      PROVE  r \in sweep[p].reported
  <2>1. TypeOK /\ sweep[p] \in Sweep /\ r # None
    BY <1>3 DEF IntakeInv, TypeOK, StorageTypeOK, Sweep
  <2>2. SweepEnd(p)
    <3>1. CASE UNCHANGED vars
      BY <1>3, <3>1 DEF vars, storageVars
    <3>2. ASSUME NEW o \in Requests, HandlerStep(o) \/ Expire(o)
          PROVE  FALSE
      BY <1>3, <3>2, RequestWaits DEF Waits
    <3>3. ASSUME NEW q \in Procs, Crash(q)
          PROVE  FALSE
      BY <1>3, <2>1, <3>3 DEF Crash, StorageCrash, TypeOK, StorageTypeOK
    <3>4. ASSUME NEW q \in Procs \ {p}, SweepStep(q)
          PROVE  FALSE
      BY <1>3, <3>4, OthersWait DEF Waits
    <3>5. CASE SweepStep(p)
      BY <1>3, <2>1, <3>5 DEF SweepStep, SweepStart, SweepSkip, SweepTake, SweepRemove
    <3> QED
      BY <1>3, <3>1, <3>2, <3>3, <3>4, <3>5 DEF Next
  <2> QED
    BY <1>3, <2>1, <2>2 DEF SweepEnd, Accounted
<1>4. IntakeInv /\ AllAccounted /\ [Next]_vars =>
        \A p \in Procs : proc[p] = "sweeping" /\ proc'[p] = "serving" =>
          \A r \in sweep[p].stale : dir[r].exists => r \in sweep[p].reported
  BY <1>3
<1> QED
  BY <1>1, <1>2, <1>4, IntakeIsInvariant, PTL DEF Spec, SweepReports
=============================================================================
