----------------------------- MODULE TempStorage -----------------------------
(***************************************************************************)
(* The directories that hold uploaded originals while they are extracted    *)
(* (services/extraction_temp_files.py), and the sweep of abandoned ones at  *)
(* the start of an API process (services/extraction_orphan_cleanup.py).     *)
(*                                                                          *)
(* A directory is named after the request it was made for; names, device    *)
(* and inode never repeat, so an identity check fails exactly when the      *)
(* directory is gone.  The marker file holds the time of the last lease     *)
(* renewal and is replaced by a rename: a reader sees the old or the new    *)
(* one.  Only whether the lease is older than the TTL matters.              *)
(***************************************************************************)
EXTENDS Naturals, FiniteSets

CONSTANTS
  Requests,  \* requests that upload an original, and their directories
  Procs,     \* API processes that share the temporary root
  MaxTries,  \* EXTRACTION_ORPHAN_CLEANUP_RETRY_COUNT
  None

ASSUME StorageAssumption == MaxTries \in Nat \ {0} /\ None \notin Requests \cup Procs

VARIABLES
  dir,    \* request -> what is on disk for it
  proc,   \* process -> "down", "sweeping" (start-up) or "serving"
  sweep,  \* process -> what the sweep under way remembers
  torn    \* history: directories a removal of which failed or was interrupted

storageVars == <<dir, proc, sweep, torn>>

Markers == {"none", "fresh", "expired"}

Dir == [exists : BOOLEAN, marker : Markers, original : BOOLEAN]

Absent == [exists |-> FALSE, marker |-> "none", original |-> FALSE]

\* stale: directories whose marker is older than the TTL at the time `now` the
\* sweep captured; todo: entries of the scan not yet looked at; target and
\* tries: the directory being removed; reported: counted as failed or unsafe.
Sweep == [stale : SUBSET Requests, todo : SUBSET Requests,
          target : Requests \cup {None}, tries : 0 .. MaxTries - 1,
          reported : SUBSET Requests]

NoSweep == [stale |-> {}, todo |-> {}, target |-> None, tries |-> 0, reported |-> {}]

StorageTypeOK ==
  /\ dir \in [Requests -> Dir]
  /\ proc \in [Procs -> {"down", "sweeping", "serving"}]
  /\ sweep \in [Procs -> Sweep]
  /\ torn \subseteq Requests

StorageInit ==
  /\ dir = [r \in Requests |-> Absent]
  /\ proc = [p \in Procs |-> "down"]
  /\ sweep = [p \in Procs |-> NoSweep]
  /\ torn = {}

-----------------------------------------------------------------------------
(* Operations on one directory, called by a request or by a sweep.         *)

\* mkdtemp and chmod.
MakeDirectory(r) == dir' = [dir EXCEPT ![r] = [Absent EXCEPT !.exists = TRUE]]

\* A sweep under way compares with the time it started: a renewed lease is no
\* longer expired for it.
RenewedFor(r) == [p \in Procs |-> [sweep[p] EXCEPT !.stale = @ \ {r}]]

\* The first marker, and each renewal of the lease.
WriteMarker(r) ==
  /\ dir[r].exists
  /\ dir' = [dir EXCEPT ![r].marker = "fresh"]
  /\ sweep' = RenewedFor(r)

\* A renewal needs the directory and a marker that parses.
CanRefresh(r) == dir[r].exists /\ dir[r].marker # "none"

\* What rmtree can leave when it stops half way: it removes entries in any order.
Remnants(d) ==
  {[exists |-> TRUE, marker |-> m, original |-> o] :
     m \in {"none", d.marker}, o \in {FALSE, d.original}}

CleanupRemoves(r) ==
  /\ dir[r].exists
  /\ dir' = [dir EXCEPT ![r] = Absent]
  /\ UNCHANGED torn

\* CleanupOperationError: an entry cannot be removed, or one was added meanwhile.
CleanupFails(r) ==
  /\ dir[r].exists
  /\ \E left \in Remnants(dir[r]) : dir' = [dir EXCEPT ![r] = left]
  /\ torn' = torn \cup {r}

\* The directory is gone: the identity check raises.
CleanupRefused(r) == ~dir[r].exists /\ UNCHANGED <<dir, torn>>

\* The lease of r becomes older than the TTL.
ExpireLease(r) ==
  /\ dir[r].marker = "fresh"
  /\ dir' = [dir EXCEPT ![r].marker = "expired"]
  /\ UNCHANGED <<proc, sweep, torn>>

-----------------------------------------------------------------------------
(* The sweep of a starting process.                                        *)

SweepStart(p) ==
  /\ proc[p] = "down"
  /\ proc' = [proc EXCEPT ![p] = "sweeping"]
  /\ sweep' = [sweep EXCEPT ![p] = [NoSweep EXCEPT
                 !.stale = {r \in Requests : dir[r].marker = "expired"},
                 !.todo = {r \in Requests : dir[r].exists}]]
  /\ UNCHANGED <<dir, torn>>

\* A wrong version: a marker that is not there counts as an expired one.
SlipEligible(p, r) == dir[r].exists /\ (r \in sweep[p].stale \/ dir[r].marker = "none")

\* The entry is a directory with a valid marker whose lease is expired.
Eligible(p, r) == dir[r].exists /\ dir[r].marker # "none" /\ r \in sweep[p].stale

\* Active leases are passed over, everything else that is not eligible is
\* counted as unsafe.
SweepSkip(p, r) ==
  /\ sweep[p].target = None /\ r \in sweep[p].todo
  /\ ~Eligible(p, r)
  /\ sweep' = [sweep EXCEPT ![p].todo = @ \ {r},
                            ![p].reported = IF CanRefresh(r) THEN @ ELSE @ \cup {r}]
  /\ UNCHANGED <<dir, proc, torn>>

SweepTake(p, r) ==
  /\ sweep[p].target = None /\ r \in sweep[p].todo
  /\ Eligible(p, r)
  /\ sweep' = [sweep EXCEPT ![p].todo = @ \ {r}, ![p].target = r]
  /\ UNCHANGED <<dir, proc, torn>>

Done(s) == [s EXCEPT !.target = None, !.tries = 0]

\* A wrong version: the last failed attempt is not counted.
SlipGivenUp(s) == Done(s)

GivenUp(s) == [Done(s) EXCEPT !.reported = @ \cup {s.target}]

\* A wrong version: one attempt too many.
SlipAfterFailure(s) == IF s.tries < MaxTries THEN [s EXCEPT !.tries = @ + 1] ELSE GivenUp(s)

\* An attempt failed; it is repeated up to the configured count.
AfterFailure(s) == IF s.tries + 1 < MaxTries THEN [s EXCEPT !.tries = @ + 1] ELSE GivenUp(s)

\* One attempt to remove the target; the marker's lease is not read again.
SweepRemove(p) ==
  /\ sweep[p].target # None
  /\ \/ CleanupRemoves(sweep[p].target) /\ sweep' = [sweep EXCEPT ![p] = Done(@)]
     \/ CleanupFails(sweep[p].target) /\ sweep' = [sweep EXCEPT ![p] = AfterFailure(@)]
     \/ CleanupRefused(sweep[p].target) /\ sweep' = [sweep EXCEPT ![p] = GivenUp(@)]
  /\ UNCHANGED proc

\* The application starts to serve; failed and unsafe entries raise an event.
SweepEnd(p) ==
  /\ proc[p] = "sweeping"
  /\ sweep[p].target = None /\ sweep[p].todo = {}
  /\ proc' = [proc EXCEPT ![p] = "serving"]
  /\ sweep' = [sweep EXCEPT ![p] = NoSweep]
  /\ UNCHANGED <<dir, torn>>

SweepStep(p) ==
  \/ SweepStart(p)
  \/ \E r \in Requests : SweepSkip(p, r) \/ SweepTake(p, r)
  \/ SweepRemove(p)
  \/ SweepEnd(p)

\* The process dies.  A removal it was in the middle of leaves any part of the
\* directory, or has just finished.
StorageCrash(p, removing) ==
  /\ proc[p] # "down"
  /\ proc' = [proc EXCEPT ![p] = "down"]
  /\ sweep' = [sweep EXCEPT ![p] = NoSweep]
  /\ \E part \in SUBSET removing :
       /\ torn' = torn \cup {r \in part : dir[r].exists}
       /\ \E left \in [part -> Dir] :
            /\ \A r \in part : left[r] \in IF dir[r].exists THEN Remnants(dir[r]) \cup {Absent}
                                                            ELSE {Absent}
            /\ dir' = [r \in Requests |-> IF r \in part THEN left[r] ELSE dir[r]]
=============================================================================
