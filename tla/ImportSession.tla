--------------------------- MODULE ImportSession ---------------------------
(***************************************************************************)
(* Importing a run through the workspace server (workspace_api.py with     *)
(* run_import.py).  POST .../validate unpacks an archive into a staging    *)
(* directory and keeps its preview in _IMPORTS, a dict of the process;     *)
(* POST .../commit copies the files of one candidate into the storage of a *)
(* new run, analyses them, inserts the run and deletes the staging         *)
(* directory.  POST /workspace/sample inserts the bundled sample run once. *)
(*                                                                         *)
(* Requests are served by threads of one process that share _IMPORTS, the  *)
(* directories and the database, without a lock.  A request is split where *)
(* it touches them.  A crash loses _IMPORTS and the requests under way and *)
(* keeps the directories and the database.                                 *)
(*                                                                         *)
(* Archives are one case: accepted, or refused for whatever reason.  The   *)
(* form fields of a commit are checked before it touches anything.         *)
(***************************************************************************)
EXTENDS Naturals, Sequences

CONSTANTS
  Client,        \* request threads
  Session,       \* import session ids that can be drawn
  Run,           \* run ids that can be drawn
  File,          \* members of an archive
  Candidate,     \* run candidates discover_candidates finds in it
  FilesOf,       \* FilesOf[c]: the mapped files of c, in the order of roles
  MaxRestarts,   \* bound: crashes of the server process
  MaxChanges,    \* bound: staged files changed from outside
  Nothing

ASSUME ImportAssumption ==
  /\ FilesOf \in [Candidate -> Seq(File)]
  /\ \A c \in Candidate : FilesOf[c] # <<>>
  /\ MaxRestarts \in Nat
  /\ MaxChanges \in Nat
  /\ \A files \in SUBSET File : Nothing \notin [files -> {"validated", "changed"}]

(* What a file holds: what discover_candidates hashed, or something else.  *)
Content == {"validated", "changed"}

(* A directory: the files present and what they hold.                      *)
Directory == UNION {[files -> Content] : files \in SUBSET File}
Empty == [f \in {} |-> "validated"]

Mapped(c) == {FilesOf[c][i] : i \in DOMAIN FilesOf[c]}

(* A row of analysis_runs: what it was imported from, or the sample.       *)
Imported == [session : Session, candidate : Candidate]
Sample == [sample |-> TRUE]

(* No row is told from every row.                                          *)
ASSUME RowAssumption == Nothing \notin Imported \cup {Sample}

VARIABLES
  imports,     \* _IMPORTS: the sessions it holds
  opened,      \* session ids drawn so far
  old,         \* sessions whose preview is more than 1800 s old
  staging,     \* staging[s]: the staging directory of s
  copies,      \* copies[r]: the storage directory of r, or Nothing
  runs,        \* table analysis_runs
  pc,          \* where each client is in its request
  work,        \* the local variables of that request
  restarts,    \* crashes so far
  changes,     \* staged files changed so far
  raced,       \* history variable: <<run, file>> changed between the hash
               \* and the copy of the commit of that run
  overlapped   \* history variable: {run, run} of sample requests that were
               \* both between their look-up and their insert

history == <<raced, overlapped>>
vars == <<imports, opened, old, staging, copies, runs, pc, work, restarts,
          changes, history>>
sessions == <<imports, opened, old>>
external == <<restarts, changes>>

-----------------------------------------------------------------------------
Idle == [op |-> "none"]

Init ==
  /\ imports = {}
  /\ opened = {}
  /\ old = {}
  /\ staging = [s \in Session |-> Empty]
  /\ copies = [r \in Run |-> Nothing]
  /\ runs = [r \in Run |-> Nothing]
  /\ pc = [u \in Client |-> "idle"]
  /\ work = [u \in Client |-> Idle]
  /\ restarts = 0
  /\ changes = 0
  /\ raced = {}
  /\ overlapped = {}

Enter(u, place, locals) ==
  /\ pc' = [pc EXCEPT ![u] = place]
  /\ work' = [work EXCEPT ![u] = locals]

Return(u) == Enter(u, "idle", Idle)

(* Variant of FreshRun: an id that only no request under way has, such as *)
(* one made from the session, with a mkdir that accepts what is there.     *)
UnusedNow(r) ==
  \A u \in Client : work[u].op \in {"commit", "sample"} => work[u].run # r

(* uuid4: a run id no directory, row or request has.                       *)
FreshRun(r) ==
  /\ copies[r] = Nothing
  /\ runs[r] = Nothing
  /\ \A u \in Client : work[u].op \in {"commit", "sample"} => work[u].run # r

-----------------------------------------------------------------------------
(* Validation.                                                             *)

(* extract: a new staging directory with the members of the archive.       *)
Extract(u, s) ==
  /\ pc[u] = "idle"
  /\ s \notin opened
  /\ opened' = opened \cup {s}
  /\ staging' = [staging EXCEPT ![s] = [f \in File |-> "validated"]]
  /\ Enter(u, "staged", [op |-> "validate", session |-> s])
  /\ UNCHANGED <<imports, old, copies, runs, external, history>>

(* extract or discover_candidates raises: the directory goes.              *)
RefuseArchive(u) ==
  /\ pc[u] = "staged"
  /\ staging' = [staging EXCEPT ![work[u].session] = Empty]
  /\ Return(u)
  /\ UNCHANGED <<sessions, copies, runs, external, history>>

(* discover_candidates hashes the files; the session can be committed.     *)
Register(u) ==
  /\ pc[u] = "staged"
  /\ imports' = imports \cup {work[u].session}
  /\ Return(u)
  /\ UNCHANGED <<opened, old, staging, copies, runs, external, history>>

Age(s) ==
  /\ s \in imports \ old
  /\ old' = old \cup {s}
  /\ UNCHANGED <<imports, opened, staging, copies, runs, pc, work, external, history>>

-----------------------------------------------------------------------------
(* Commit.  An unknown or expired session, an unknown candidate and a bad  *)
(* form are answered without a trace.                                      *)

(* Up to the mkdir of commit_candidate.  The preview is a reference: the   *)
(* request keeps it when the session is popped.                            *)
BeginCommit(u, s, c, r) ==
  /\ pc[u] = "idle"
  /\ s \in imports \ old
  /\ FreshRun(r)
  /\ copies' = [copies EXCEPT ![r] = Empty]
  /\ Enter(u, "hash", [op |-> "commit", session |-> s, candidate |-> c, run |-> r, at |-> 1])
  /\ UNCHANGED <<sessions, staging, runs, external, history>>

ThisFile(u) == FilesOf[work[u].candidate][work[u].at]
Staged(u) == staging[work[u].session]

(* Variant of Abandon: a failing commit drops the evidence it staged.      *)
AbandonStaging(u) ==
  /\ copies' = [copies EXCEPT ![work[u].run] = Nothing]
  /\ staging' = [staging EXCEPT ![work[u].session] = Empty]
  /\ raced' = {p \in raced : p[1] # work[u].run}
  /\ Return(u)
  /\ UNCHANGED <<sessions, runs, external, overlapped>>

(* commit_candidate raises: its destination goes, the session stays.       *)
Abandon(u) ==
  /\ copies' = [copies EXCEPT ![work[u].run] = Nothing]
  /\ raced' = {p \in raced : p[1] # work[u].run}
  /\ Return(u)
  /\ UNCHANGED <<sessions, staging, runs, external, overlapped>>

(* Variant of HashMatches: the file need only be there.                    *)
HashReadable(u) == ThisFile(u) \in DOMAIN Staged(u)

HashMatches(u) ==
  /\ ThisFile(u) \in DOMAIN Staged(u)
  /\ Staged(u)[ThisFile(u)] = "validated"

HashFile(u) ==
  /\ pc[u] = "hash"
  /\ HashMatches(u)
  /\ pc' = [pc EXCEPT ![u] = "copy"]
  /\ UNCHANGED <<sessions, staging, copies, runs, work, external, history>>

(* EVIDENCE_CHANGED, or FileNotFoundError when another commit of the       *)
(* session has deleted the file.                                           *)
RefuseFile(u) ==
  /\ pc[u] = "hash"
  /\ ~HashMatches(u)
  /\ Abandon(u)

Extended(dir, f, content) ==
  [g \in DOMAIN dir \cup {f} |-> IF g = f THEN content ELSE dir[g]]

(* Variant of CopyFile: a file that has gone is passed over.               *)
CopyIfPresent(u) ==
  LET run == work[u].run
      f == ThisFile(u)
      last == work[u].at = Len(FilesOf[work[u].candidate])
  IN  /\ pc[u] = "copy"
      /\ copies' = IF f \in DOMAIN Staged(u)
           THEN [copies EXCEPT ![run] = Extended(@, f, Staged(u)[f])]
           ELSE copies
      /\ Enter(u, IF last THEN "analyze" ELSE "hash",
               [work[u] EXCEPT !.at = IF last THEN @ ELSE @ + 1])
      /\ UNCHANGED <<sessions, staging, runs, external, history>>

(* Variant of CopyFile: the loop index runs past the last file.            *)
CopyAndAdvance(u) ==
  /\ pc[u] = "copy"
  /\ ThisFile(u) \in DOMAIN Staged(u)
  /\ copies' = [copies EXCEPT ![work[u].run] =
       Extended(@, ThisFile(u), Staged(u)[ThisFile(u)])]
  /\ Enter(u, IF work[u].at = Len(FilesOf[work[u].candidate]) THEN "analyze" ELSE "hash",
           [work[u] EXCEPT !.at = @ + 1])
  /\ UNCHANGED <<sessions, staging, runs, external, history>>

(* shutil.copyfile reads the file again, after the hash.                   *)
CopyFile(u) ==
  LET run == work[u].run
      f == ThisFile(u)
      last == work[u].at = Len(FilesOf[work[u].candidate])
  IN  /\ pc[u] = "copy"
      /\ f \in DOMAIN Staged(u)
      /\ copies' = [copies EXCEPT ![run] = Extended(@, f, Staged(u)[f])]
      /\ Enter(u, IF last THEN "analyze" ELSE "hash",
               [work[u] EXCEPT !.at = IF last THEN @ ELSE @ + 1])
      /\ UNCHANGED <<sessions, staging, runs, external, history>>

CopyFails(u) ==
  /\ pc[u] = "copy"
  /\ ThisFile(u) \notin DOMAIN Staged(u)
  /\ Abandon(u)

(* analyze_decision or the INSERT raises.  Nothing removes the copies: no  *)
(* row will ever name them.                                                *)
AnalysisFails(u) ==
  /\ pc[u] = "analyze"
  /\ Return(u)
  /\ UNCHANGED <<sessions, staging, copies, runs, external, history>>

(* analyze_decision on the copies, then save_analysis_run.                 *)
SaveRun(u) ==
  /\ pc[u] = "analyze"
  /\ runs' = [runs EXCEPT ![work[u].run] =
       [session |-> work[u].session, candidate |-> work[u].candidate]]
  /\ pc' = [pc EXCEPT ![u] = "clean"]
  /\ UNCHANGED <<sessions, staging, copies, work, external, history>>

(* Variant of RmtreeStep: only the files that were copied are deleted.     *)
DeleteCopied(u, f) ==
  /\ pc[u] = "clean"
  /\ f \in DOMAIN Staged(u) \cap Mapped(work[u].candidate)
  /\ staging' = [staging EXCEPT ![work[u].session] =
       [g \in DOMAIN @ \ {f} |-> @[g]]]
  /\ UNCHANGED <<sessions, copies, runs, pc, work, external, history>>

(* shutil.rmtree of the staging directory, one entry at a time; entries    *)
(* another commit deletes meanwhile are no error.                          *)
RmtreeStep(u, f) ==
  /\ pc[u] = "clean"
  /\ f \in DOMAIN Staged(u)
  /\ staging' = [staging EXCEPT ![work[u].session] =
       [g \in DOMAIN @ \ {f} |-> @[g]]]
  /\ UNCHANGED <<sessions, copies, runs, pc, work, external, history>>

(* Variant of PopSession: the entry of _IMPORTS is left to expire.         *)
LeaveSession(u) ==
  /\ pc[u] = "clean"
  /\ Staged(u) = Empty
  /\ Return(u)
  /\ UNCHANGED <<sessions, staging, copies, runs, external, history>>

PopSession(u) ==
  /\ pc[u] = "clean"
  /\ Staged(u) = Empty
  /\ imports' = imports \ {work[u].session}
  /\ Return(u)
  /\ UNCHANGED <<opened, old, staging, copies, runs, external, history>>

-----------------------------------------------------------------------------
(* The bundled sample.                                                     *)

Samples == {r \in Run : runs[r] = Sample}

(* The request for sample run r begins while others are under way.         *)
Overlap(r) ==
  /\ overlapped' = overlapped \cup {{r, work[v].run} : v \in {w \in Client : pc[w] = "sample"}}
  /\ UNCHANGED raced

(* Variant of LookUpSample: the list is not filtered by its sample flag,   *)
(* and finds nothing.                                                      *)
LoadSampleAgain(u, r) ==
  /\ pc[u] = "idle"
  /\ FreshRun(r)
  /\ Enter(u, "sample", [op |-> "sample", run |-> r])
  /\ Overlap(r)
  /\ UNCHANGED <<sessions, staging, copies, runs, external>>

(* An existing sample is shown, and nothing changes.                       *)
LookUpSample(u, r) ==
  /\ pc[u] = "idle"
  /\ Samples = {}
  /\ FreshRun(r)
  /\ Enter(u, "sample", [op |-> "sample", run |-> r])
  /\ Overlap(r)
  /\ UNCHANGED <<sessions, staging, copies, runs, external>>

InsertSample(u) ==
  /\ pc[u] = "sample"
  /\ runs' = [runs EXCEPT ![work[u].run] = Sample]
  /\ Return(u)
  /\ UNCHANGED <<sessions, staging, copies, external, history>>

(* A sample asset is missing or damaged, or the database refuses.          *)
SampleFails(u) ==
  /\ pc[u] = "sample"
  /\ Return(u)
  /\ overlapped' = {pair \in overlapped : work[u].run \notin pair}
  /\ UNCHANGED <<sessions, staging, copies, runs, external, raced>>

-----------------------------------------------------------------------------
(* The surroundings.                                                       *)

(* The process ends; it comes back with an empty _IMPORTS.                 *)
Restart ==
  /\ restarts < MaxRestarts
  /\ restarts' = restarts + 1
  /\ imports' = {}
  /\ pc' = [u \in Client |-> "idle"]
  /\ work' = [u \in Client |-> Idle]
  /\ overlapped' = {pair \in overlapped : pair \subseteq Samples}
  /\ UNCHANGED <<opened, old, staging, copies, runs, changes, raced>>

(* Something outside the program rewrites a staged file.                   *)
ChangeStaged(s, f) ==
  /\ changes < MaxChanges
  /\ s \in imports
  /\ f \in DOMAIN staging[s]
  /\ changes' = changes + 1
  /\ staging' = [staging EXCEPT ![s][f] = "changed"]
  /\ raced' = raced \cup
       {<<work[u].run, f>> : u \in {v \in Client :
          pc[v] = "copy" /\ work[v].session = s /\ ThisFile(v) = f}}
  /\ UNCHANGED <<sessions, copies, runs, pc, work, restarts, overlapped>>

-----------------------------------------------------------------------------
Proceed(u) ==
  \/ RefuseArchive(u)
  \/ Register(u)
  \/ HashFile(u)
  \/ RefuseFile(u)
  \/ CopyFile(u)
  \/ CopyFails(u)
  \/ AnalysisFails(u)
  \/ SaveRun(u)
  \/ \E f \in File : RmtreeStep(u, f)
  \/ PopSession(u)
  \/ InsertSample(u)
  \/ SampleFails(u)

Request(u) ==
  \/ \E s \in Session : Extract(u, s)
  \/ \E s \in Session, c \in Candidate, r \in Run : BeginCommit(u, s, c, r)
  \/ \E r \in Run : LookUpSample(u, r)

Next ==
  \/ \E u \in Client : Request(u) \/ Proceed(u)
  \/ \E s \in Session : Age(s)
  \/ Restart
  \/ \E s \in Session, f \in File : ChangeStaged(s, f)

(* A request that began is carried on by its thread; that anyone sends     *)
(* one, that time passes or that the process ends is not assumed.          *)
Spec ==
  /\ Init
  /\ [][Next]_vars
  /\ \A u \in Client : WF_vars(Proceed(u))

-----------------------------------------------------------------------------
(* Properties.                                                             *)

IsImported(r) == runs[r] \notin {Nothing, Sample}

Place == {"idle", "staged", "hash", "copy", "analyze", "clean", "sample"}
Validating == [op : {"validate"}, session : Session]
Committing == [op : {"commit"}, session : Session, candidate : Candidate,
               run : Run, at : Nat]
Sampling == [op : {"sample"}, run : Run]
Local == {Idle} \cup Validating \cup Committing \cup Sampling

(* Which local variables go with which place in a request; the file a      *)
(* commit is at is one of its candidate's.                                 *)
CallAt(u) ==
  /\ pc[u] = "idle" => work[u] = Idle
  /\ pc[u] = "staged" => work[u].op = "validate"
  /\ pc[u] = "sample" => work[u].op = "sample"
  /\ pc[u] \in {"hash", "copy", "analyze", "clean"} =>
       work[u].op = "commit" /\ work[u].at \in DOMAIN FilesOf[work[u].candidate]

(* Types; every request has the local variables of its place.              *)
TypeOK ==
  /\ imports \subseteq Session
  /\ old \subseteq Session
  /\ opened \subseteq Session
  /\ staging \in [Session -> Directory]
  /\ copies \in [Run -> Directory \cup {Nothing}]
  /\ runs \in [Run -> Imported \cup {Sample, Nothing}]
  /\ pc \in [Client -> Place]
  /\ work \in [Client -> Local]
  /\ restarts \in 0..MaxRestarts
  /\ changes \in 0..MaxChanges
  /\ raced \subseteq Run \X File
  /\ overlapped \subseteq SUBSET Run
  /\ \A u \in Client : CallAt(u)

(* The storage of an imported run holds the files mapped for its candidate *)
(* and no others (docs/run-inbox-and-import.md:7), although commits of one *)
(* session copy files that another of them is deleting.                    *)
EvidenceIsWhole ==
  \A r \in Run : IsImported(r) =>
    copies[r] # Nothing /\ DOMAIN copies[r] = Mapped(runs[r].candidate)

(* Changed evidence is refused (README.md:831): a copy differs from what   *)
(* the preview hashed only if the file changed after the commit hashed it  *)
(* again and before it copied it.                                          *)
EvidenceWasValidated ==
  \A r \in Run : IsImported(r) =>
    \A f \in DOMAIN copies[r] : copies[r][f] = "changed" => <<r, f>> \in raced

(* A saved run keeps its row and its evidence: no failing commit, no       *)
(* cleanup and no crash touches the storage of another run.                *)
EvidenceIsKept ==
  [][\A r \in Run : runs[r] # Nothing =>
       runs'[r] = runs[r] /\ copies'[r] = copies[r]]_vars

Cleaning(s) == {u \in Client : pc[u] = "clean" /\ work[u].session = s}

(* A session that can be committed has all the files of its preview, until *)
(* a commit that has saved its run deletes them: a commit that failed can  *)
(* be sent again.                                                          *)
FailedCommitCanBeRepeated ==
  \A s \in imports : Cleaning(s) = {} => DOMAIN staging[s] = File

(* A session is offered again after a run was saved from it only while the *)
(* commit that saved it has not returned: sending a form twice duplicates  *)
(* the run only if the two commits overlap.                                *)
OfferedUntilCommitted ==
  \A s \in imports, r \in Run : IsImported(r) /\ runs[r].session = s =>
    \E u \in Cleaning(s) : work[u].run = r

(* "The sample is loaded once" (tests/integration/test_run_import_flow.py  *)
(* line 38) holds of requests that do not overlap: of two sample runs, the *)
(* requests that made them were at the same time between their look at the *)
(* list of runs and their insert (workspace_api.py, sample_info).          *)
SamplesOnlyFromOverlap ==
  \A r1, r2 \in Samples : r1 # r2 => {r1, r2} \in overlapped

(* A successful commit deletes staging (docs/run-inbox-and-import.md:7),   *)
(* unmapped files included, and the session with it, unless the process    *)
(* ends first.                                                             *)
CommitDeletesStaging ==
  \A s \in Session, n \in 0..MaxRestarts :
    (Cleaning(s) # {} /\ restarts = n) ~>
      (restarts # n \/ (staging[s] = Empty /\ s \notin imports))
=============================================================================
