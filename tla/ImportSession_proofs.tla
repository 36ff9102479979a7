------------------------ MODULE ImportSession_proofs ------------------------
(***************************************************************************)
(* Proofs about ImportSession, for every value of its constants.           *)
(***************************************************************************)
EXTENDS ImportSession, TLAPS

-----------------------------------------------------------------------------
(* Directories.                                                            *)

(* An unpacked archive and an emptied directory.                           *)
LEMMA FullIsDirectory ==
  /\ [f \in File |-> "validated"] \in Directory
  /\ Empty \in Directory
  /\ DOMAIN Empty = {}
<1>1. [f \in File |-> "validated"] \in [File -> Content] /\ File \in SUBSET File
  BY DEF Content
<1>2. Empty \in [{} -> Content] /\ {} \in SUBSET File
  BY DEF Content, Empty
<1> QED
  BY <1>1, <1>2 DEF Directory, Empty

(* What is in a directory.                                                 *)
LEMMA DirectoryHolds ==
  ASSUME NEW dir \in Directory
  PROVE  DOMAIN dir \subseteq File /\ \A f \in DOMAIN dir : dir[f] \in Content
BY DEF Directory

(* A function from some files to contents is a directory.                  *)
LEMMA DirectoryFrom ==
  ASSUME NEW files \in SUBSET File, NEW dir \in [files -> Content]
  PROVE  dir \in Directory
BY DEF Directory

(* A run without a directory is told from one with an empty directory.     *)
LEMMA NothingIsNoDirectory == Nothing \notin Directory
BY ImportAssumption DEF Directory, Content

(* Copying a file into a directory.                                        *)
LEMMA ExtendedIsDirectory ==
  ASSUME NEW dir \in Directory, NEW f \in File, NEW content \in Content
  PROVE  /\ Extended(dir, f, content) \in Directory
         /\ DOMAIN Extended(dir, f, content) = DOMAIN dir \cup {f}
         /\ \A g \in DOMAIN dir \cup {f} :
              Extended(dir, f, content)[g] = IF g = f THEN content ELSE dir[g]
<1>1. Extended(dir, f, content) \in [DOMAIN dir \cup {f} -> Content]
  BY DirectoryHolds DEF Extended
<1>2. DOMAIN dir \cup {f} \in SUBSET File
  BY DirectoryHolds
<1> QED
  BY <1>1, <1>2, DirectoryFrom DEF Extended

(* Deleting a file.                                                        *)
LEMMA SmallerIsDirectory ==
  ASSUME NEW dir \in Directory, NEW f \in File
  PROVE  [g \in DOMAIN dir \ {f} |-> dir[g]] \in Directory
<1>1. [g \in DOMAIN dir \ {f} |-> dir[g]] \in [DOMAIN dir \ {f} -> Content]
  BY DirectoryHolds
<1>2. DOMAIN dir \ {f} \in SUBSET File
  BY DirectoryHolds
<1> QED
  BY <1>1, <1>2, DirectoryFrom

(* Rewriting a file.                                                       *)
LEMMA ChangedIsDirectory ==
  ASSUME NEW dir \in Directory, NEW f \in DOMAIN dir
  PROVE  [dir EXCEPT ![f] = "changed"] \in Directory
<1>1. dir \in [DOMAIN dir -> Content] /\ DOMAIN dir \in SUBSET File
  BY DEF Directory
<1>2. [dir EXCEPT ![f] = "changed"] \in [DOMAIN dir -> Content]
  BY <1>1 DEF Content
<1> QED
  BY <1>1, <1>2, DirectoryFrom

-----------------------------------------------------------------------------
(* A request that goes on with locals that fit its new place leaves the    *)
(* others where they are.                                                  *)
LEMMA EnterKeepsCalls ==
  ASSUME TypeOK, NEW u \in Client, NEW place \in Place, NEW locals \in Local,
         Enter(u, place, locals), CallAt(u)'
  PROVE  /\ pc' \in [Client -> Place]
         /\ work' \in [Client -> Local]
         /\ \A v \in Client : CallAt(v)'
<1> USE DEF TypeOK, Enter
<1>1. pc' \in [Client -> Place] /\ work' \in [Client -> Local]
  OBVIOUS
<1>2. ASSUME NEW v \in Client, v # u
      PROVE  CallAt(v)'
  <2>1. pc'[v] = pc[v] /\ work'[v] = work[v] /\ CallAt(v)
    BY <1>2
  <2> QED
    BY <2>1 DEF CallAt
<1> QED
  BY <1>1, <1>2

(* So does a request that returns.                                         *)
LEMMA ReturnKeepsCalls ==
  ASSUME TypeOK, NEW u \in Client, Return(u)
  PROVE  /\ pc' \in [Client -> Place]
         /\ work' \in [Client -> Local]
         /\ \A v \in Client : CallAt(v)'
<1>1. Idle \in Local /\ "idle" \in Place
  BY DEF Local, Place
<1>2. pc'[u] = "idle" /\ work'[u] = Idle
  BY DEF Return, Enter, TypeOK
<1>3. CallAt(u)'
  BY <1>2 DEF CallAt
<1> QED
  BY <1>1, <1>3, EnterKeepsCalls DEF Return

(* A request that only moves on keeps its locals.                          *)
LEMMA MoveKeepsCalls ==
  ASSUME TypeOK, NEW u \in Client, NEW place \in {"copy", "clean"},
         pc[u] \in {"hash", "analyze"},
         pc' = [pc EXCEPT ![u] = place], UNCHANGED work
  PROVE  /\ pc' \in [Client -> Place]
         /\ work' \in [Client -> Local]
         /\ \A v \in Client : CallAt(v)'
BY DEF TypeOK, CallAt, Place

(* What a commit is working on.                                            *)
LEMMA CommitLocals ==
  ASSUME TypeOK, NEW u \in Client, pc[u] \in {"hash", "copy", "analyze", "clean"}
  PROVE  /\ work[u] \in Committing
         /\ work[u].session \in Session
         /\ work[u].candidate \in Candidate
         /\ work[u].run \in Run
         /\ work[u].at \in 1..Len(FilesOf[work[u].candidate])
         /\ ThisFile(u) \in File
<1>1. work[u] \in Committing /\ work[u].at \in DOMAIN FilesOf[work[u].candidate]
  BY DEF TypeOK, CallAt, Local, Idle, Validating, Sampling, Committing
<1>2. work[u].candidate \in Candidate
  BY <1>1 DEF Committing
<1>3. FilesOf[work[u].candidate] \in Seq(File)
  BY <1>2, ImportAssumption
<1> QED
  BY <1>1, <1>2, <1>3 DEF Committing, ThisFile

-----------------------------------------------------------------------------
(* Types.                                                                  *)

(* A failing commit keeps the types.                                       *)
LEMMA AbandonKeepsTypes ==
  ASSUME TypeOK, NEW u \in Client, Abandon(u)
  PROVE  TypeOK'
<1>1. /\ copies' \in [Run -> Directory \cup {Nothing}]
      /\ raced' \subseteq Run \X File
  BY DEF Abandon, TypeOK
<1>2. /\ pc' \in [Client -> Place]
      /\ work' \in [Client -> Local]
      /\ \A v \in Client : CallAt(v)'
  BY ReturnKeepsCalls DEF Abandon
<1> QED
  BY <1>1, <1>2 DEF Abandon, sessions, external, history, TypeOK

(* So does every step of a request; a commit that copies has a directory   *)
(* to copy to.                                                             *)
LEMMA ProceedKeepsTypes ==
  ASSUME TypeOK, NEW u \in Client, Proceed(u),
         pc[u] = "copy" => copies[work[u].run] # Nothing
  PROVE  TypeOK'
<1> USE DEF sessions, external, history
<1> DEFINE Calls == /\ pc' \in [Client -> Place]
                    /\ work' \in [Client -> Local]
                    /\ \A v \in Client : CallAt(v)'
<1>1. CASE RefuseArchive(u)
  <2>1. staging' \in [Session -> Directory]
    BY <1>1, FullIsDirectory DEF RefuseArchive, TypeOK
  <2>2. Calls
    BY <1>1, ReturnKeepsCalls DEF RefuseArchive
  <2> QED
    BY <1>1, <2>1, <2>2 DEF RefuseArchive, TypeOK
<1>2. CASE Register(u)
  <2>1. CallAt(u) /\ work[u] \in Validating
    BY <1>2 DEF Register, TypeOK, CallAt, Local, Idle, Validating, Committing, Sampling
  <2>2. Calls
    BY <1>2, ReturnKeepsCalls DEF Register
  <2> QED
    BY <1>2, <2>1, <2>2 DEF Register, TypeOK, Validating
<1>3. CASE HashFile(u)
  <2>1. Calls
    BY <1>3, MoveKeepsCalls DEF HashFile
  <2> QED
    BY <1>3, <2>1 DEF HashFile, TypeOK
<1>4. CASE RefuseFile(u)
  BY <1>4, AbandonKeepsTypes DEF RefuseFile
<1>5. CASE CopyFile(u)
  <2>1. PICK place \in {"analyze", "hash"}, locals \in Committing :
          /\ locals.at \in DOMAIN FilesOf[locals.candidate]
          /\ Enter(u, place, locals)
    <3>1. work[u] \in Committing /\ work[u].at \in 1..Len(FilesOf[work[u].candidate])
      BY <1>5, CommitLocals DEF CopyFile
    <3>2. FilesOf[work[u].candidate] \in Seq(File)
      BY <3>1, ImportAssumption DEF Committing
    <3>3. ASSUME NEW next \in DOMAIN FilesOf[work[u].candidate]
          PROVE  /\ [work[u] EXCEPT !.at = next] \in Committing
                 /\ [work[u] EXCEPT !.at = next].at = next
                 /\ [work[u] EXCEPT !.at = next].candidate = work[u].candidate
      BY <3>1, <3>2 DEF Committing
    <3>4. CASE work[u].at = Len(FilesOf[work[u].candidate])
      <4>1. Enter(u, "analyze", [work[u] EXCEPT !.at = work[u].at])
        BY <1>5, <3>4 DEF CopyFile
      <4>2. work[u].at \in DOMAIN FilesOf[work[u].candidate]
        BY <3>1, <3>2
      <4> QED
        BY <3>3, <4>1, <4>2
    <3>5. CASE work[u].at # Len(FilesOf[work[u].candidate])
      <4>1. Enter(u, "hash", [work[u] EXCEPT !.at = work[u].at + 1])
        BY <1>5, <3>5 DEF CopyFile
      <4>2. work[u].at + 1 \in DOMAIN FilesOf[work[u].candidate]
        BY <3>1, <3>2, <3>5
      <4> QED
        BY <3>3, <4>1, <4>2
    <3> QED
      BY <3>4, <3>5
  <2>2. CallAt(u)'
    BY <2>1 DEF Enter, CallAt, Committing, TypeOK
  <2>3. Calls
    BY <2>1, <2>2, EnterKeepsCalls DEF Place, Local
  <2>4. copies' \in [Run -> Directory \cup {Nothing}]
    <3>1. /\ work[u].run \in Run /\ ThisFile(u) \in File
          /\ copies[work[u].run] \in Directory /\ Staged(u) \in Directory
      BY <1>5, CommitLocals DEF CopyFile, TypeOK, Staged
    <3>2. Extended(copies[work[u].run], ThisFile(u), Staged(u)[ThisFile(u)]) \in Directory
      BY <1>5, <3>1, DirectoryHolds, ExtendedIsDirectory DEF CopyFile
    <3> QED
      BY <1>5, <3>1, <3>2 DEF CopyFile, TypeOK
  <2> QED
    BY <1>5, <2>3, <2>4 DEF CopyFile, TypeOK
<1>6. CASE CopyFails(u)
  BY <1>6, AbandonKeepsTypes DEF CopyFails
<1>7. CASE AnalysisFails(u)
  <2>1. Calls
    BY <1>7, ReturnKeepsCalls DEF AnalysisFails
  <2> QED
    BY <1>7, <2>1 DEF AnalysisFails, TypeOK
<1>8. CASE SaveRun(u)
  <2>1. runs' \in [Run -> Imported \cup {Sample, Nothing}]
    BY <1>8, CommitLocals DEF SaveRun, TypeOK, Imported
  <2>2. Calls
    BY <1>8, MoveKeepsCalls DEF SaveRun
  <2> QED
    BY <1>8, <2>1, <2>2 DEF SaveRun, TypeOK
<1>9. CASE \E f \in File : RmtreeStep(u, f)
  <2>1. PICK f \in File : RmtreeStep(u, f)
    BY <1>9
  <2>2. staging' \in [Session -> Directory]
    <3>1. staging[work[u].session] \in Directory
      BY <2>1, CommitLocals DEF RmtreeStep, TypeOK
    <3>2. staging' = [staging EXCEPT ![work[u].session] =
            [g \in DOMAIN staging[work[u].session] \ {f} |-> staging[work[u].session][g]]]
      BY <2>1 DEF RmtreeStep
    <3> QED
      BY <3>1, <3>2, SmallerIsDirectory DEF TypeOK
  <2> QED
    BY <2>1, <2>2 DEF RmtreeStep, TypeOK, CallAt
<1>10. CASE PopSession(u)
  <2>1. Calls
    BY <1>10, ReturnKeepsCalls DEF PopSession
  <2> QED
    BY <1>10, <2>1 DEF PopSession, TypeOK
<1>11. CASE InsertSample(u)
  <2>1. Calls
    BY <1>11, ReturnKeepsCalls DEF InsertSample
  <2> QED
    BY <1>11, <2>1 DEF InsertSample, TypeOK
<1>12. CASE SampleFails(u)
  <2>1. Calls
    BY <1>12, ReturnKeepsCalls DEF SampleFails
  <2> QED
    BY <1>12, <2>1 DEF SampleFails, TypeOK
<1> QED
  BY <1>1, <1>2, <1>3, <1>4, <1>5, <1>6, <1>7, <1>8, <1>9, <1>10, <1>11, <1>12 DEF Proceed

(* And every step of the system.                                           *)
LEMMA StepKeepsTypes ==
  ASSUME TypeOK, [Next]_vars,
         \A u \in Client : pc[u] = "copy" => copies[work[u].run] # Nothing
  PROVE  TypeOK'
<1> USE DEF sessions, external, history
<1>1. ASSUME NEW u \in Client, Proceed(u)
      PROVE  TypeOK'
  BY <1>1, ProceedKeepsTypes
<1>2. ASSUME NEW u \in Client, NEW s \in Session, Extract(u, s)
      PROVE  TypeOK'
  <2>1. staging' \in [Session -> Directory]
    BY <1>2, FullIsDirectory DEF Extract, TypeOK
  <2>2. PICK locals \in Local :
          Enter(u, "staged", locals) /\ locals.op = "validate"
    BY <1>2 DEF Extract, Local, Validating
  <2>3. CallAt(u)'
    BY <2>2 DEF Enter, CallAt, TypeOK
  <2>4. /\ pc' \in [Client -> Place]
        /\ work' \in [Client -> Local]
        /\ \A v \in Client : CallAt(v)'
    BY <2>2, <2>3, EnterKeepsCalls DEF Place
  <2> QED
    BY <1>2, <2>1, <2>4 DEF Extract, TypeOK
<1>3. ASSUME NEW u \in Client, NEW s \in Session, NEW c \in Candidate, NEW r \in Run,
             BeginCommit(u, s, c, r)
      PROVE  TypeOK'
  <2>1. copies' \in [Run -> Directory \cup {Nothing}]
    BY <1>3, FullIsDirectory DEF BeginCommit, TypeOK
  <2>2. PICK locals \in Committing :
          Enter(u, "hash", locals) /\ locals.candidate = c /\ locals.at = 1
    BY <1>3 DEF BeginCommit, Committing
  <2>3. 1 \in DOMAIN FilesOf[c]
    BY ImportAssumption
  <2>4. CallAt(u)'
    BY <2>2, <2>3 DEF Enter, CallAt, TypeOK, Committing
  <2>5. /\ pc' \in [Client -> Place]
        /\ work' \in [Client -> Local]
        /\ \A v \in Client : CallAt(v)'
    BY <2>2, <2>4, EnterKeepsCalls DEF Place, Local
  <2> QED
    BY <1>3, <2>1, <2>5 DEF BeginCommit, TypeOK
<1>4. ASSUME NEW u \in Client, NEW r \in Run, LookUpSample(u, r)
      PROVE  TypeOK'
  <2>1. PICK locals \in Local :
          Enter(u, "sample", locals) /\ locals.op = "sample"
    BY <1>4 DEF LookUpSample, Local, Sampling
  <2>2. CallAt(u)'
    BY <2>1 DEF Enter, CallAt, TypeOK
  <2>3. /\ pc' \in [Client -> Place]
        /\ work' \in [Client -> Local]
        /\ \A v \in Client : CallAt(v)'
    BY <2>1, <2>2, EnterKeepsCalls DEF Place
  <2>4. \A v \in Client : pc[v] = "sample" => work[v].run \in Run
    BY DEF TypeOK, CallAt, Local, Idle, Validating, Committing, Sampling
  <2>5. overlapped' \subseteq SUBSET Run /\ raced' \subseteq Run \X File
    BY <1>4, <2>4 DEF LookUpSample, Overlap, TypeOK
  <2> QED
    BY <1>4, <2>3, <2>5 DEF LookUpSample, TypeOK
<1>5. ASSUME NEW s \in Session, Age(s)
      PROVE  TypeOK'
  BY <1>5 DEF Age, TypeOK, CallAt
<1>6. CASE Restart
  BY <1>6, ImportAssumption DEF Restart, TypeOK, CallAt, Place, Local
<1>7. ASSUME NEW s \in Session, NEW f \in File, ChangeStaged(s, f)
      PROVE  TypeOK'
  <2>1. staging' \in [Session -> Directory]
    <3>1. staging[s] \in Directory /\ f \in DOMAIN staging[s]
      BY <1>7 DEF ChangeStaged, TypeOK
    <3>2. [staging[s] EXCEPT ![f] = "changed"] \in Directory
      BY <3>1, ChangedIsDirectory
    <3> QED
      BY <1>7, <3>2 DEF ChangeStaged, TypeOK
  <2>2. raced' \subseteq Run \X File
    <3>1. \A v \in Client : pc[v] = "copy" => work[v].run \in Run
      BY CommitLocals
    <3> QED
      BY <1>7, <3>1 DEF ChangeStaged, TypeOK
  <2>3. changes' \in 0..MaxChanges
    BY <1>7, ImportAssumption DEF ChangeStaged, TypeOK
  <2> QED
    BY <1>7, <2>1, <2>2, <2>3 DEF ChangeStaged, TypeOK, CallAt
<1>8. CASE UNCHANGED vars
  BY <1>8 DEF vars, TypeOK, CallAt
<1> QED
  BY <1>1, <1>2, <1>3, <1>4, <1>5, <1>6, <1>7, <1>8 DEF Next, Request

-----------------------------------------------------------------------------
(* The inductive invariant.                                                *)

Busy == {"hash", "copy", "analyze"}

CopiedBefore(u) == {FilesOf[work[u].candidate][i] : i \in 1..(work[u].at - 1)}

(* What a request may rely on about the run it is making: nobody else has  *)
(* saved it, and its copies are those of the files it has been through.    *)
RunIsMine(u) ==
  /\ pc[u] \in Busy \cup {"sample"} => runs[work[u].run] = Nothing
  /\ pc[u] \in Busy =>
       /\ copies[work[u].run] # Nothing
       /\ \A f \in DOMAIN copies[work[u].run] :
            copies[work[u].run][f] = "changed" => <<work[u].run, f>> \in raced
  /\ pc[u] \in {"hash", "copy"} => DOMAIN copies[work[u].run] = CopiedBefore(u)
  /\ pc[u] = "analyze" => DOMAIN copies[work[u].run] = Mapped(work[u].candidate)
  /\ pc[u] = "clean" =>
       runs[work[u].run] = [session |-> work[u].session, candidate |-> work[u].candidate]
  /\ pc[u] = "copy" /\ ThisFile(u) \in DOMAIN Staged(u)
       /\ Staged(u)[ThisFile(u)] = "changed"
     => <<work[u].run, ThisFile(u)>> \in raced

NoRunOf(s) == \A r \in Run : IsImported(r) => runs[r].session # s

(* About its session: a request that is still validating is alone with it. *)
SessionIsMine(u) ==
  /\ pc[u] \in Busy \cup {"staged", "clean"} => work[u].session \in opened
  /\ pc[u] = "staged" =>
       /\ work[u].session \notin imports
       /\ DOMAIN staging[work[u].session] = File
       /\ NoRunOf(work[u].session)

Apart(u, v) ==
  /\ pc[u] \in Busy \cup {"clean", "sample"} /\ pc[v] \in Busy \cup {"clean", "sample"}
       => work[u].run # work[v].run
  /\ pc[u] = "staged" /\ pc[v] \in Busy \cup {"staged", "clean"}
       => work[u].session # work[v].session

Unopened == \A s \in Session \ opened : s \notin imports /\ NoRunOf(s)

Inv ==
  /\ TypeOK
  /\ \A u \in Client : RunIsMine(u)
  /\ \A u \in Client : SessionIsMine(u)
  /\ \A u, v \in Client : u # v => Apart(u, v)
  /\ Unopened
  /\ EvidenceIsWhole
  /\ EvidenceWasValidated
  /\ FailedCommitCanBeRepeated
  /\ OfferedUntilCommitted

-----------------------------------------------------------------------------
(* The parts of the invariant, one at a time.                              *)

(* The run id a request has drawn.                                         *)
LEMMA RunOfWork ==
  ASSUME TypeOK, NEW v \in Client, pc[v] \in Busy \cup {"sample", "clean"}
  PROVE  work[v].run \in Run
<1>1. CASE pc[v] = "sample"
  BY <1>1 DEF TypeOK, CallAt, Local, Idle, Validating, Committing, Sampling
<1> QED
  BY <1>1, CommitLocals DEF Busy

(* Which requests draw one.                                                *)
LEMMA OpOfWork ==
  ASSUME TypeOK, NEW v \in Client, pc[v] \in Busy \cup {"sample", "clean"}
  PROVE  work[v].op \in {"commit", "sample"}
BY DEF TypeOK, CallAt, Busy

(* Copying a file: one more has been copied, or all have.                  *)
LEMMA CopyKeepsItsRun ==
  ASSUME Inv, NEW u \in Client, CopyFile(u)
  PROVE  RunIsMine(u)'
<1> DEFINE run == work[u].run
           f == ThisFile(u)
           content == Staged(u)[f]
           cand == work[u].candidate
           at == work[u].at
<1>1. /\ TypeOK /\ RunIsMine(u) /\ pc[u] = "copy" /\ f \in DOMAIN Staged(u)
      /\ work[u] \in Committing /\ run \in Run /\ f \in File /\ cand \in Candidate
      /\ at \in 1..Len(FilesOf[cand]) /\ FilesOf[cand] \in Seq(File)
      /\ work[u].session \in Session
  BY CommitLocals, ImportAssumption DEF Inv, CopyFile
<1>2. /\ copies[run] \in Directory /\ Staged(u) \in Directory
      /\ content \in Content
  BY <1>1, DirectoryHolds DEF TypeOK, RunIsMine, Busy, Staged
<1>3. /\ copies'[run] = Extended(copies[run], f, content)
      /\ runs' = runs /\ raced' = raced /\ staging' = staging
  BY <1>1 DEF CopyFile, TypeOK, sessions, external, history
<1>4. /\ DOMAIN copies'[run] = DOMAIN copies[run] \cup {f}
      /\ \A g \in DOMAIN copies'[run] :
           copies'[run][g] = IF g = f THEN content ELSE copies[run][g]
      /\ copies'[run] \in Directory
  <2>1. /\ Extended(copies[run], f, content) \in Directory
        /\ DOMAIN Extended(copies[run], f, content) = DOMAIN copies[run] \cup {f}
        /\ \A g \in DOMAIN copies[run] \cup {f} :
             Extended(copies[run], f, content)[g] = IF g = f THEN content ELSE copies[run][g]
    <3> HIDE DEF run, f, content
    <3> QED
      BY <1>1, <1>2, ExtendedIsDirectory
  <2> HIDE DEF run, f, content
  <2> QED
    BY <1>3, <2>1
<1>5. \A g \in DOMAIN copies'[run] : copies'[run][g] = "changed" => <<run, g>> \in raced'
  BY <1>1, <1>3, <1>4 DEF RunIsMine, Busy
<1>6. DOMAIN copies'[run] = {FilesOf[cand][i] : i \in 1..at}
  <2>1. DOMAIN copies[run] = {FilesOf[cand][i] : i \in 1..(at - 1)} /\ f = FilesOf[cand][at]
    BY <1>1 DEF RunIsMine, CopiedBefore, ThisFile
  <2> QED
    BY <1>1, <1>4, <2>1
<1>7. runs'[run] = Nothing /\ copies'[run] # Nothing
  BY <1>1, <1>3, <1>4, NothingIsNoDirectory DEF RunIsMine, Busy
<1>8. CASE at = Len(FilesOf[cand])
  <2>1. pc'[u] = "analyze" /\ work'[u] = work[u]
    BY <1>1, <1>8 DEF CopyFile, Enter, TypeOK, Committing
  <2>2. DOMAIN copies'[run] = Mapped(cand)
    BY <1>1, <1>6, <1>8 DEF Mapped
  <2> HIDE DEF run, cand
  <2> QED
    BY <1>5, <1>7, <2>1, <2>2 DEF RunIsMine, Busy, run, cand
<1>9. CASE at # Len(FilesOf[cand])
  <2>1. pc'[u] = "hash" /\ work'[u] = [work[u] EXCEPT !.at = at + 1]
    BY <1>1, <1>9 DEF CopyFile, Enter, TypeOK
  <2>2. work'[u].run = run /\ work'[u].candidate = cand /\ work'[u].at = at + 1
    BY <1>1, <2>1 DEF Committing
  <2>3. CopiedBefore(u)' = {FilesOf[cand][i] : i \in 1..at}
    BY <1>1, <2>2 DEF CopiedBefore
  <2> QED
    BY <1>5, <1>6, <1>7, <2>1, <2>2, <2>3 DEF RunIsMine, Busy
<1> QED
  BY <1>8, <1>9

(* A request relies on its own run and on what changed under it only.      *)
LEMMA OtherKeepsItsRun ==
  ASSUME NEW v \in Client, RunIsMine(v), pc'[v] = pc[v], work'[v] = work[v],
         pc[v] \in Busy \cup {"sample", "clean"} =>
           runs'[work[v].run] = runs[work[v].run],
         pc[v] \in Busy =>
           /\ copies'[work[v].run] = copies[work[v].run]
           /\ \A f : <<work[v].run, f>> \in raced => <<work[v].run, f>> \in raced',
         pc[v] = "copy" /\ ThisFile(v) \in DOMAIN staging'[work[v].session]
             /\ staging'[work[v].session][ThisFile(v)] = "changed"
           => <<work[v].run, ThisFile(v)>> \in raced'
  PROVE  RunIsMine(v)'
<1>1. /\ ThisFile(v)' = ThisFile(v)
      /\ CopiedBefore(v)' = CopiedBefore(v)
      /\ Staged(v)' = staging'[work[v].session]
  BY DEF ThisFile, CopiedBefore, Staged
<1> HIDE DEF ThisFile, CopiedBefore, Staged
<1> QED
  BY <1>1 DEF RunIsMine, Busy

(* A request that has drawn no run relies on none.                         *)
LEMMA IdleHasNoRun ==
  ASSUME NEW u \in Client, pc'[u] \in {"idle", "staged"}
  PROVE  RunIsMine(u)'
BY DEF RunIsMine, Busy

(* What a file under copy may hold, now.                                   *)
LEMMA UnderCopy ==
  ASSUME Inv, NEW v \in Client, pc[v] = "copy",
         ThisFile(v) \in DOMAIN staging[work[v].session],
         staging[work[v].session][ThisFile(v)] = "changed"
  PROVE  <<work[v].run, ThisFile(v)>> \in raced
BY DEF Inv, RunIsMine, Staged

(* Every step leaves every request what it relies on about its run.        *)
LEMMA RunsStep ==
  ASSUME Inv, [Next]_vars, NEW v \in Client
  PROVE  RunIsMine(v)'
<1> USE DEF sessions, external, history
<1>0. RunIsMine(v) /\ TypeOK /\ SessionIsMine(v) /\ CallAt(v)
  BY DEF Inv, TypeOK
<1> DEFINE Mine == pc[v] \in Busy \cup {"sample", "clean"}
<1>1. ASSUME NEW u \in Client, RefuseArchive(u)
      PROVE  RunIsMine(v)'
  <2>1. CASE v = u
    BY <1>0, <1>1, <2>1, IdleHasNoRun DEF RefuseArchive, Return, Enter, TypeOK
  <2>2. CASE v # u
    <3>1. pc'[v] = pc[v] /\ work'[v] = work[v]
      BY <1>0, <1>1, <2>2 DEF RefuseArchive, Return, Enter, TypeOK
    <3>2. pc[v] = "copy" => work[v].session # work[u].session
      BY <1>1, <2>2 DEF RefuseArchive, Inv, Apart, Busy
    <3>3. pc[v] = "copy" => staging'[work[v].session] = staging[work[v].session]
      BY <1>0, <1>1, <3>2, CommitLocals DEF RefuseArchive, TypeOK
    <3> QED
      BY <1>0, <1>1, <3>1, <3>3, UnderCopy, OtherKeepsItsRun DEF RefuseArchive
  <2> QED
    BY <2>1, <2>2
<1>2. ASSUME NEW u \in Client, Register(u)
      PROVE  RunIsMine(v)'
  <2>1. CASE v = u
    BY <1>0, <1>2, <2>1, IdleHasNoRun DEF Register, Return, Enter, TypeOK
  <2>2. CASE v # u
    <3>1. pc'[v] = pc[v] /\ work'[v] = work[v]
      BY <1>0, <1>2, <2>2 DEF Register, Return, Enter, TypeOK
    <3> QED
      BY <1>0, <1>2, <3>1, UnderCopy, OtherKeepsItsRun DEF Register
  <2> QED
    BY <2>1, <2>2
<1>3. ASSUME NEW u \in Client, AnalysisFails(u)
      PROVE  RunIsMine(v)'
  <2>1. CASE v = u
    BY <1>0, <1>3, <2>1, IdleHasNoRun DEF AnalysisFails, Return, Enter, TypeOK
  <2>2. CASE v # u
    <3>1. pc'[v] = pc[v] /\ work'[v] = work[v]
      BY <1>0, <1>3, <2>2 DEF AnalysisFails, Return, Enter, TypeOK
    <3> QED
      BY <1>0, <1>3, <3>1, UnderCopy, OtherKeepsItsRun DEF AnalysisFails
  <2> QED
    BY <2>1, <2>2
<1>4. ASSUME NEW u \in Client, PopSession(u)
      PROVE  RunIsMine(v)'
  <2>1. CASE v = u
    BY <1>0, <1>4, <2>1, IdleHasNoRun DEF PopSession, Return, Enter, TypeOK
  <2>2. CASE v # u
    <3>1. pc'[v] = pc[v] /\ work'[v] = work[v]
      BY <1>0, <1>4, <2>2 DEF PopSession, Return, Enter, TypeOK
    <3> QED
      BY <1>0, <1>4, <3>1, UnderCopy, OtherKeepsItsRun DEF PopSession
  <2> QED
    BY <2>1, <2>2
<1>5. ASSUME NEW u \in Client, SampleFails(u)
      PROVE  RunIsMine(v)'
  <2>1. CASE v = u
    BY <1>0, <1>5, <2>1, IdleHasNoRun DEF SampleFails, Return, Enter, TypeOK
  <2>2. CASE v # u
    <3>1. pc'[v] = pc[v] /\ work'[v] = work[v]
      BY <1>0, <1>5, <2>2 DEF SampleFails, Return, Enter, TypeOK
    <3> QED
      BY <1>0, <1>5, <3>1, UnderCopy, OtherKeepsItsRun DEF SampleFails
  <2> QED
    BY <2>1, <2>2
<1>6. ASSUME NEW u \in Client, Abandon(u), pc[u] \in Busy
      PROVE  RunIsMine(v)'
  <2>1. CASE v = u
    BY <1>0, <1>6, <2>1, IdleHasNoRun DEF Abandon, Return, Enter, TypeOK
  <2>2. CASE v # u
    <3>1. pc'[v] = pc[v] /\ work'[v] = work[v]
      BY <1>0, <1>6, <2>2 DEF Abandon, Return, Enter, TypeOK
    <3>2. Mine => work[v].run # work[u].run
      BY <1>6, <2>2 DEF Inv, Apart
    <3>3. Mine => /\ copies'[work[v].run] = copies[work[v].run]
                  /\ \A f : <<work[v].run, f>> \in raced => <<work[v].run, f>> \in raced'
      BY <1>0, <1>6, <3>2, RunOfWork DEF Abandon, TypeOK
    <3> QED
      BY <1>0, <1>6, <3>1, <3>3, UnderCopy, OtherKeepsItsRun DEF Abandon, Busy
  <2> QED
    BY <2>1, <2>2
<1>7. ASSUME NEW u \in Client, HashFile(u)
      PROVE  RunIsMine(v)'
  <2>1. CASE v = u
    <3>1. pc[u] = "hash" /\ pc'[u] = "copy" /\ work' = work /\ staging' = staging
      BY <1>0, <1>7 DEF HashFile, TypeOK
    <3>2. ThisFile(u)' = ThisFile(u) /\ Staged(u)' = Staged(u) /\ CopiedBefore(u)' = CopiedBefore(u)
      BY <3>1 DEF ThisFile, Staged, CopiedBefore
    <3>3. Staged(u)[ThisFile(u)] # "changed"
      BY <1>7 DEF HashFile, HashMatches
    <3> HIDE DEF ThisFile, Staged, CopiedBefore
    <3> QED
      BY <1>0, <1>7, <2>1, <3>1, <3>2, <3>3 DEF HashFile, RunIsMine, Busy
  <2>2. CASE v # u
    <3>1. pc'[v] = pc[v] /\ work'[v] = work[v]
      BY <1>0, <1>7, <2>2 DEF HashFile, TypeOK
    <3> QED
      BY <1>0, <1>7, <3>1, UnderCopy, OtherKeepsItsRun DEF HashFile
  <2> QED
    BY <2>1, <2>2
<1>8. ASSUME NEW u \in Client, CopyFile(u)
      PROVE  RunIsMine(v)'
  <2>1. CASE v = u
    BY <1>8, <2>1, CopyKeepsItsRun
  <2>2. CASE v # u
    <3>1. pc'[v] = pc[v] /\ work'[v] = work[v]
      BY <1>0, <1>8, <2>2 DEF CopyFile, Enter, TypeOK
    <3>2. Mine => work[v].run # work[u].run
      BY <1>8, <2>2 DEF CopyFile, Inv, Apart, Busy
    <3>3. Mine => copies'[work[v].run] = copies[work[v].run]
      BY <1>0, <1>8, <3>2, RunOfWork DEF CopyFile, TypeOK
    <3> QED
      BY <1>0, <1>8, <3>1, <3>3, UnderCopy, OtherKeepsItsRun DEF CopyFile, Busy
  <2> QED
    BY <2>1, <2>2
<1>9. ASSUME NEW u \in Client, SaveRun(u)
      PROVE  RunIsMine(v)'
  <2>1. CASE v = u
    <3>1. work[u].run \in Run
      BY <1>0, <1>9, CommitLocals DEF SaveRun
    <3>2. pc'[u] = "clean" /\ work'[u] = work[u] /\ runs'[work[u].run] =
            [session |-> work[u].session, candidate |-> work[u].candidate]
      BY <1>0, <1>9, <3>1 DEF SaveRun, TypeOK
    <3> QED
      BY <2>1, <3>2 DEF RunIsMine, Busy
  <2>2. CASE v # u
    <3>1. pc'[v] = pc[v] /\ work'[v] = work[v]
      BY <1>0, <1>9, <2>2 DEF SaveRun, TypeOK
    <3>2. Mine => work[v].run # work[u].run
      BY <1>9, <2>2 DEF SaveRun, Inv, Apart, Busy
    <3>3. Mine => runs'[work[v].run] = runs[work[v].run]
      BY <1>0, <1>9, <3>2, RunOfWork DEF SaveRun, TypeOK
    <3> QED
      BY <1>0, <1>9, <3>1, <3>3, UnderCopy, OtherKeepsItsRun DEF SaveRun
  <2> QED
    BY <2>1, <2>2
<1>10. ASSUME NEW u \in Client, NEW f \in File, RmtreeStep(u, f)
       PROVE  RunIsMine(v)'
  <2>1. ASSUME pc[v] = "copy", ThisFile(v) \in DOMAIN staging'[work[v].session]
        PROVE  /\ ThisFile(v) \in DOMAIN staging[work[v].session]
               /\ staging'[work[v].session][ThisFile(v)] = staging[work[v].session][ThisFile(v)]
    <3>1. work[v].session \in Session /\ work[u].session \in Session
      BY <1>0, <1>10, <2>1, CommitLocals DEF RmtreeStep
    <3>2. staging' = [staging EXCEPT ![work[u].session] =
            [g \in DOMAIN staging[work[u].session] \ {f} |-> staging[work[u].session][g]]]
      BY <1>10 DEF RmtreeStep
    <3> QED
      BY <1>0, <2>1, <3>1, <3>2 DEF TypeOK
  <2> QED
    BY <1>0, <1>10, <2>1, UnderCopy, OtherKeepsItsRun DEF RmtreeStep
<1>11. ASSUME NEW u \in Client, InsertSample(u)
       PROVE  RunIsMine(v)'
  <2>1. CASE v = u
    BY <1>0, <1>11, <2>1, IdleHasNoRun DEF InsertSample, Return, Enter, TypeOK
  <2>2. CASE v # u
    <3>1. pc'[v] = pc[v] /\ work'[v] = work[v]
      BY <1>0, <1>11, <2>2 DEF InsertSample, Return, Enter, TypeOK
    <3>2. Mine => work[v].run # work[u].run
      BY <1>11, <2>2 DEF InsertSample, Inv, Apart, Busy
    <3>3. Mine => runs'[work[v].run] = runs[work[v].run]
      BY <1>0, <1>11, <3>2, RunOfWork DEF InsertSample, TypeOK
    <3> QED
      BY <1>0, <1>11, <3>1, <3>3, UnderCopy, OtherKeepsItsRun DEF InsertSample
  <2> QED
    BY <2>1, <2>2
<1>12. ASSUME NEW u \in Client, NEW s \in Session, Extract(u, s)
       PROVE  RunIsMine(v)'
  <2>1. CASE v = u
    BY <1>0, <1>12, <2>1, IdleHasNoRun DEF Extract, Enter, TypeOK
  <2>2. CASE v # u
    <3>1. pc'[v] = pc[v] /\ work'[v] = work[v]
      BY <1>0, <1>12, <2>2 DEF Extract, Enter, TypeOK
    <3>2. pc[v] = "copy" => work[v].session # s
      BY <1>0, <1>12 DEF Extract, SessionIsMine, Busy
    <3>3. pc[v] = "copy" => staging'[work[v].session] = staging[work[v].session]
      BY <1>0, <1>12, <3>2, CommitLocals DEF Extract, TypeOK
    <3> QED
      BY <1>0, <1>12, <3>1, <3>3, UnderCopy, OtherKeepsItsRun DEF Extract
  <2> QED
    BY <2>1, <2>2
<1>13. ASSUME NEW u \in Client, NEW s \in Session, NEW c \in Candidate, NEW r \in Run,
              BeginCommit(u, s, c, r)
       PROVE  RunIsMine(v)'
  <2>1. CASE v = u
    <3>1. /\ pc'[u] = "hash" /\ work'[u].run = r /\ work'[u].at = 1
          /\ copies'[r] = Empty /\ runs'[r] = Nothing
      BY <1>0, <1>13 DEF BeginCommit, Enter, FreshRun, TypeOK
    <3>2. CopiedBefore(u)' = {} /\ DOMAIN Empty = {} /\ Empty # Nothing
      BY <3>1, FullIsDirectory, NothingIsNoDirectory DEF CopiedBefore
    <3> QED
      BY <2>1, <3>1, <3>2 DEF RunIsMine, Busy
  <2>2. CASE v # u
    <3>1. pc'[v] = pc[v] /\ work'[v] = work[v]
      BY <1>0, <1>13, <2>2 DEF BeginCommit, Enter, TypeOK
    <3>2. Mine => work[v].run # r
      BY <1>0, <1>13, OpOfWork DEF BeginCommit, FreshRun
    <3>3. Mine => copies'[work[v].run] = copies[work[v].run]
      BY <1>0, <1>13, <3>2, RunOfWork DEF BeginCommit, TypeOK
    <3> QED
      BY <1>0, <1>13, <3>1, <3>3, UnderCopy, OtherKeepsItsRun DEF BeginCommit, Busy
  <2> QED
    BY <2>1, <2>2
<1>14. ASSUME NEW u \in Client, NEW r \in Run, LookUpSample(u, r)
       PROVE  RunIsMine(v)'
  <2>1. CASE v = u
    <3>1. pc'[u] = "sample" /\ work'[u].run = r /\ runs'[r] = Nothing
      BY <1>0, <1>14 DEF LookUpSample, Enter, FreshRun, TypeOK
    <3> QED
      BY <2>1, <3>1 DEF RunIsMine, Busy
  <2>2. CASE v # u
    <3>1. pc'[v] = pc[v] /\ work'[v] = work[v]
      BY <1>0, <1>14, <2>2 DEF LookUpSample, Enter, TypeOK
    <3> QED
      BY <1>0, <1>14, <3>1, UnderCopy, OtherKeepsItsRun DEF LookUpSample, Overlap
  <2> QED
    BY <2>1, <2>2
<1>15. ASSUME NEW s \in Session, Age(s)
       PROVE  RunIsMine(v)'
  BY <1>0, <1>15, UnderCopy, OtherKeepsItsRun DEF Age
<1>16. CASE Restart
  BY <1>16, IdleHasNoRun DEF Restart
<1>17. ASSUME NEW s \in Session, NEW f \in File, ChangeStaged(s, f)
       PROVE  RunIsMine(v)'
  <2>1. ASSUME pc[v] = "copy", ThisFile(v) \in DOMAIN staging'[work[v].session],
               staging'[work[v].session][ThisFile(v)] = "changed"
        PROVE  <<work[v].run, ThisFile(v)>> \in raced'
    <3>1. CASE work[v].session = s /\ ThisFile(v) = f
      BY <1>17, <2>1, <3>1 DEF ChangeStaged
    <3>2. CASE ~(work[v].session = s /\ ThisFile(v) = f)
      <4>1. staging[s] \in Directory /\ f \in DOMAIN staging[s] /\ work[v].session \in Session
        BY <1>0, <1>17, <2>1, CommitLocals DEF ChangeStaged, TypeOK
      <4>2. staging' = [staging EXCEPT ![s] = [staging[s] EXCEPT ![f] = "changed"]]
        BY <1>17 DEF ChangeStaged
      <4>3. /\ ThisFile(v) \in DOMAIN staging[work[v].session]
            /\ staging[work[v].session][ThisFile(v)] = "changed"
        BY <1>0, <2>1, <3>2, <4>1, <4>2 DEF TypeOK
      <4> QED
        BY <1>17, <2>1, <4>3, UnderCopy DEF ChangeStaged
    <3> QED
      BY <3>1, <3>2
  <2> QED
    BY <1>0, <1>17, <2>1, OtherKeepsItsRun DEF ChangeStaged
<1>18. CASE UNCHANGED vars
  BY <1>0, <1>18, UnderCopy, OtherKeepsItsRun DEF vars
<1>19. ASSUME NEW u \in Client, RefuseFile(u) \/ CopyFails(u)
       PROVE  RunIsMine(v)'
  BY <1>6, <1>19 DEF RefuseFile, CopyFails, Busy
<1> QED
  BY <1>1, <1>2, <1>3, <1>4, <1>5, <1>7, <1>8, <1>9, <1>10, <1>11, <1>12, <1>13, <1>14,
     <1>15, <1>16, <1>17, <1>18, <1>19 DEF Next, Request, Proceed

(* Requests draw different runs, and a validation has its session alone.   *)
LEMMA ApartStep ==
  ASSUME Inv, [Next]_vars
  PROVE  \A v, w \in Client : v # w => Apart(v, w)'
<1> USE DEF Inv, TypeOK, Apart, Busy, Enter, Return, FreshRun, Idle, sessions,
            external
<1>1. ASSUME NEW u \in Client,
             RefuseArchive(u) \/ Register(u) \/ AnalysisFails(u)
             \/ PopSession(u) \/ InsertSample(u) \/ SampleFails(u)
      PROVE  \A v, w \in Client : v # w => Apart(v, w)'
  BY <1>1 DEF RefuseArchive, Register, AnalysisFails, PopSession, InsertSample, SampleFails
<1>2. ASSUME NEW u \in Client,
             Abandon(u), pc[u] \in {"hash", "copy"}
      PROVE  \A v, w \in Client : v # w => Apart(v, w)'
  BY <1>2 DEF Abandon
<1>3. ASSUME NEW u \in Client,
             HashFile(u) \/ SaveRun(u)
      PROVE  \A v, w \in Client : v # w => Apart(v, w)'
  BY <1>3 DEF HashFile, SaveRun
<1>4. ASSUME NEW u \in Client,
             CopyFile(u)
      PROVE  \A v, w \in Client : v # w => Apart(v, w)'
  BY <1>4 DEF CopyFile
<1>5. ASSUME NEW u \in Client, NEW f \in File,
             RmtreeStep(u, f)
      PROVE  \A v, w \in Client : v # w => Apart(v, w)'
  BY <1>5 DEF RmtreeStep
<1>6. ASSUME NEW u \in Client, NEW s \in Session,
             Extract(u, s)
      PROVE  \A v, w \in Client : v # w => Apart(v, w)'
  BY <1>6 DEF Extract, SessionIsMine, CallAt
<1>7. ASSUME NEW u \in Client, NEW s \in Session, NEW c \in Candidate, NEW r \in Run,
             BeginCommit(u, s, c, r)
      PROVE  \A v, w \in Client : v # w => Apart(v, w)'
  BY <1>7 DEF BeginCommit, SessionIsMine, CallAt
<1>8. ASSUME NEW u \in Client, NEW r \in Run,
             LookUpSample(u, r)
      PROVE  \A v, w \in Client : v # w => Apart(v, w)'
  BY <1>8 DEF LookUpSample, CallAt
<1>9. ASSUME (\E s \in Session : Age(s)) \/ Restart \/ UNCHANGED vars
             \/ (\E s \in Session, f \in File : ChangeStaged(s, f))
      PROVE  \A v, w \in Client : v # w => Apart(v, w)'
  BY <1>9 DEF Age, Restart, ChangeStaged, vars
<1> QED
  BY <1>1, <1>2, <1>3, <1>4, <1>5, <1>6, <1>7, <1>8, <1>9
  DEF Next, Request, Proceed, RefuseFile, CopyFails

(* A session id that is still to be drawn has left no trace.               *)
LEMMA UnopenedStep ==
  ASSUME Inv, [Next]_vars
  PROVE  Unopened'
<1> USE DEF Inv, TypeOK, Unopened, NoRunOf, IsImported, SessionIsMine, Busy,
            sessions, external
<1>1. ASSUME NEW u \in Client,
             RefuseArchive(u) \/ Register(u) \/ AnalysisFails(u)
             \/ PopSession(u) \/ InsertSample(u) \/ SampleFails(u)
      PROVE  Unopened'
  BY <1>1 DEF RefuseArchive, Register, AnalysisFails, PopSession, InsertSample, SampleFails
<1>2. ASSUME NEW u \in Client,
             Abandon(u), pc[u] \in {"hash", "copy"}
      PROVE  Unopened'
  BY <1>2 DEF Abandon
<1>3. ASSUME NEW u \in Client,
             HashFile(u) \/ SaveRun(u)
      PROVE  Unopened'
  BY <1>3 DEF HashFile, SaveRun
<1>4. ASSUME NEW u \in Client,
             CopyFile(u)
      PROVE  Unopened'
  BY <1>4 DEF CopyFile
<1>5. ASSUME NEW u \in Client, NEW f \in File,
             RmtreeStep(u, f)
      PROVE  Unopened'
  BY <1>5 DEF RmtreeStep
<1>6. ASSUME NEW u \in Client, NEW s \in Session,
             Extract(u, s)
      PROVE  Unopened'
  BY <1>6 DEF Extract
<1>7. ASSUME NEW u \in Client, NEW s \in Session, NEW c \in Candidate, NEW r \in Run,
             BeginCommit(u, s, c, r)
      PROVE  Unopened'
  BY <1>7 DEF BeginCommit
<1>8. ASSUME NEW u \in Client, NEW r \in Run,
             LookUpSample(u, r)
      PROVE  Unopened'
  BY <1>8 DEF LookUpSample
<1>9. ASSUME (\E s \in Session : Age(s)) \/ Restart \/ UNCHANGED vars
             \/ (\E s \in Session, f \in File : ChangeStaged(s, f))
      PROVE  Unopened'
  BY <1>9 DEF Age, Restart, ChangeStaged, vars
<1> QED
  BY <1>1, <1>2, <1>3, <1>4, <1>5, <1>6, <1>7, <1>8, <1>9
  DEF Next, Request, Proceed, RefuseFile, CopyFails

(* A session is registered by the request that unpacked it, once.          *)
LEMMA SessionsStep ==
  ASSUME Inv, [Next]_vars
  PROVE  \A v \in Client : SessionIsMine(v)'
<1> USE DEF Inv, TypeOK, SessionIsMine, Unopened, NoRunOf, IsImported, Busy,
            Enter, Return, Idle, Apart, Staged, sessions, external
<1>1. ASSUME NEW u \in Client,
             RefuseArchive(u) \/ Register(u) \/ AnalysisFails(u)
             \/ PopSession(u) \/ InsertSample(u) \/ SampleFails(u)
      PROVE  \A v \in Client : SessionIsMine(v)'
  BY <1>1 DEF RefuseArchive, Register, AnalysisFails, PopSession, InsertSample, SampleFails
<1>2. ASSUME NEW u \in Client,
             Abandon(u), pc[u] \in {"hash", "copy"}
      PROVE  \A v \in Client : SessionIsMine(v)'
  BY <1>2 DEF Abandon
<1>3. ASSUME NEW u \in Client,
             HashFile(u) \/ SaveRun(u)
      PROVE  \A v \in Client : SessionIsMine(v)'
  BY <1>3 DEF HashFile, SaveRun
<1>4. ASSUME NEW u \in Client,
             CopyFile(u)
      PROVE  \A v \in Client : SessionIsMine(v)'
  BY <1>4 DEF CopyFile
<1>5. ASSUME NEW u \in Client, NEW f \in File,
             RmtreeStep(u, f)
      PROVE  \A v \in Client : SessionIsMine(v)'
  BY <1>5 DEF RmtreeStep
<1>6. ASSUME NEW u \in Client, NEW s \in Session,
             Extract(u, s)
      PROVE  \A v \in Client : SessionIsMine(v)'
  BY <1>6 DEF Extract
<1>7. ASSUME NEW u \in Client, NEW s \in Session, NEW c \in Candidate, NEW r \in Run,
             BeginCommit(u, s, c, r)
      PROVE  \A v \in Client : SessionIsMine(v)'
  BY <1>7 DEF BeginCommit
<1>8. ASSUME NEW u \in Client, NEW r \in Run,
             LookUpSample(u, r)
      PROVE  \A v \in Client : SessionIsMine(v)'
  BY <1>8 DEF LookUpSample
<1>9. ASSUME (\E s \in Session : Age(s)) \/ Restart \/ UNCHANGED vars
             \/ (\E s \in Session, f \in File : ChangeStaged(s, f))
      PROVE  \A v \in Client : SessionIsMine(v)'
  BY <1>9 DEF Age, Restart, ChangeStaged, vars
<1> QED
  BY <1>1, <1>2, <1>3, <1>4, <1>5, <1>6, <1>7, <1>8, <1>9
  DEF Next, Request, Proceed, RefuseFile, CopyFails

(* A run is saved with all its copies, and nothing touches them later.     *)
LEMMA WholeStep ==
  ASSUME Inv, [Next]_vars
  PROVE  EvidenceIsWhole'
<1> USE DEF Inv, TypeOK, EvidenceIsWhole, IsImported, RunIsMine, Busy,
            sessions, external
<1>1. ASSUME NEW u \in Client,
             RefuseArchive(u) \/ Register(u) \/ AnalysisFails(u)
             \/ PopSession(u) \/ InsertSample(u) \/ SampleFails(u)
      PROVE  EvidenceIsWhole'
  BY <1>1 DEF RefuseArchive, Register, AnalysisFails, PopSession, InsertSample, SampleFails
<1>2. ASSUME NEW u \in Client,
             Abandon(u), pc[u] \in {"hash", "copy"}
      PROVE  EvidenceIsWhole'
  BY <1>2 DEF Abandon
<1>3. ASSUME NEW u \in Client,
             HashFile(u) \/ SaveRun(u)
      PROVE  EvidenceIsWhole'
  <2>1. CASE HashFile(u)
    BY <2>1 DEF HashFile
  <2>2. CASE SaveRun(u)
    BY <2>2 DEF SaveRun
  <2> QED
    BY <1>3, <2>1, <2>2
<1>4. ASSUME NEW u \in Client,
             CopyFile(u)
      PROVE  EvidenceIsWhole'
  BY <1>4 DEF CopyFile
<1>5. ASSUME NEW u \in Client, NEW f \in File,
             RmtreeStep(u, f)
      PROVE  EvidenceIsWhole'
  BY <1>5 DEF RmtreeStep
<1>6. ASSUME NEW u \in Client, NEW s \in Session,
             Extract(u, s)
      PROVE  EvidenceIsWhole'
  BY <1>6 DEF Extract
<1>7. ASSUME NEW u \in Client, NEW s \in Session, NEW c \in Candidate, NEW r \in Run,
             BeginCommit(u, s, c, r)
      PROVE  EvidenceIsWhole'
  BY <1>7 DEF BeginCommit, FreshRun
<1>8. ASSUME NEW u \in Client, NEW r \in Run,
             LookUpSample(u, r)
      PROVE  EvidenceIsWhole'
  BY <1>8 DEF LookUpSample
<1>9. ASSUME (\E s \in Session : Age(s)) \/ Restart \/ UNCHANGED vars
             \/ (\E s \in Session, f \in File : ChangeStaged(s, f))
      PROVE  EvidenceIsWhole'
  BY <1>9 DEF Age, Restart, ChangeStaged, vars
<1> QED
  BY <1>1, <1>2, <1>3, <1>4, <1>5, <1>6, <1>7, <1>8, <1>9
  DEF Next, Request, Proceed, RefuseFile, CopyFails

(* It is saved with copies of what was hashed.                             *)
LEMMA ValidatedStep ==
  ASSUME Inv, [Next]_vars
  PROVE  EvidenceWasValidated'
<1> USE DEF Inv, TypeOK, EvidenceWasValidated, IsImported, RunIsMine, Busy,
            sessions, external, history, Overlap
<1>1. ASSUME NEW u \in Client,
             RefuseArchive(u) \/ Register(u) \/ AnalysisFails(u)
             \/ PopSession(u) \/ InsertSample(u) \/ SampleFails(u)
      PROVE  EvidenceWasValidated'
  BY <1>1 DEF RefuseArchive, Register, AnalysisFails, PopSession, InsertSample, SampleFails
<1>2. ASSUME NEW u \in Client,
             Abandon(u), pc[u] \in {"hash", "copy"}
      PROVE  EvidenceWasValidated'
  BY <1>2 DEF Abandon
<1>3. ASSUME NEW u \in Client,
             HashFile(u) \/ SaveRun(u)
      PROVE  EvidenceWasValidated'
  BY <1>3 DEF HashFile, SaveRun
<1>4. ASSUME NEW u \in Client,
             CopyFile(u)
      PROVE  EvidenceWasValidated'
  BY <1>4 DEF CopyFile
<1>5. ASSUME NEW u \in Client, NEW f \in File,
             RmtreeStep(u, f)
      PROVE  EvidenceWasValidated'
  BY <1>5 DEF RmtreeStep
<1>6. ASSUME NEW u \in Client, NEW s \in Session,
             Extract(u, s)
      PROVE  EvidenceWasValidated'
  BY <1>6 DEF Extract
<1>7. ASSUME NEW u \in Client, NEW s \in Session, NEW c \in Candidate, NEW r \in Run,
             BeginCommit(u, s, c, r)
      PROVE  EvidenceWasValidated'
  BY <1>7 DEF BeginCommit, FreshRun
<1>8. ASSUME NEW u \in Client, NEW r \in Run,
             LookUpSample(u, r)
      PROVE  EvidenceWasValidated'
  BY <1>8 DEF LookUpSample
<1>9. ASSUME (\E s \in Session : Age(s)) \/ Restart \/ UNCHANGED vars
             \/ (\E s \in Session, f \in File : ChangeStaged(s, f))
      PROVE  EvidenceWasValidated'
  BY <1>9 DEF Age, Restart, ChangeStaged, vars
<1> QED
  BY <1>1, <1>2, <1>3, <1>4, <1>5, <1>6, <1>7, <1>8, <1>9
  DEF Next, Request, Proceed, RefuseFile, CopyFails

(* Only a commit that is cleaning up deletes staged files.                 *)
LEMMA RepeatStep ==
  ASSUME Inv, [Next]_vars
  PROVE  FailedCommitCanBeRepeated'
<1> USE DEF Inv, TypeOK, FailedCommitCanBeRepeated, Cleaning, SessionIsMine,
            Unopened, Busy, Enter, Return, Staged, sessions, external
<1>1. ASSUME NEW u \in Client,
             RefuseArchive(u) \/ Register(u) \/ AnalysisFails(u)
             \/ PopSession(u) \/ InsertSample(u) \/ SampleFails(u)
      PROVE  FailedCommitCanBeRepeated'
  BY <1>1 DEF RefuseArchive, Register, AnalysisFails, PopSession, InsertSample, SampleFails
<1>2. ASSUME NEW u \in Client,
             Abandon(u), pc[u] \in {"hash", "copy"}
      PROVE  FailedCommitCanBeRepeated'
  BY <1>2 DEF Abandon
<1>3. ASSUME NEW u \in Client,
             HashFile(u) \/ SaveRun(u)
      PROVE  FailedCommitCanBeRepeated'
  BY <1>3 DEF HashFile, SaveRun
<1>4. ASSUME NEW u \in Client,
             CopyFile(u)
      PROVE  FailedCommitCanBeRepeated'
  BY <1>4 DEF CopyFile
<1>5. ASSUME NEW u \in Client, NEW f \in File,
             RmtreeStep(u, f)
      PROVE  FailedCommitCanBeRepeated'
  BY <1>5 DEF RmtreeStep
<1>6. ASSUME NEW u \in Client, NEW s \in Session,
             Extract(u, s)
      PROVE  FailedCommitCanBeRepeated'
  BY <1>6 DEF Extract
<1>7. ASSUME NEW u \in Client, NEW s \in Session, NEW c \in Candidate, NEW r \in Run,
             BeginCommit(u, s, c, r)
      PROVE  FailedCommitCanBeRepeated'
  BY <1>7 DEF BeginCommit
<1>8. ASSUME NEW u \in Client, NEW r \in Run,
             LookUpSample(u, r)
      PROVE  FailedCommitCanBeRepeated'
  BY <1>8 DEF LookUpSample
<1>9. ASSUME (\E s \in Session : Age(s)) \/ Restart \/ UNCHANGED vars
             \/ (\E s \in Session, f \in File : ChangeStaged(s, f))
      PROVE  FailedCommitCanBeRepeated'
  BY <1>9 DEF Age, Restart, ChangeStaged, vars
<1> QED
  BY <1>1, <1>2, <1>3, <1>4, <1>5, <1>6, <1>7, <1>8, <1>9
  DEF Next, Request, Proceed, RefuseFile, CopyFails

(* A commit that stops cleaning up takes its session with it.              *)
LEMMA OfferedStep ==
  ASSUME Inv, [Next]_vars
  PROVE  OfferedUntilCommitted'
<1> USE DEF Inv, TypeOK, OfferedUntilCommitted, Cleaning, IsImported,
            SessionIsMine, NoRunOf, Unopened, Busy, Enter, Return, sessions, external
<1>1. ASSUME NEW u \in Client,
             RefuseArchive(u) \/ Register(u) \/ AnalysisFails(u)
             \/ PopSession(u) \/ InsertSample(u) \/ SampleFails(u)
      PROVE  OfferedUntilCommitted'
  BY <1>1 DEF RefuseArchive, Register, AnalysisFails, PopSession, InsertSample, SampleFails
<1>2. ASSUME NEW u \in Client,
             Abandon(u), pc[u] \in {"hash", "copy"}
      PROVE  OfferedUntilCommitted'
  BY <1>2 DEF Abandon
<1>3. ASSUME NEW u \in Client,
             HashFile(u) \/ SaveRun(u)
      PROVE  OfferedUntilCommitted'
  BY <1>3 DEF HashFile, SaveRun
<1>4. ASSUME NEW u \in Client,
             CopyFile(u)
      PROVE  OfferedUntilCommitted'
  BY <1>4 DEF CopyFile
<1>5. ASSUME NEW u \in Client, NEW f \in File,
             RmtreeStep(u, f)
      PROVE  OfferedUntilCommitted'
  BY <1>5 DEF RmtreeStep
<1>6. ASSUME NEW u \in Client, NEW s \in Session,
             Extract(u, s)
      PROVE  OfferedUntilCommitted'
  BY <1>6 DEF Extract
<1>7. ASSUME NEW u \in Client, NEW s \in Session, NEW c \in Candidate, NEW r \in Run,
             BeginCommit(u, s, c, r)
      PROVE  OfferedUntilCommitted'
  BY <1>7 DEF BeginCommit
<1>8. ASSUME NEW u \in Client, NEW r \in Run,
             LookUpSample(u, r)
      PROVE  OfferedUntilCommitted'
  BY <1>8 DEF LookUpSample
<1>9. ASSUME (\E s \in Session : Age(s)) \/ Restart \/ UNCHANGED vars
             \/ (\E s \in Session, f \in File : ChangeStaged(s, f))
      PROVE  OfferedUntilCommitted'
  BY <1>9 DEF Age, Restart, ChangeStaged, vars
<1> QED
  BY <1>1, <1>2, <1>3, <1>4, <1>5, <1>6, <1>7, <1>8, <1>9
  DEF Next, Request, Proceed, RefuseFile, CopyFails

-----------------------------------------------------------------------------
(* The invariant holds at the start ...                                    *)
LEMMA InvInit == Init => Inv
<1> SUFFICES ASSUME Init
             PROVE  Inv
  OBVIOUS
<1>1. TypeOK
  BY FullIsDirectory, ImportAssumption DEF Init, TypeOK, CallAt, Place, Local
<1>2. \A u, v \in Client : Apart(u, v)
  BY DEF Init, Apart, Busy
<1>3. /\ \A u \in Client : RunIsMine(u) /\ SessionIsMine(u)
      /\ Unopened /\ EvidenceIsWhole /\ EvidenceWasValidated
      /\ FailedCommitCanBeRepeated /\ OfferedUntilCommitted
  BY DEF Init, RunIsMine, SessionIsMine, Busy, Unopened, NoRunOf, IsImported, EvidenceIsWhole,
         EvidenceWasValidated, FailedCommitCanBeRepeated, OfferedUntilCommitted
<1> QED
  BY <1>1, <1>2, <1>3 DEF Inv

(* ... and after every step ...                                            *)
LEMMA InvNext == Inv /\ [Next]_vars => Inv'
<1> SUFFICES ASSUME Inv, [Next]_vars
             PROVE  Inv'
  OBVIOUS
<1>1. TypeOK'
  BY StepKeepsTypes DEF Inv, RunIsMine, Busy
<1> QED
  BY <1>1, RunsStep, SessionsStep, ApartStep, UnopenedStep, WholeStep, ValidatedStep,
     RepeatStep, OfferedStep DEF Inv

(* ... so it always does.                                                  *)
LEMMA Invariance == Spec => []Inv
<1> QED
  BY InvInit, InvNext, PTL DEF Spec

(* The types, and the local variables of every request.                    *)
THEOREM TypeCorrect == Spec => []TypeOK
<1>1. Inv => TypeOK
  BY DEF Inv
<1> QED
  BY <1>1, Invariance, PTL

(* An imported run has its evidence, all of it and nothing else: for any   *)
(* number of sessions, overlapping commits, crashes and outside changes.   *)
THEOREM EvidenceIsAlwaysWhole == Spec => []EvidenceIsWhole
<1>1. Inv => EvidenceIsWhole
  BY DEF Inv
<1> QED
  BY <1>1, Invariance, PTL

(* And that evidence was what the preview showed, unless it changed        *)
(* between the hash and the copy of that very commit.                      *)
THEOREM EvidenceIsAlwaysValidated == Spec => []EvidenceWasValidated
<1>1. Inv => EvidenceWasValidated
  BY DEF Inv
<1> QED
  BY <1>1, Invariance, PTL

(* A session that is offered has all its files, or a commit of it that has *)
(* saved its run is deleting them: a commit that failed can be sent again. *)
THEOREM FailedCommitsCanBeRepeated == Spec => []FailedCommitCanBeRepeated
<1>1. Inv => FailedCommitCanBeRepeated
  BY DEF Inv
<1> QED
  BY <1>1, Invariance, PTL

(* Once a commit has returned with a run its session is not offered again. *)
THEOREM SessionsAreConsumedOnce == Spec => []OfferedUntilCommitted
<1>1. Inv => OfferedUntilCommitted
  BY DEF Inv
<1> QED
  BY <1>1, Invariance, PTL

(* No step touches the row or the evidence of a run that is saved.         *)
THEOREM SavedRunsAreKept == Spec => EvidenceIsKept
<1> DEFINE Kept == \A r \in Run : runs[r] # Nothing =>
                     runs'[r] = runs[r] /\ copies'[r] = copies[r]
<1>1. Inv /\ [Next]_vars => Kept
  <2> SUFFICES ASSUME Inv, [Next]_vars, NEW r \in Run, runs[r] # Nothing
               PROVE  runs'[r] = runs[r] /\ copies'[r] = copies[r]
    OBVIOUS
  <2> USE DEF sessions, external, history
  <2>1. \A u \in Client : pc[u] \in Busy \cup {"sample"} => work[u].run # r
    BY DEF Inv, RunIsMine
  <2>2. ASSUME NEW u \in Client, RefuseFile(u) \/ CopyFails(u) \/ CopyFile(u)
        PROVE  runs'[r] = runs[r] /\ copies'[r] = copies[r]
    BY <2>1, <2>2 DEF RefuseFile, CopyFails, CopyFile, Abandon, Busy, Inv, TypeOK
  <2>3. ASSUME NEW u \in Client, SaveRun(u) \/ InsertSample(u)
        PROVE  runs'[r] = runs[r] /\ copies'[r] = copies[r]
    BY <2>1, <2>3 DEF SaveRun, InsertSample, Busy, Inv, TypeOK
  <2>4. ASSUME NEW u \in Client, NEW s \in Session, NEW c \in Candidate, NEW q \in Run,
               BeginCommit(u, s, c, q)
        PROVE  runs'[r] = runs[r] /\ copies'[r] = copies[r]
    BY <2>4 DEF BeginCommit, FreshRun, Inv, TypeOK
  <2> QED
    BY <2>2, <2>3, <2>4
    DEF Next, Request, Proceed, vars, Extract, RefuseArchive, Register, Age, HashFile,
        AnalysisFails, RmtreeStep, PopSession, LookUpSample, SampleFails, Restart, ChangeStaged
<1>2. Inv /\ [Next]_vars => [Kept]_vars
  BY <1>1
<1> QED
  BY <1>2, Invariance, PTL DEF Spec, EvidenceIsKept

-----------------------------------------------------------------------------
(* The sample.  A run is requested while a request is about to insert it,  *)
(* and afterwards.                                                         *)
Pending(r) == \E u \in Client : pc[u] = "sample" /\ work[u].run = r

Requested(r) == runs[r] = Sample \/ Pending(r)

(* The strengthening: of the requests that are still about to insert, too, *)
(* every one overlaps with every other and with those that have inserted.  *)
SamplesInv == \A r1, r2 \in Run :
  r1 # r2 /\ Requested(r1) /\ Requested(r2) => {r1, r2} \in overlapped

(* A step that requests no run that was not requested, and forgets no      *)
(* overlap of two runs that still are.                                     *)
LEMMA FewerRequested ==
  ASSUME SamplesInv,
         \A r \in Run : Requested(r)' => Requested(r),
         \A r1, r2 \in Run :
           /\ Requested(r1)' /\ Requested(r2)'
           /\ {r1, r2} \in overlapped
           => {r1, r2} \in overlapped'
  PROVE  SamplesInv'
BY DEF SamplesInv

(* A request begins to insert only when there is no sample run, so that    *)
(* all others that are requested are under way.                            *)
LEMMA LookUpKeepsSamples ==
  ASSUME TypeOK, SamplesInv, NEW u \in Client, NEW r \in Run, LookUpSample(u, r)
  PROVE  SamplesInv'
<1>1. \A q \in Run : runs'[q] # Sample
  BY DEF LookUpSample, Samples
<1>2. \A q \in Run : Pending(q)' => q = r \/ Pending(q)
  BY DEF LookUpSample, Enter, Pending, TypeOK
<1>3. \A q \in Run : Pending(q) => {r, q} \in overlapped'
  BY DEF LookUpSample, Overlap, Pending
<1>4. overlapped \subseteq overlapped'
  BY DEF LookUpSample, Overlap
<1> SUFFICES ASSUME NEW r1 \in Run, NEW r2 \in Run,
                    r1 # r2, Requested(r1)', Requested(r2)'
             PROVE  {r1, r2} \in overlapped'
  BY DEF SamplesInv
<1>5. Pending(r1)' /\ Pending(r2)'
  BY <1>1 DEF Requested
<1>6. CASE r1 = r
  BY <1>2, <1>3, <1>5, <1>6
<1>7. CASE r2 = r
  <2>1. {r2, r1} \in overlapped' /\ {r2, r1} = {r1, r2}
    BY <1>2, <1>3, <1>5, <1>7
  <2> QED
    BY <2>1
<1>8. CASE r1 # r /\ r2 # r
  BY <1>2, <1>4, <1>5, <1>8 DEF SamplesInv, Requested
<1> QED
  BY <1>6, <1>7, <1>8

(* A request that fails takes its overlaps with it; no one else has its    *)
(* run.                                                                    *)
LEMMA FailureKeepsSamples ==
  ASSUME Inv, SamplesInv, NEW u \in Client, SampleFails(u)
  PROVE  SamplesInv'
<1>1. TypeOK /\ pc[u] = "sample" /\ runs' = runs
  BY DEF Inv, SampleFails
<1>2. runs[work[u].run] # Sample
  BY <1>1, RowAssumption DEF Inv, RunIsMine
<1>3. \A v \in Client : pc'[v] = "sample" =>
        v # u /\ pc[v] = "sample" /\ work'[v] = work[v]
  BY <1>1 DEF SampleFails, Return, Enter, TypeOK
<1>4. \A v \in Client : pc'[v] = "sample" => work[v].run # work[u].run
  BY <1>1, <1>3 DEF Inv, Apart
<1>5. \A r \in Run : Requested(r)' => Requested(r) /\ r # work[u].run
  BY <1>1, <1>2, <1>3, <1>4 DEF Requested, Pending
<1>6. \A r1, r2 \in Run :
        /\ Requested(r1)' /\ Requested(r2)'
        /\ {r1, r2} \in overlapped
        => {r1, r2} \in overlapped'
  BY <1>5 DEF SampleFails
<1> QED
  BY <1>5, <1>6, FewerRequested

(* Two sample runs come from requests that overlapped between their        *)
(* look-up and their insert, for any number of clients, failures and       *)
(* crashes.                                                                *)
THEOREM SamplesComeFromOverlap == Spec => []SamplesOnlyFromOverlap
<1>1. Init => SamplesInv
  BY RowAssumption DEF Init, SamplesInv, Requested, Pending
<1>2. Inv /\ SamplesInv /\ [Next]_vars => SamplesInv'
  <2> SUFFICES ASSUME Inv, SamplesInv, [Next]_vars
               PROVE  SamplesInv'
    OBVIOUS
  <2> USE DEF sessions, external, history
  <2>0. TypeOK
    BY DEF Inv
  <2>1. ASSUME NEW u \in Client, SaveRun(u)
        PROVE  SamplesInv'
    <3>1. [session |-> work[u].session, candidate |-> work[u].candidate] # Sample
      BY DEF Sample
    <3>2. \A r \in Run : Requested(r)' => Requested(r)
      BY <2>0, <2>1, <3>1 DEF SaveRun, Requested, Pending, TypeOK
    <3> QED
      BY <2>1, <3>2, FewerRequested DEF SaveRun
  <2>2. ASSUME NEW u \in Client, InsertSample(u)
        PROVE  SamplesInv'
    <3>1. \A r \in Run : Requested(r)' => Requested(r)
      BY <2>0, <2>2 DEF InsertSample, Return, Enter, Requested, Pending, TypeOK
    <3> QED
      BY <2>2, <3>1, FewerRequested DEF InsertSample
  <2>3. ASSUME NEW u \in Client,
               \/ \E s \in Session : Extract(u, s)
               \/ \E s \in Session, c \in Candidate, r \in Run : BeginCommit(u, s, c, r)
               \/ RefuseArchive(u) \/ Register(u) \/ HashFile(u)
               \/ RefuseFile(u) \/ CopyFile(u) \/ CopyFails(u) \/ AnalysisFails(u)
               \/ (\E f \in File : RmtreeStep(u, f)) \/ PopSession(u)
        PROVE  SamplesInv'
    <3>1. overlapped' = overlapped /\ runs' = runs
      BY <2>3
      DEF Extract, BeginCommit, RefuseArchive, Register, HashFile, RefuseFile, CopyFile,
          CopyFails, AnalysisFails, RmtreeStep, PopSession, Abandon
    <3>2. \A v \in Client : pc'[v] = "sample" => pc[v] = "sample" /\ work'[v] = work[v]
      BY <2>0, <2>3
      DEF Extract, BeginCommit, RefuseArchive, Register, HashFile, RefuseFile, CopyFile,
          CopyFails, AnalysisFails, RmtreeStep, PopSession, Abandon, Return, Enter, TypeOK
    <3> QED
      BY <3>1, <3>2, FewerRequested DEF Requested, Pending
  <2>4. ASSUME (\E s \in Session : Age(s)) \/ UNCHANGED vars
               \/ (\E s \in Session, f \in File : ChangeStaged(s, f))
        PROVE  SamplesInv'
    BY <2>4 DEF Age, ChangeStaged, vars, SamplesInv, Requested, Pending
  <2>5. CASE Restart
    <3>1. \A r \in Run : Requested(r)' => r \in Samples
      BY <2>5 DEF Restart, Requested, Pending, Samples
    <3>2. \A r \in Samples : Requested(r)
      BY DEF Samples, Requested
    <3> QED
      BY <2>5, <3>1, <3>2, FewerRequested DEF Restart
  <2> QED
    BY <2>0, <2>1, <2>2, <2>3, <2>4, <2>5, LookUpKeepsSamples, FailureKeepsSamples
    DEF Next, Request, Proceed
<1>3. SamplesInv => SamplesOnlyFromOverlap
  BY DEF SamplesInv, SamplesOnlyFromOverlap, Samples, Requested
<1> QED
  BY <1>1, <1>2, <1>3, Invariance, PTL DEF Spec

=============================================================================
