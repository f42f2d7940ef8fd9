------------------------ MODULE DownloadArtifacts_proofs ------------------------
(***************************************************************************)
(* Proofs about download_artifacts.js for any list of repositories, any     *)
(* contracts, also of the same names, and any number of attempts.           *)
(***************************************************************************)
EXTENDS DownloadArtifacts, TLAPS

(* No file is being downloaded before its repo's turn; a download is only   *)
(* done when the file is that of the repo.                                  *)
TaskInv ==
  /\ pc \in {"commit", "checksums", "poll", "ask"} =>
       \A f \in File : task[f] = "idle"
  /\ pc = "download" =>
       \A f \in Contracts[repo] : task[f] = "done" => disk[f] = repo

(* A repo is reported when its turn is over. *)
TurnInv ==
  \A k \in DOMAIN Repos :
    Repos[k] \in reported => k < i \/ (k = i /\ pc = "finished")

(* Nobody overwrites without leave. *)
LeaveInv ==
  pc = "download" => REWRITE_FILES \/ \A f \in Contracts[repo] : disk[f] # "old"

IInv == TypeOK /\ TaskInv /\ TurnInv /\ LeaveInv /\ ReportedVerified

LEMMA Lists ==
  /\ Len(Repos) \in Nat /\ DOMAIN Repos = 1 .. Len(Repos) /\ 1 \in DOMAIN Repos
  /\ \A k \in DOMAIN Repos : Repos[k] \in Repo /\ Contracts[Repos[k]] \subseteq File
  /\ \A r \in Repo : r \notin {"absent", "old", "partial"}
<1>1. Len(Repos) \in Nat /\ DOMAIN Repos = 1 .. Len(Repos) /\ 1 \in DOMAIN Repos
  BY ReposAssumption
<1>2. \A k \in DOMAIN Repos : Repos[k] \in Repo
  BY DEF Repo
<1>3. \A r \in Repo : Contracts[r] \subseteq File
  BY DEF File
<1> QED BY <1>1, <1>2, <1>3, ReposAssumption

LEMMA InitIInv == Init => IInv
<1> SUFFICES ASSUME Init PROVE IInv
  OBVIOUS
<1>1. TypeOK
  BY Lists, AttemptsAssumption DEF Init, TypeOK, Task, Ended
<1>2. TaskInv /\ TurnInv /\ LeaveInv /\ ReportedVerified
  BY DEF Init, TaskInv, TurnInv, LeaveInv, ReportedVerified
<1> QED BY <1>1, <1>2 DEF IInv

(* The turn of a repo ends: it was reported just now, or left out.          *)
LEMMA TurnEnds ==
  ASSUME IInv, NextRepo, UNCHANGED <<numAttempts, disk>>, REWRITE_FILES' \in BOOLEAN,
         \/ reported' = reported /\ pc \notin Ended
         \/ /\ reported' = reported \union {repo}
            /\ \A f \in Contracts[repo] : disk[f] = repo
  PROVE  IInv'
<1> USE DEF IInv
<1>1. /\ i \in DOMAIN Repos /\ i' \in DOMAIN Repos /\ i <= i'
      /\ pc' \in {"commit", "finished"}
      /\ pc' = "commit" => i < i'
      /\ pc' = "finished" => i' = i
  BY Lists DEF NextRepo, TypeOK
<1>2. task' = [f \in File |-> "idle"]
  BY DEF NextRepo, Idle
<1>3. reported' \subseteq Repo
  BY Lists DEF TypeOK, repo
<1>4. TypeOK'
  BY <1>1, <1>2, <1>3 DEF TypeOK, Task, Ended
<1>5. TaskInv' /\ LeaveInv'
  BY <1>1, <1>2 DEF TaskInv, LeaveInv
<1>6. ASSUME NEW k \in DOMAIN Repos, Repos[k] \in reported'
      PROVE  Repos[k] \in reported \/ (k = i /\ repo \in reported')
  BY <1>1, <1>6, ReposAssumption DEF repo
<1>7. TurnInv'
  <2> SUFFICES ASSUME NEW k \in DOMAIN Repos, Repos[k] \in reported'
               PROVE  k < i' \/ (k = i' /\ pc' = "finished")
    BY DEF TurnInv
  <2>1. k <= i
    BY <1>1, <1>6, Lists DEF TurnInv
  <2> QED BY <1>1, <2>1, Lists
<1>8. ReportedVerified'
  <2> SUFFICES ASSUME NEW k \in DOMAIN Repos, Repos[k] \in reported',
                      NEW f \in Contracts[Repos[k]]
               PROVE  \/ disk[f] = Repos[k]
                      \/ \E l \in k + 1 .. i' : f \in Contracts[Repos[l]]
    BY DEF ReportedVerified
  <2>1. CASE Repos[k] \in reported
    <3>1. \/ disk[f] = Repos[k]
          \/ \E l \in k + 1 .. i : f \in Contracts[Repos[l]]
      BY <2>1 DEF ReportedVerified
    <3>2. k + 1 .. i \subseteq k + 1 .. i'
      BY <1>1, Lists
    <3> QED BY <3>1, <3>2
  <2>2. CASE Repos[k] \notin reported
    BY <1>6, <2>2 DEF repo
  <2> QED BY <2>1, <2>2
<1> QED BY <1>4, <1>5, <1>7, <1>8

(* The main program goes to another place, with nothing downloaded.         *)
LEMMA PlaceChanges ==
  ASSUME IInv, UNCHANGED <<i, disk, task, reported>>, pc # "finished",
         pc' \in {"commit", "checksums", "poll", "ask", "download"} \union (Ended \ {"finished"}),
         numAttempts' \in 0 .. Attempts, REWRITE_FILES' \in BOOLEAN,
         pc' = "download" => \A f \in File : task[f] = "idle",
         pc' \in {"commit", "checksums", "poll", "ask"} => pc \in {"commit", "checksums", "poll", "ask"},
         pc' = "download" => REWRITE_FILES' \/ \A f \in Contracts[repo] : disk[f] # "old"
  PROVE  IInv'
<1> USE DEF IInv
<1>1. TypeOK'
  BY DEF TypeOK, Ended
<1>2. TaskInv'
  BY Lists DEF TaskInv, TypeOK, repo
<1>3. TurnInv' /\ ReportedVerified' /\ LeaveInv'
  BY DEF TurnInv, ReportedVerified, LeaveInv, repo
<1> QED BY <1>1, <1>2, <1>3

LEMMA MainStep == ASSUME IInv, Main PROVE IInv'
<1> USE DEF IInv
<1> numAttempts \in 0 .. Attempts /\ REWRITE_FILES \in BOOLEAN /\ Attempts \in Nat \ {0}
  BY AttemptsAssumption DEF TypeOK
<1>1. ASSUME Skip, pc \notin Ended PROVE IInv'
  BY <1>1, TurnEnds DEF Skip
<1>2. ASSUME FindCommit PROVE IInv'
  BY <1>1, <1>2, PlaceChanges DEF FindCommit, Goto, Ended
<1>3. ASSUME GetChecksums PROVE IInv'
  <2>1. pc = "checksums" /\ pc \notin Ended
    BY <1>3 DEF GetChecksums, Ended
  <2>2. CASE Skip
    BY <1>1, <2>1, <2>2
  <2>3. CASE Goto("ask")
    BY <2>1, <2>3, PlaceChanges DEF Goto
  <2>4. CASE pc' = "poll" /\ numAttempts' = Attempts
             /\ UNCHANGED <<i, REWRITE_FILES, disk, task, reported>>
    BY <2>1, <2>4, PlaceChanges
  <2> QED BY <1>3, <2>2, <2>3, <2>4 DEF GetChecksums
<1>4. ASSUME Poll PROVE IInv'
  <2>1. pc = "poll" /\ pc \notin Ended
    BY <1>4 DEF Poll, Ended
  <2>2. CASE Skip
    BY <1>1, <2>1, <2>2
  <2>3. CASE Goto("ask")
    BY <2>1, <2>3, PlaceChanges DEF Goto
  <2>4. CASE numAttempts > 0 /\ numAttempts' = numAttempts - 1
             /\ UNCHANGED <<pc, i, REWRITE_FILES, disk, task, reported>>
    <3>1. numAttempts' \in 0 .. Attempts
      BY <2>4
    <3> QED BY <2>1, <2>4, <3>1, PlaceChanges
  <2> QED BY <1>4, <2>2, <2>3, <2>4 DEF Poll
<1>5. ASSUME Ask PROVE IInv'
  <2>1. pc = "ask" /\ pc \notin Ended /\ \A f \in File : task[f] = "idle"
    BY <1>5 DEF Ask, Ended, TaskInv
  <2>2. CASE Skip
    BY <1>1, <2>1, <2>2
  <2>3. CASE pc' = "download" /\ REWRITE_FILES' = TRUE
             /\ UNCHANGED <<i, numAttempts, disk, task, reported>>
    BY <2>1, <2>3, PlaceChanges
  <2>4. CASE /\ REWRITE_FILES \/ \A f \in Contracts[repo] : disk[f] = "absent"
             /\ Goto("download")
    BY <2>1, <2>4, PlaceChanges DEF Goto
  <2> QED BY <1>5, <2>2, <2>3, <2>4 DEF Ask
<1>6. ASSUME Report PROVE IInv'
  BY <1>6, TurnEnds DEF Report, TaskInv
<1>7. ASSUME Drain PROVE IInv'
  BY <1>7, PlaceChanges DEF Drain, Goto, Ended
<1> QED BY <1>2, <1>3, <1>4, <1>5, <1>6, <1>7 DEF Main

(* One file moves on.  Another repo that has a file of this name and was    *)
(* reported had its turn before, so it no longer answers for the content.   *)
LEMMA FileMoves ==
  ASSUME IInv, pc = "download", NEW f \in Contracts[repo], pc' \in {pc, "crashed"},
         UNCHANGED <<i, numAttempts, REWRITE_FILES, reported>>,
         NEW state \in Task, task' = [task EXCEPT ![f] = state],
         NEW content \in {"absent", "old", "partial"} \union Repo,
         disk' = [disk EXCEPT ![f] = content],
         state = "done" => content = repo,
         content = "old" => disk[f] = "old"
  PROVE  IInv'
<1> USE DEF IInv
<1>1. i \in DOMAIN Repos /\ Contracts[repo] \subseteq File /\ repo' = repo /\ f \in File
  BY Lists DEF TypeOK, repo
<1>2. /\ task' \in [File -> Task]
      /\ disk' \in [File -> {"absent", "old", "partial"} \union Repo]
      /\ task'[f] = state /\ disk'[f] = content
      /\ \A g \in File \ {f} : task'[g] = task[g] /\ disk'[g] = disk[g]
  BY <1>1 DEF TypeOK
<1>3. TypeOK'
  BY <1>2 DEF TypeOK, Ended
<1>4. TaskInv'
  BY <1>1, <1>2 DEF TaskInv
<1>5. LeaveInv'
  BY <1>1, <1>2 DEF LeaveInv
<1>6. TurnInv'
  BY DEF TurnInv
<1>7. ReportedVerified'
  <2> SUFFICES ASSUME NEW k \in DOMAIN Repos, Repos[k] \in reported,
                      NEW g \in Contracts[Repos[k]]
               PROVE  \/ disk'[g] = Repos[k]
                      \/ \E l \in k + 1 .. i : g \in Contracts[Repos[l]]
    BY DEF ReportedVerified
  <2>1. CASE g = f
    <3>1. i \in k + 1 .. i
      BY <1>1, Lists DEF TurnInv
    <3> QED BY <2>1, <3>1 DEF repo
  <2>2. CASE g # f
    BY <1>2, <2>2, Lists DEF ReportedVerified
  <2> QED BY <2>1, <2>2
<1> QED BY <1>3, <1>4, <1>5, <1>6, <1>7

LEMMA DownloadStep == ASSUME IInv, NEW f \in File, Download(f) PROVE IInv'
<1> USE DEF IInv
<1>1. /\ pc = "download" /\ f \in Contracts[repo]
      /\ UNCHANGED <<i, numAttempts, REWRITE_FILES, reported>>
  BY DEF Download, Downloading, Request, RequestFails, ReceiveGood, ReceiveDamaged,
         BreaksOff, Verify
<1>2. /\ disk[f] \in {"absent", "old", "partial"} \union Repo
      /\ disk = [disk EXCEPT ![f] = disk[f]]
      /\ task[f] \in Task /\ task = [task EXCEPT ![f] = task[f]]
  BY DEF TypeOK
<1>3. repo \in Repo /\ repo \notin {"absent", "old", "partial"}
  BY Lists DEF TypeOK, repo
<1>4. CASE Request(f)
  BY <1>1, <1>3, <1>4, FileMoves DEF Request, Becomes, Task
<1>5. CASE RequestFails(f)
  <2>1. task[f] = "requested" /\ pc' = "crashed" /\ disk' = disk /\ task' = task
    BY <1>5 DEF RequestFails, Downloading
  <2> QED BY <1>1, <1>2, <2>1, FileMoves
<1>6. CASE ReceiveGood(f)
  BY <1>1, <1>3, <1>6, FileMoves DEF ReceiveGood, Becomes, Task
<1>7. CASE ReceiveDamaged(f)
  <2>1. task' = [task EXCEPT ![f] = "written"] /\ pc' = pc /\ disk' = disk
    BY <1>7 DEF ReceiveDamaged, Becomes
  <2> QED BY <1>1, <1>2, <2>1, FileMoves DEF Task
<1>8. CASE BreaksOff(f)
  <2>1. task' = [task EXCEPT ![f] = "stalled"] /\ pc' = pc /\ disk' = disk
    BY <1>8 DEF BreaksOff, Becomes
  <2> QED BY <1>1, <1>2, <2>1, FileMoves DEF Task
<1>9. CASE Verify(f)
  <2>1. pc' = pc /\ disk' = disk
    BY <1>9 DEF Verify
  <2>2. CASE disk[f] = repo
    <3>1. task' = [task EXCEPT ![f] = "done"]
      BY <1>9, <2>2 DEF Verify, Becomes
    <3> QED BY <1>1, <1>2, <2>1, <2>2, <3>1, FileMoves DEF Task
  <2>3. CASE disk[f] # repo
    <3>1. task' = [task EXCEPT ![f] = "sleeping"]
      BY <1>9, <2>3 DEF Verify, Becomes
    <3> QED BY <1>1, <1>2, <2>1, <3>1, FileMoves DEF Task
  <2> QED BY <2>2, <2>3
<1> QED BY <1>4, <1>5, <1>6, <1>7, <1>8, <1>9 DEF Download

LEMMA Inductive == IInv /\ [Next]_vars => IInv'
<1> SUFFICES ASSUME IInv, [Next]_vars PROVE IInv'
  OBVIOUS
<1>1. CASE UNCHANGED vars
  BY <1>1 DEF vars, IInv, TypeOK, TaskInv, TurnInv, LeaveInv, ReportedVerified, repo
<1> QED BY <1>1, MainStep, DownloadStep DEF Next

LEMMA Invariant == Spec => []IInv
<1>1. Init => IInv BY InitIInv
<1>2. IInv /\ [Next]_vars => IInv' BY Inductive
<1> QED BY <1>1, <1>2, PTL DEF Spec

(***************************************************************************)
(* The state of download_artifacts.js has the types of its declarations.    *)
(***************************************************************************)
THEOREM TypeCorrect == Spec => []TypeOK
BY Invariant, PTL DEF IInv

(***************************************************************************)
(* downloadContracts and downloadFile (download_artifacts.js): whatever      *)
(* fails and however the downloads of a repo interleave, the files of a      *)
(* repo reported as downloaded passed their checksums, unless a later repo   *)
(* has a file of the same name.                                              *)
(***************************************************************************)
THEOREM Verified == Spec => []ReportedVerified
BY Invariant, PTL DEF IInv

(***************************************************************************)
(* checkForAlreadyDownloaded (download_artifacts.js): no file that was there *)
(* before is touched without --force or the user's consent.                  *)
(***************************************************************************)
THEOREM Consent == Spec => NothingOverwritten
<1>1. ASSUME IInv, [Next]_vars
      PROVE  [\A f \in File : disk[f] = "old" /\ disk'[f] # "old" => REWRITE_FILES]_vars
  <2> SUFFICES ASSUME NEW f \in File, disk[f] = "old", disk'[f] # "old"
               PROVE  REWRITE_FILES
    OBVIOUS
  <2>1. PICK g \in File : Download(g)
    BY <1>1 DEF Next, vars, Main, FindCommit, GetChecksums, Poll, Ask, Report, Drain,
                Goto, Skip
  <2>2. pc = "download" /\ g \in Contracts[repo]
    BY <2>1 DEF Download, Downloading, Request, RequestFails, ReceiveGood,
                ReceiveDamaged, BreaksOff, Verify
  <2>3. disk' = disk \/ \E content : disk' = [disk EXCEPT ![g] = content]
    BY <2>1 DEF Download, Request, RequestFails, ReceiveGood, ReceiveDamaged,
                BreaksOff, Verify
  <2>4. g = f
    BY <1>1, <2>3 DEF IInv, TypeOK
  <2> QED BY <1>1, <2>2, <2>4 DEF IInv, LeaveInv
<1> QED BY <1>1, Invariant, PTL DEF NothingOverwritten, Spec
===============================================================================
