--------------------------- MODULE DownloadArtifacts ---------------------------
(***************************************************************************)
(* download_artifacts.js: fetches the contract binaries of a list of        *)
(* repositories into one directory, before the tests.  The repositories are *)
(* handled one after another, the files of a repository all at once.        *)
(*                                                                          *)
(* GitHub and the storage bucket are external: any request may fail, a      *)
(* build may never finish, and a body may arrive damaged or break off.  A    *)
(* body that breaks off never settles `finished(writer)`; a process that    *)
(* has nothing left to wait for exits, and one whose main() rejects is      *)
(* ended at once.                                                           *)
(***************************************************************************)
EXTENDS Naturals, Sequences

CONSTANTS
  Repos,        \* the repositories of the command line, in order
  Contracts,    \* Contracts[r]: the files checksums.txt of r lists
  Attempts      \* timeout / DELAY_BETWEEN_TRIES, rounded up

Repo == {Repos[i] : i \in DOMAIN Repos}
File == UNION {Contracts[r] : r \in Repo}

ASSUME ReposAssumption ==
  /\ Repos \in Seq(STRING)
  /\ Len(Repos) > 0
  /\ \A k, l \in DOMAIN Repos : Repos[k] = Repos[l] => k = l
  /\ Repo \cap {"absent", "old", "partial"} = {}
ASSUME ContractsAssumption == Contracts \in [Repo -> SUBSET STRING]
ASSUME AttemptsAssumption == Attempts \in Nat \ {0}

VARIABLES
  pc,          \* "commit", "checksums", "poll", "ask", "download" or an end
  i,           \* the repository is Repos[i]
  numAttempts, \* attempts left of the poll for checksums.txt
  REWRITE_FILES,
  disk,        \* disk[f]: "absent", "old", "partial", or the repo it is of
  task,        \* task[f]: what the download of f is doing
  reported     \* repos reported as downloaded

vars == <<pc, i, numAttempts, REWRITE_FILES, disk, task, reported>>

Ended == {"finished", "drained", "crashed"}
Task == {"idle", "requested", "written", "sleeping", "done", "stalled"}

Init ==
  /\ pc = "commit" /\ i = 1 /\ numAttempts = 0
  /\ REWRITE_FILES \in BOOLEAN                       \* --force
  /\ disk \in [File -> {"absent", "old"}]
  /\ task = [f \in File |-> "idle"]
  /\ reported = {}

repo == Repos[i]
Idle == task' = [f \in File |-> "idle"]

(* a slip: the loop runs past the last repository *)
NextRepoOffByOne ==
  /\ IF i <= Len(Repos) THEN pc' = "commit" /\ i' = i + 1
                        ELSE pc' = "finished" /\ UNCHANGED i
  /\ Idle

(* downloadArtifacts returns: the loop of main() goes on with the next repo *)
NextRepo ==
  /\ IF i < Len(Repos) THEN pc' = "commit" /\ i' = i + 1
                       ELSE pc' = "finished" /\ UNCHANGED i
  /\ Idle

Skip == NextRepo /\ UNCHANGED <<numAttempts, REWRITE_FILES, disk, reported>>

Goto(place) ==
  /\ pc' = place
  /\ UNCHANGED <<i, numAttempts, REWRITE_FILES, disk, task, reported>>

(* isRepoExists, then normalizeCommitHash or getLatestCommit *)
FindCommit == pc = "commit" /\ (Goto("checksums") \/ Skip)

(* getChecksumsTxt: there, or empty; or else a build is launched, which     *)
(* fails without a token or with a bad one.                                 *)
GetChecksums ==
  /\ pc = "checksums"
  /\ \/ Goto("ask")
     \/ Skip
     \/ /\ pc' = "poll" /\ numAttempts' = Attempts
        /\ UNCHANGED <<i, REWRITE_FILES, disk, task, reported>>

(* a slip: when the attempts are used up they are counted again *)
PollStartsOver ==
  /\ pc = "poll"
  /\ \/ Goto("ask")
     \/ /\ numAttempts' = IF numAttempts > 0 THEN numAttempts - 1 ELSE Attempts
        /\ UNCHANGED <<pc, i, REWRITE_FILES, disk, task, reported>>

(* getWithAttempts *)
Poll ==
  /\ pc = "poll"
  /\ \/ numAttempts > 0 /\ Goto("ask")
     \/ /\ numAttempts > 0 /\ numAttempts' = numAttempts - 1
        /\ UNCHANGED <<pc, i, REWRITE_FILES, disk, task, reported>>
     \/ numAttempts = 0 /\ Skip

(* a slip: only a directory with all the files is asked about *)
AskWhenAllExist ==
  /\ pc = "ask"
  /\ IF ~ REWRITE_FILES /\ \A f \in Contracts[repo] : disk[f] # "absent"
       THEN \/ /\ pc' = "download" /\ REWRITE_FILES' = TRUE
               /\ UNCHANGED <<i, numAttempts, disk, task, reported>>
            \/ Skip
       ELSE Goto("download")

(* checkForAlreadyDownloaded: the user agrees once for all, or the repo is  *)
(* left out.                                                                *)
Ask ==
  /\ pc = "ask"
  /\ IF ~ REWRITE_FILES /\ \E f \in Contracts[repo] : disk[f] # "absent"
       THEN \/ /\ pc' = "download" /\ REWRITE_FILES' = TRUE
               /\ UNCHANGED <<i, numAttempts, disk, task, reported>>
            \/ Skip
       ELSE Goto("download")

-------------------------------------------------------------------------------
(* downloadFile of one of the files *)

Downloading(f, state) ==
  /\ pc = "download" /\ f \in Contracts[repo] /\ task[f] = state
  /\ UNCHANGED <<i, numAttempts, REWRITE_FILES, reported>>

Becomes(f, state) == task' = [task EXCEPT ![f] = state]

(* createWriteStream empties the file; the request goes out. *)
Request(f) ==
  /\ Downloading(f, "idle") \/ Downloading(f, "sleeping")
  /\ disk' = [disk EXCEPT ![f] = "partial"]
  /\ Becomes(f, "requested")
  /\ UNCHANGED pc

(* The request is refused: Promise.all rejects, and so does main().         *)
RequestFails(f) ==
  /\ Downloading(f, "requested")
  /\ pc' = "crashed"
  /\ UNCHANGED <<disk, task>>

(* The body is written: it is the file of the repo's build, or it is not.   *)
ReceiveGood(f) ==
  /\ Downloading(f, "requested")
  /\ disk' = [disk EXCEPT ![f] = repo]
  /\ Becomes(f, "written")
  /\ UNCHANGED pc

ReceiveDamaged(f) ==
  /\ Downloading(f, "requested")
  /\ Becomes(f, "written")
  /\ UNCHANGED <<pc, disk>>

BreaksOff(f) ==
  /\ Downloading(f, "requested")
  /\ Becomes(f, "stalled")
  /\ UNCHANGED <<pc, disk>>

(* a slip: the checksum is not compared *)
VerifyNothing(f) ==
  /\ Downloading(f, "written")
  /\ Becomes(f, "done")
  /\ UNCHANGED <<pc, disk>>

(* The checksum matches, or the file is downloaded again a second later.    *)
Verify(f) ==
  /\ Downloading(f, "written")
  /\ Becomes(f, IF disk[f] = repo THEN "done" ELSE "sleeping")
  /\ UNCHANGED <<pc, disk>>

(* Promise.all resolves. *)
Report ==
  /\ pc = "download"
  /\ \A f \in Contracts[repo] : task[f] = "done"
  /\ reported' = reported \union {repo}
  /\ NextRepo
  /\ UNCHANGED <<numAttempts, REWRITE_FILES, disk>>

Drain ==
  /\ pc = "download"
  /\ \A f \in Contracts[repo] : task[f] \in {"done", "stalled"}
  /\ \E f \in Contracts[repo] : task[f] = "stalled"
  /\ Goto("drained")

Download(f) ==
  \/ Request(f) \/ RequestFails(f) \/ ReceiveGood(f) \/ ReceiveDamaged(f)
  \/ BreaksOff(f) \/ Verify(f)

Main == FindCommit \/ GetChecksums \/ Poll \/ Ask \/ Report \/ Drain

Next == Main \/ \E f \in File : Download(f)

(* Every await settles or the process drains, and a file that is requested  *)
(* over and over is not damaged every time.                                 *)
Spec ==
  /\ Init /\ [][Next]_vars
  /\ WF_vars(Main)
  /\ \A f \in File : WF_vars(Download(f)) /\ SF_vars(ReceiveGood(f))

-------------------------------------------------------------------------------
TypeOK ==
  /\ pc \in {"commit", "checksums", "poll", "ask", "download"} \union Ended
  /\ i \in DOMAIN Repos
  /\ numAttempts \in 0 .. Attempts
  /\ REWRITE_FILES \in BOOLEAN
  /\ disk \in [File -> {"absent", "old", "partial"} \union Repo]
  /\ task \in [File -> Task]
  /\ reported \subseteq Repo

(* "Contracts are downloaded": the files of a repo reported so have the     *)
(* content of its checksums.txt, and keep it until a later repo that has a  *)
(* file of the same name, whatever was refused, damaged or broken off.      *)
ReportedVerified ==
  \A k \in DOMAIN Repos : Repos[k] \in reported =>
    \A f \in Contracts[Repos[k]] :
      \/ disk[f] = Repos[k]
      \/ \E l \in k + 1 .. i : f \in Contracts[Repos[l]]

(* A file that was there before is touched only if the user agreed to       *)
(* overwrite files, now or for an earlier repo, or passed --force.          *)
NothingOverwritten ==
  [][\A f \in File : disk[f] = "old" /\ disk'[f] # "old" => REWRITE_FILES]_vars

(* The program ends. *)
Ends == <>(pc \in Ended)
===============================================================================
