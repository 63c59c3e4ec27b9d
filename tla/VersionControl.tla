--------------------------- MODULE VersionControl ---------------------------
(***************************************************************************)
(* tested: a version control system over an in-memory working directory.   *)
(* A *workdir.WorkDir is an index into heap, so that two owners of one     *)
(* directory are told apart from two owners of equal ones: the caller      *)
(* keeps editing the tracked directory and every directory it checked out. *)
(***************************************************************************)
EXTENDS Naturals, Sequences, SequencesExt, FiniteSets

CONSTANTS
  Paths,      (* file and directory names                                  *)
  Chars,      (* characters of a content                                   *)
  Messages,   (* commit messages                                           *)
  MaxLength,  (* bound on the length of a content                          *)
  MaxCommits, (* bound on the number of commits                            *)
  MaxHeap,    (* bound on the number of directories                        *)
  MaxSteps    (* bound on how far back a reference goes                    *)

ASSUME VCAssumption ==
  /\ MaxLength \in Nat /\ MaxCommits \in Nat /\ MaxSteps \in Nat
  /\ MaxHeap \in Nat \ {0}

VARIABLES
  heap,     (* the directories: their files with contents, and their dirs  *)
  commits,  (* VC.commits: message and snapshot                            *)
  staged,   (* VC.staged: path -> content                                  *)
  checkouts,(* the directories that Checkout has returned                  *)
  answer,   (* what the last call returned                                 *)
  past      (* history: each commit's message and the directory then       *)

vcVars == <<heap, commits, staged, checkouts, answer, past>>

wd == 1  (* VC.wd: the directory passed to Init                              *)

Contents == BoundedSeq(Chars, MaxLength)
Files == UNION {[P -> Contents] : P \in SUBSET Paths}
Directories == [files : Files, dirs : SUBSET Paths]
InitEmptyWorkDir == [files |-> [p \in {} |-> <<>>], dirs |-> {}]

Done == [kind |-> "done"]
Failed == [kind |-> "error"]

VCInit ==
  /\ heap = <<InitEmptyWorkDir>>
  /\ commits = <<>>
  /\ staged = [p \in {} |-> <<>>]
  /\ checkouts = {}
  /\ answer = Done
  /\ past = <<>>

-----------------------------------------------------------------------------
(* The directories the caller holds and may edit: the tracked one and what *)
(* Checkout returned.                                                      *)

Snapshots == {commits[i].snapshot : i \in DOMAIN commits}
Held == {wd} \cup checkouts

Has(d, p) == p \in DOMAIN heap[d].files
CatFile(d, p) == heap[d].files[p]

Put(files, p, c) == [q \in DOMAIN files \cup {p} |-> IF q = p THEN c ELSE files[q]]

Reply(a) == answer' = a
KeepHistory == UNCHANGED <<commits, staged, past>>
Fail == Reply(Failed) /\ UNCHANGED <<heap, checkouts>>

(* w.files[path] = content.                                                *)
Store(d, p, c) ==
  /\ heap' = [heap EXCEPT ![d].files = Put(@, p, c)]
  /\ Reply(Done)
  /\ UNCHANGED checkouts

CreateFile(d, p) ==
  /\ IF Has(d, p) THEN Fail ELSE Store(d, p, <<>>)
  /\ KeepHistory

CreateDir(d, p) ==
  /\ IF p \in heap[d].dirs \/ Has(d, p)
     THEN Fail
     ELSE /\ heap' = [heap EXCEPT ![d].dirs = @ \cup {p}]
          /\ Reply(Done)
          /\ UNCHANGED checkouts
  /\ KeepHistory

WriteToFile(d, p, c) ==
  /\ IF ~Has(d, p) THEN Fail ELSE Store(d, p, c)
  /\ KeepHistory

AppendToFile(d, p, c) ==
  /\ IF ~Has(d, p)
     THEN Fail
     ELSE /\ Len(CatFile(d, p) \o c) <= MaxLength
          /\ Store(d, p, CatFile(d, p) \o c)
  /\ KeepHistory

-----------------------------------------------------------------------------
(* Clone: a new directory with its own maps, and the id it gets; and the   *)
(* pointer itself, in its place.                                           *)

Shared(d) == [heap |-> heap, id |-> d]
Clone(d) == [heap |-> Append(heap, heap[d]), id |-> Len(heap) + 1]

(* VC.Add: stage the named files that exist; AddAll: stage every file.     *)
Stage(P) ==
  staged' = [p \in DOMAIN staged \cup P |-> IF p \in P THEN CatFile(wd, p) ELSE staged[p]]

VCAdd(P) ==
  /\ Stage({p \in P : Has(wd, p)})
  /\ Reply(Done)
  /\ UNCHANGED <<heap, commits, checkouts, past>>

AddAll ==
  /\ Stage(DOMAIN heap[wd].files)
  /\ Reply([kind |-> "all staged"])
  /\ UNCHANGED <<heap, commits, checkouts, past>>

CommitKeepingStaged(message) ==
  LET snapshot == Clone(wd) IN
  /\ heap' = snapshot.heap
  /\ commits' = Append(commits, [message |-> message, snapshot |-> snapshot.id])
  /\ Reply([kind |-> "committed"])
  /\ past' = Append(past, [message |-> message, directory |-> heap[wd]])
  /\ UNCHANGED <<staged, checkouts>>

Commit(message) ==
  LET snapshot == Clone(wd) IN
  /\ heap' = snapshot.heap
  /\ commits' = Append(commits, [message |-> message, snapshot |-> snapshot.id])
  /\ staged' = [p \in {} |-> <<>>]
  /\ Reply([kind |-> "committed"])
  /\ past' = Append(past, [message |-> message, directory |-> heap[wd]])
  /\ UNCHANGED checkouts

(* A reference: "~N", a run of carets, or anything else.  "~N" with an N   *)
(* that is no natural number is refused as any other text is.              *)
References ==
       [kind : {"tilde"}, count : 0..MaxSteps]
  \cup [kind : {"carets"}, count : 1..MaxSteps]
  \cup {[kind |-> "other"]}

(* What Checkout returns of a snapshot.  A slip: the snapshot itself.       *)
ReturnedItself(snapshot) == Shared(snapshot)
Returned(snapshot) == Clone(snapshot)

Checkout(ref) ==
  /\ IF commits = <<>> \/ ref.kind = "other" \/ ref.count >= Len(commits)
     THEN Fail
     ELSE LET copy == Returned(commits[Len(commits) - ref.count].snapshot) IN
          /\ heap' = copy.heap
          /\ checkouts' = checkouts \cup {copy.id}
          /\ Reply([kind |-> "checkout", steps |-> ref.count, dir |-> copy.id])
  /\ KeepHistory

(* Status: the files staged, and those that differ from the last commit    *)
(* and from what was staged of them.                                       *)
StagedFiles == IF commits = <<>> THEN {} ELSE DOMAIN staged
Changed ==
  LET lastSnap == heap[Last(commits).snapshot].files IN
  {p \in DOMAIN heap[wd].files : p \notin DOMAIN lastSnap \/ lastSnap[p] # CatFile(wd, p)}
ModifiedFiles ==
  IF commits = <<>> THEN {}
  ELSE {p \in Changed : p \notin DOMAIN staged \/ staged[p] # CatFile(wd, p)}

(* Log: the messages, the latest first.                                    *)
Log == Reverse([i \in DOMAIN commits |-> commits[i].message])

-----------------------------------------------------------------------------
Edit ==
  \E d \in Held, p \in Paths :
    \/ CreateFile(d, p)
    \/ CreateDir(d, p)
    \/ \E c \in Contents : WriteToFile(d, p, c) \/ AppendToFile(d, p, c)

VCNext ==
  \/ Edit
  \/ AddAll
  \/ \E P \in SUBSET Paths : VCAdd(P)
  \/ /\ Len(commits) < MaxCommits /\ Len(heap) < MaxHeap
     /\ \E message \in Messages : Commit(message)
  \/ /\ Len(heap) < MaxHeap
     /\ \E ref \in References : Checkout(ref)

VCSpec == VCInit /\ [][VCNext]_vcVars

-----------------------------------------------------------------------------
(* Every variable stays in its type, and a snapshot belongs to one commit  *)
(* only and is never a directory that the caller holds.                    *)
VCTypeOK ==
  /\ heap \in Seq(Directories) /\ Len(heap) \in 1..MaxHeap
  /\ Len(commits) <= MaxCommits /\ Len(past) = Len(commits)
  /\ Held \subseteq DOMAIN heap
  /\ \A i \in DOMAIN commits : commits[i].snapshot \in DOMAIN heap \ Held
  /\ Cardinality(Snapshots) = Len(commits)
  /\ staged \in Files

(* A checkout returns the directory exactly as it was at the commit the    *)
(* reference names, counted back from the latest, whatever was edited      *)
(* since in the tracked directory or in other checkouts; and Log names the *)
(* commits in that same order.                                             *)
CheckoutRestores ==
  answer.kind = "checkout" =>
    past[Len(past) - answer.steps] =
      [message |-> Log[answer.steps + 1], directory |-> heap[answer.dir]]

(* Status tells what a commit would record: after a commit it lists        *)
(* nothing, after AddAll nothing is modified but not staged, and a file it *)
(* does not list is as the last commit recorded it.                        *)
StatusTells ==
  /\ answer.kind = "committed" => ModifiedFiles \cup StagedFiles = {}
  /\ answer.kind = "all staged" => ModifiedFiles = {}
  /\ commits # <<>> =>
       \A p \in DOMAIN heap[wd].files \ (ModifiedFiles \cup StagedFiles) :
         /\ p \in DOMAIN Last(past).directory.files
         /\ Last(past).directory.files[p] = CatFile(wd, p)
=============================================================================
