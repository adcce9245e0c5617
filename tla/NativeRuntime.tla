--------------------------- MODULE NativeRuntime ---------------------------
(***************************************************************************)
(* The runtime record of one account (src/native_runtime.rs): which        *)
(* OpenCode executable the account runs.  A request resolves it under the  *)
(* account's lock; a replacement of the executable at the same path is     *)
(* admitted when it is reviewed or a newer version than the recorded one.  *)
(*                                                                         *)
(* The executable is somebody else's file: it may be replaced between any  *)
(* two looks at it.  A stamp (size, inode and times) names one file that   *)
(* was at the path.                                                        *)
(***************************************************************************)
EXTENDS Integers, Sequences

CONSTANTS
  Process,    \* invocations of the provider
  Program,    \* contents the executable may have
  Version,    \* what each prints for --version
  Reviewed,   \* those in the implementation manifest
  Found,      \* the schemas a record may be found with
  MaxStamp,   \* replacements considered
  None

ASSUME RuntimeConstantsOK ==
  /\ Version \in [Program -> Nat]
  /\ Reviewed \subseteq Program
  /\ Found \subseteq {"current", "pinned", "direct", "wrapper"}
  /\ MaxStamp \in Nat \ {0}

VARIABLES
  files,    \* the contents that have been at the path; the last one is there
  record,   \* the account's runtime record
  job       \* the resolution each process is in

runtimeVars == <<files, record, job>>

-----------------------------------------------------------------------------
\* Schema 6; 4 and 5, which pin the same things; 2 and 3, without a stamp; 1, which names a
\* wrapper script.
Schema == {"current", "pinned", "direct", "wrapper"}

RuntimeRecord ==
  [schema : Schema, content : Program, version : Nat, stamp : Nat]

Stamp == Len(files)

Content == files[Stamp]

\* approved_implementation: the manifest names the content, and its version.
Approved(c) == c \in Reviewed

\* recorded_implementation: the manifest's entry, or else any version the record was
\* advanced to.
Recorded(r) == Approved(r.content) => r.version = Version[r.content]

\* validate_current_runtime_implementation: the stamp tells that the admitted file is still
\* there.
Pinned(r) == r.stamp = Stamp /\ Recorded(r)

\* validate_predecessor_runtime_implementation: the content tells, and it has to be reviewed.
Confirmed(r) ==
  /\ Content = r.content /\ Approved(r.content)
  /\ r.schema = "pinned" => r.version = Version[r.content]

\* validate_runtime_record.  The wrapper a record of schema 1 names is never run, and is not
\* in the model.
ValidRecord(r) ==
  CASE r.schema = "current" -> Pinned(r)
    [] r.schema \in {"pinned", "direct"} -> Confirmed(r)
    [] r.schema = "wrapper" -> TRUE

Job ==
  [at : {"preview", "hash", "check", "probe", "final"},
   prior : {None} \cup RuntimeRecord,
   stamp : Nat, content : {None} \cup Program, version : Nat]

RuntimeInit ==
  /\ files \in {<<c>> : c \in Program}
  /\ record \in {None} \cup
       {[schema |-> s, content |-> c, version |-> Version[c], stamp |-> IF s \in {"current", "pinned"} THEN 1 ELSE 0] :
          s \in Found, c \in Reviewed \cap {files[1]}}
  /\ job = [p \in Process |-> None]

RuntimeFree == \A p \in Process : job[p] = None

\* The executable is replaced, by its own updater or by an operator.
Replace(c) ==
  /\ Stamp < MaxStamp
  /\ files' = Append(files, c)
  /\ UNCHANGED <<record, job>>

\* acquire_runtime_lock and read_runtime_record
Resolve(p) ==
  /\ job[p] = None /\ RuntimeFree
  /\ job' = [job EXCEPT ![p] =
       [at |-> "preview", prior |-> record, stamp |-> 0, content |-> None, version |-> 0]]
  /\ UNCHANGED <<files, record>>

Leave(p) == job' = [job EXCEPT ![p] = None]

Step(p, from, to) ==
  /\ job[p] # None /\ job[p].at = from
  /\ job' = [job EXCEPT ![p].at = to]

Schematic(p) == IF job[p].prior = None THEN "none" ELSE job[p].prior.schema

\* The record stands, or one of schema 4 or 5 is rewritten in place.
Keep(p) ==
  /\ job[p] # None /\ job[p].at = "preview"
  /\ Schematic(p) \in {"current", "pinned"} /\ Pinned(job[p].prior)
  /\ record' = IF Schematic(p) = "current" THEN record
               ELSE [job[p].prior EXCEPT !.schema = "current"]
  /\ Leave(p)
  /\ UNCHANGED files

\* candidate_context: without a record that pins an executable the selected one is looked at.
Candidate(p) == Schematic(p) \in {"none", "direct", "wrapper"}

\* preview_approved_same_path_replacement: the executable of a current record was replaced,
\* and the one it named had been admitted.
Replaced(p) ==
  /\ Schematic(p) = "current"
  /\ ~Pinned(job[p].prior)
  /\ Recorded(job[p].prior)

\* The first look takes the executable's stamp.  A pinned predecessor that no longer fits is
\* not looked at.
Examine(p) ==
  /\ job[p] # None /\ job[p].at = "preview"
  /\ Candidate(p) \/ Replaced(p)
  /\ job' = [job EXCEPT ![p].at = "hash", ![p].stamp = Stamp]
  /\ UNCHANGED <<files, record>>

Hash(p) ==
  /\ job[p] # None /\ job[p].at = "hash"
  /\ job' = [job EXCEPT ![p].at = "check", ![p].content = Content]
  /\ UNCHANGED <<files, record>>

\* Seeded fault: a stamp taken before the content was read is enough.
StillThereOnce(p) == TRUE

\* The stamp is taken again after the content was read.
StillThere(p) == job[p].stamp = Stamp

\* The content is reviewed, and that of a record that was already direct.
Admit(p) ==
  /\ Step(p, "check", "final")
  /\ StillThere(p)
  /\ Approved(job[p].content)
  /\ Schematic(p) = "direct" => job[p].content = job[p].prior.content
  /\ UNCHANGED <<files, record>>

\* An implementation nobody reviewed needs a record to be newer than.
NeedsProbe(p) ==
  /\ Step(p, "check", "probe")
  /\ StillThere(p)
  /\ ~Approved(job[p].content)
  /\ Schematic(p) = "current"
  /\ UNCHANGED <<files, record>>

\* probe_opencode_version: whatever is at the path now is asked.
Answers == Version[Content]

\* admit_forward_auto_update
Forward(p) == Answers > job[p].prior.version

Probe(p) ==
  /\ job[p] # None /\ job[p].at = "probe"
  /\ Forward(p)
  /\ job' = [job EXCEPT ![p].at = "final", ![p].version = Answers]
  /\ UNCHANGED <<files, record>>

\* What is bound: the manifest's version of a reviewed content, the printed one of another.
Bound(j) ==
  [schema |-> "current", content |-> j.content, stamp |-> j.stamp,
   version |-> IF Approved(j.content) THEN Version[j.content] ELSE j.version]

\* The last look at the stamp, which a record that was already direct goes without, and
\* write_runtime_context.
Activate(p) ==
  /\ job[p] # None /\ job[p].at = "final"
  /\ Schematic(p) = "direct" \/ StillThere(p)
  /\ record' = Bound(job[p])
  /\ Leave(p)
  /\ UNCHANGED files

\* A check fails, the deadline passes or the process dies: nothing was written.
GiveUp(p) ==
  /\ job[p] # None
  /\ Leave(p)
  /\ UNCHANGED <<files, record>>

Resolving(p) ==
  Keep(p) \/ Examine(p) \/ Hash(p) \/ Admit(p) \/ NeedsProbe(p) \/ Probe(p)
    \/ Activate(p) \/ GiveUp(p)

RuntimeTypeOK ==
  /\ files \in Seq(Program) /\ Len(files) \in 1..MaxStamp
  /\ record \in {None} \cup RuntimeRecord
  /\ job \in [Process -> {None} \cup Job]

\* A record names one file that was at the path: the content that was hashed and the version
\* that was printed are those of the file with the recorded stamp, although the file may be
\* replaced between any two of the looks that found them.
AdmittedIsWhole ==
  record # None /\ record.schema = "current"
    => /\ files[record.stamp] = record.content
       /\ record.version = Version[record.content]

=============================================================================
