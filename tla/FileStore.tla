------------------------------ MODULE FileStore ------------------------------
(***************************************************************************)
(* FileBackedRunStore (src/storage/mod.rs): a snapshot is written to       *)
(* {run_id}.json.tmp and renamed to {run_id}.json.  A file is what the     *)
(* operating system makes of it: names refer to it, open handles keep      *)
(* writing to it under whatever name it has, and it outlives the process.  *)
(* It is reduced to a few pieces, written and read one after another.      *)
(***************************************************************************)
EXTENDS Naturals

CONSTANTS
  Callers,      \* calls of the store in progress at once
  RunIds,
  Pieces,       \* the longest snapshot, in pieces
  MaxPuts,      \* puts that are begun
  Overlap       \* whether two puts of one run may be in progress at once

ASSUME StoreAssumption == Pieces \in Nat \ {0} /\ MaxPuts \in Nat /\ Overlap \in BOOLEAN

VARIABLES
  file,         \* the contents of files; a file is named by the put that created it
  temporary,    \* run id -> the file {run_id}.json.tmp, or 0
  published,    \* run id -> the file {run_id}.json, or 0
  call,         \* caller -> what its put or get holds
  puts          \* history: puts begun so far; the snapshot of a put bears its number

disk == <<file, temporary, published>>
vars == <<disk, call, puts>>

Numbers == 1 .. MaxPuts

Content == [1 .. Pieces -> 0 .. MaxPuts]   \* 0 where nothing is written

Blank == [p \in 1 .. Pieces |-> 0]

\* A file with the whole snapshot no of the given size and nothing else.
Whole(no, size) == [p \in 1 .. Pieces |-> IF p <= size THEN no ELSE 0]

IsWhole(content) == \E no \in Numbers, size \in 1 .. Pieces : content = Whole(no, size)

Idle == [at |-> "idle"]

Init == /\ file = [n \in Numbers |-> Blank]
        /\ temporary = [r \in RunIds |-> 0]
        /\ published = [r \in RunIds |-> 0]
        /\ call = [k \in Callers |-> Idle]
        /\ puts = 0

Set(k, c) == call' = [call EXCEPT ![k] = c]

Putting(k) == call[k].at \in {"write", "rename"}

-----------------------------------------------------------------------------
(* put_snapshot *)

\* Mutant of Open: the snapshot is written in place.
OpenInPlace(k, r, size) ==
  /\ call[k] = Idle /\ puts < MaxPuts
  /\ Overlap \/ ~\E j \in Callers : Putting(j) /\ call[j].run = r
  /\ puts' = puts + 1
  /\ LET f == IF published[r] # 0 THEN published[r] ELSE puts + 1 IN
     /\ file' = [file EXCEPT ![f] = Blank]
     /\ temporary' = [temporary EXCEPT ![r] = f]
     /\ Set(k, [at |-> "write", run |-> r, no |-> puts + 1, size |-> size, handle |-> f, done |-> 0])
  /\ UNCHANGED published

\* fs::write opens the temporary file of the run, creating it or emptying it.
Open(k, r, size) ==
  /\ call[k] = Idle /\ puts < MaxPuts
  /\ Overlap \/ ~\E j \in Callers : Putting(j) /\ call[j].run = r
  /\ puts' = puts + 1
  /\ LET f == IF temporary[r] # 0 THEN temporary[r] ELSE puts + 1 IN
     /\ file' = [file EXCEPT ![f] = Blank]
     /\ temporary' = [temporary EXCEPT ![r] = f]
     /\ Set(k, [at |-> "write", run |-> r, no |-> puts + 1, size |-> size, handle |-> f, done |-> 0])
  /\ UNCHANGED published

\* Mutant of Write: a failing write is passed over.
WritePassesOver(k) ==
  /\ call[k].at = "write"
  /\ LET c == call[k] IN
     /\ file' = [file EXCEPT ![c.handle][c.done + 1] = c.no] \/ file' = file
     /\ Set(k, [c EXCEPT !.done = @ + 1, !.at = IF c.done + 1 = c.size THEN "rename" ELSE "write"])
  /\ UNCHANGED <<temporary, published, puts>>

\* Mutant of Write: the loop runs once too often.
WriteOneMore(k) ==
  /\ call[k].at = "write"
  /\ LET c == call[k] IN
     /\ file' = [file EXCEPT ![c.handle][c.done + 1] = c.no]
     /\ Set(k, [c EXCEPT !.done = @ + 1, !.at = IF c.done = c.size THEN "rename" ELSE "write"])
  /\ UNCHANGED <<temporary, published, puts>>

\* fs::write writes the next piece at its own offset.
Write(k) ==
  /\ call[k].at = "write"
  /\ LET c == call[k] IN
     /\ file' = [file EXCEPT ![c.handle][c.done + 1] = c.no]
     /\ Set(k, [c EXCEPT !.done = @ + 1, !.at = IF c.done + 1 = c.size THEN "rename" ELSE "write"])
  /\ UNCHANGED <<temporary, published, puts>>

\* fs::rename publishes whatever file has the temporary name, and the caller is
\* told Ok; without such a file it fails.
Rename(k) ==
  /\ call[k].at = "rename" /\ temporary[call[k].run] # 0
  /\ published' = [published EXCEPT ![call[k].run] = temporary[call[k].run]]
  /\ temporary' = [temporary EXCEPT ![call[k].run] = 0]
  /\ Set(k, Idle)
  /\ UNCHANGED <<file, puts>>

\* A write or a rename fails and the error is returned; the files stay.
Fail(k) == Putting(k) /\ Set(k, Idle) /\ UNCHANGED <<disk, puts>>

-----------------------------------------------------------------------------
(* get_snapshot *)

\* The published file is there and is opened; it never goes in between.
Get(k, r) ==
  /\ call[k] = Idle /\ published[r] # 0
  /\ Set(k, [at |-> "read", run |-> r, handle |-> published[r], got |-> Blank, done |-> 0])
  /\ UNCHANGED <<disk, puts>>

\* fs::read reads the next piece; after the last the snapshot is parsed.
Read(k) ==
  /\ call[k].at = "read" /\ call[k].done < Pieces
  /\ LET c == call[k] IN
     Set(k, [c EXCEPT !.done = @ + 1, !.got[c.done + 1] = file[c.handle][c.done + 1]])
  /\ UNCHANGED <<disk, puts>>

\* The snapshot is returned, or the error of a file that does not parse.
Return(k) == /\ call[k].at = "read" /\ call[k].done = Pieces
             /\ Set(k, Idle) /\ UNCHANGED <<disk, puts>>

\* The process dies; the files stay as they are.
Crash == call' = [k \in Callers |-> Idle] /\ UNCHANGED <<disk, puts>>

Next == \/ \E k \in Callers, r \in RunIds : Get(k, r) \/ \E size \in 1 .. Pieces : Open(k, r, size)
        \/ \E k \in Callers : Write(k) \/ Rename(k) \/ Fail(k) \/ Read(k) \/ Return(k)
        \/ Crash

Spec == Init /\ [][Next]_vars

-----------------------------------------------------------------------------
(* Properties *)

CallTypeOK(c, files) ==
  CASE c.at = "idle" -> c = Idle
    [] c.at = "read" -> /\ c.run \in RunIds /\ c.handle \in 1 .. files
                        /\ c.got \in Content /\ c.done \in 0 .. Pieces
    [] OTHER -> /\ c.at \in {"write", "rename"} /\ c.run \in RunIds
                /\ c.handle \in 1 .. files /\ c.no \in 1 .. files
                /\ c.size \in 1 .. Pieces /\ c.done \in 0 .. c.size

\* Types of the state; a handle is that of a file some put has created.
TypeOK ==
  /\ file \in [Numbers -> Content]
  /\ temporary \in [RunIds -> 0 .. puts] /\ published \in [RunIds -> 0 .. puts]
  /\ puts \in 0 .. MaxPuts
  /\ \A k \in Callers : CallTypeOK(call[k], puts)

\* A file under its final name holds one whole snapshot and nothing else, whatever
\* put was cut off by an error or the end of the process.
\* (docs/MOVA_AGENT_API_PERSISTENCE_PROMOTION_BLOCK_V0.md: the file-backed adapter
\* "provides deterministic durable behavior".)
PublishedWhole == \A r \in RunIds : published[r] # 0 => IsWhole(file[published[r]])

\* The number of the snapshot a file holds; 0 for a file that does not parse.
SnapshotIn(content) == IF IsWhole(content) THEN content[1] ELSE 0

\* The store as its callers see it.
StoredSnapshots == [r \in RunIds |-> IF published[r] = 0 THEN 0 ELSE SnapshotIn(file[published[r]])]

Operation(k) ==
  CASE Putting(k) -> [is |-> "put", run |-> call[k].run, value |-> call[k].no]
    [] call[k].at = "read" -> [is |-> "get", run |-> call[k].run,
                               value |-> SnapshotIn(IF call[k].done = Pieces THEN call[k].got
                                                    ELSE file[call[k].handle])]
    [] OTHER -> [is |-> "none"]

Store == INSTANCE RunStore WITH Snapshots <- Numbers, Absent <- 0, stored <- StoredSnapshots,
                                op <- [k \in Callers |-> Operation(k)]

\* The file-backed store implements the map the other modules take it for, as long
\* as no two puts of one run overlap: a put takes effect at its rename, a get
\* returns the snapshot that was published when it opened the file, also when it
\* is replaced while it is read, and neither errors nor the end of the process
\* leave anything in between.
StoreIsAtomicMap == Store!Spec

=============================================================================
