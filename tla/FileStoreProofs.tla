---------------------------- MODULE FileStoreProofs ----------------------------
(***************************************************************************)
(* Proof that FileStore implements RunStore when no two puts of one run    *)
(* overlap, for any callers, runs, sizes of snapshots and numbers of puts. *)
(***************************************************************************)
EXTENDS FileStore, TLAPS

-----------------------------------------------------------------------------
(* The inductive invariant.  No file has two names that are written under. *)
(* A put writes the temporary file of its run, alone, and has filled it up *)
(* to where it stands; a get reads a file that is whole and stays so.      *)

NamesApart ==
  \A r \in RunIds : temporary[r] # 0 =>
    /\ \A s \in RunIds : temporary[r] # published[s]
    /\ \A s \in RunIds \ {r} : temporary[r] # temporary[s]

PutInv(k) == LET c == call[k] IN
  /\ temporary[c.run] = c.handle /\ file[c.handle] = Whole(c.no, c.done)
  /\ c.at = "write" => c.done < c.size
  /\ c.at = "rename" => c.done = c.size

PutsApart == \A j, k \in Callers : Putting(j) /\ Putting(k) /\ call[j].run = call[k].run => j = k

\* The first n pieces of a file.
Prefix(content, n) == [p \in 1 .. Pieces |-> IF p <= n THEN content[p] ELSE 0]

GetInv(k) == LET c == call[k] IN
  /\ IsWhole(file[c.handle]) /\ \A r \in RunIds : temporary[r] # c.handle
  /\ c.got = Prefix(file[c.handle], c.done)

IInv == /\ TypeOK /\ call = [k \in Callers |-> call[k]]
        /\ NamesApart /\ PutsApart /\ PublishedWhole
        /\ \A k \in Callers : /\ Putting(k) => PutInv(k)
                              /\ call[k].at = "read" => GetInv(k)

-----------------------------------------------------------------------------
(* Contents of files *)

LEMMA BlankIsWhole ==
  ASSUME NEW no \in Nat
  PROVE  Blank = Whole(no, 0) /\ (MaxPuts \in Nat => Blank \in Content)
BY StoreAssumption DEF Blank, Whole, Content

LEMMA WholeType ==
  ASSUME NEW no \in 0 .. MaxPuts, NEW size
  PROVE  Whole(no, size) \in Content
BY StoreAssumption DEF Whole, Content

LEMMA NextPiece ==
  ASSUME NEW no \in Nat, NEW done \in 0 .. Pieces - 1
  PROVE  [Whole(no, done) EXCEPT ![done + 1] = no] = Whole(no, done + 1)
<1> DEFINE l == [Whole(no, done) EXCEPT ![done + 1] = no]
<1>1. l = [p \in 1 .. Pieces |-> IF p = done + 1 THEN no ELSE Whole(no, done)[p]]
  BY DEF Whole
<1>2. \A p \in 1 .. Pieces : (IF p = done + 1 THEN no ELSE Whole(no, done)[p])
                               = (IF p <= done + 1 THEN no ELSE 0)
  BY StoreAssumption DEF Whole
<1> HIDE DEF l
<1> QED BY <1>1, <1>2 DEF Whole, l

LEMMA PrefixGrows ==
  ASSUME NEW content \in Content, NEW n \in 0 .. Pieces - 1
  PROVE  [Prefix(content, n) EXCEPT ![n + 1] = content[n + 1]] = Prefix(content, n + 1)
<1> DEFINE l == [Prefix(content, n) EXCEPT ![n + 1] = content[n + 1]]
<1>1. l = [p \in 1 .. Pieces |-> IF p = n + 1 THEN content[n + 1] ELSE Prefix(content, n)[p]]
  BY DEF Prefix
<1>2. \A p \in 1 .. Pieces : (IF p = n + 1 THEN content[n + 1] ELSE Prefix(content, n)[p])
                               = (IF p <= n + 1 THEN content[p] ELSE 0)
  BY StoreAssumption DEF Prefix
<1> HIDE DEF l
<1> QED BY <1>1, <1>2 DEF Prefix, l

LEMMA PrefixType ==
  ASSUME NEW content \in Content
  PROVE  /\ \A n : Prefix(content, n) \in Content
         /\ Prefix(content, 0) = Blank /\ Prefix(content, Pieces) = content
<1>1. \A n : Prefix(content, n) \in Content
  BY StoreAssumption DEF Prefix, Content
<1>2. Prefix(content, 0) = Blank
  BY StoreAssumption DEF Prefix, Blank
<1>3. Prefix(content, Pieces) = content
  BY StoreAssumption DEF Prefix, Content
<1> QED BY <1>1, <1>2, <1>3

LEMMA WholeParses ==
  ASSUME NEW no \in Numbers, NEW size \in 1 .. Pieces
  PROVE  IsWhole(Whole(no, size)) /\ SnapshotIn(Whole(no, size)) = no
<1>1. IsWhole(Whole(no, size))
  BY DEF IsWhole
<1>2. Whole(no, size)[1] = no
  BY StoreAssumption DEF Whole
<1> QED BY <1>1, <1>2 DEF SnapshotIn

-----------------------------------------------------------------------------
(* What a call in progress holds *)

LEMMA Putter ==
  ASSUME IInv, NEW k \in Callers, Putting(k)
  PROVE  /\ call[k].run \in RunIds /\ call[k].handle \in 1 .. puts /\ call[k].no \in 1 .. puts
         /\ call[k].size \in 1 .. Pieces /\ call[k].done \in 0 .. call[k].size
         /\ temporary[call[k].run] = call[k].handle
         /\ file[call[k].handle] = Whole(call[k].no, call[k].done)
         /\ call[k].at = "write" => call[k].done < call[k].size
         /\ call[k].at = "rename" => call[k].done = call[k].size
         /\ puts \in 0 .. MaxPuts /\ 1 .. puts \subseteq Numbers
<1>1. /\ call[k].run \in RunIds /\ call[k].handle \in 1 .. puts /\ call[k].no \in 1 .. puts
      /\ call[k].size \in 1 .. Pieces /\ call[k].done \in 0 .. call[k].size
  BY DEF IInv, TypeOK, CallTypeOK, Putting
<1>2. puts \in 0 .. MaxPuts /\ 1 .. puts \subseteq Numbers
  BY StoreAssumption DEF IInv, TypeOK, Numbers
<1> QED BY <1>1, <1>2 DEF IInv, PutInv

LEMMA Reader ==
  ASSUME IInv, NEW k \in Callers, call[k].at = "read"
  PROVE  /\ call[k].run \in RunIds /\ call[k].handle \in 1 .. puts
         /\ call[k].done \in 0 .. Pieces /\ call[k].got \in Content
         /\ IsWhole(file[call[k].handle])
         /\ \A r \in RunIds : temporary[r] # call[k].handle
         /\ call[k].got = Prefix(file[call[k].handle], call[k].done)
         /\ call[k].handle \in Numbers
<1>1. /\ call[k].run \in RunIds /\ call[k].handle \in 1 .. puts
      /\ call[k].done \in 0 .. Pieces /\ call[k].got \in Content
  BY DEF IInv, TypeOK, CallTypeOK
<1>2. 1 .. puts \subseteq Numbers
  BY StoreAssumption DEF IInv, TypeOK, Numbers
<1> QED BY <1>1, <1>2 DEF IInv, GetInv

-----------------------------------------------------------------------------
(* What a step does to the calls and what the abstract store sees of it *)

Operations == [k \in Callers |-> Operation(k)]

LEMMA OneCall ==
  ASSUME IInv, NEW k \in Callers, NEW c, Set(k, c), puts' \in puts .. MaxPuts,
         CallTypeOK(c, puts')
  PROVE  /\ call' = [j \in Callers |-> call'[j]]
         /\ call'[k] = c /\ \A j \in Callers \ {k} : call'[j] = call[j]
         /\ \A j \in Callers : CallTypeOK(call'[j], puts')
<1>1. call'[k] = c /\ \A j \in Callers \ {k} : call'[j] = call[j]
  BY DEF Set, IInv
<1>2. call' = [j \in Callers |-> call'[j]]
  BY DEF Set, IInv
<1>3. ASSUME NEW d, CallTypeOK(d, puts)
      PROVE  CallTypeOK(d, puts')
  <2>1. 1 .. puts \subseteq 1 .. puts'
    BY DEF IInv, TypeOK
  <2> QED BY <1>3, <2>1 DEF CallTypeOK
<1>4. \A j \in Callers : CallTypeOK(call[j], puts)
  BY DEF IInv, TypeOK
<1> QED BY <1>1, <1>2, <1>3, <1>4

LEMMA OneOperation ==
  ASSUME NEW k \in Callers, \A j \in Callers \ {k} : Operation(j)' = Operation(j)
  PROVE  /\ Operations' = [Operations EXCEPT ![k] = Operation(k)']
         /\ Operation(k)' = Operation(k) => Operations' = Operations
         /\ Operations[k] = Operation(k)
BY DEF Operations

\* A file is written that nobody else holds, under a name nobody else holds.
LEMMA FileWritten ==
  ASSUME IInv, NEW k \in Callers, NEW f \in Numbers, NEW content \in Content,
         file' = [file EXCEPT ![f] = content], UNCHANGED published,
         \A j \in Callers \ {k} : call'[j] = call[j],
         \A r \in RunIds : published[r] # f,
         \A j \in Callers \ {k} : Putting(j) =>
            call[j].handle # f /\ temporary'[call[j].run] = temporary[call[j].run],
         \A j \in Callers \ {k} : call[j].at = "read" =>
            call[j].handle # f /\ \A r \in RunIds : temporary'[r] # call[j].handle
  PROVE  /\ PublishedWhole' /\ file' \in [Numbers -> Content]
         /\ \A j \in Callers \ {k} : /\ Putting(j)' => PutInv(j)'
                                     /\ (call[j].at = "read")' => GetInv(j)'
         /\ StoredSnapshots' = StoredSnapshots
         /\ \A j \in Callers \ {k} : Operation(j)' = Operation(j)
<1>1. /\ file \in [Numbers -> Content] /\ file' \in [Numbers -> Content]
      /\ \A g \in Numbers \ {f} : file'[g] = file[g]
      /\ published \in [RunIds -> 0 .. puts] /\ puts \in 0 .. MaxPuts
  BY DEF IInv, TypeOK
<1>2. \A r \in RunIds : published[r] # 0 => file'[published[r]] = file[published[r]]
  BY <1>1, StoreAssumption DEF Numbers
<1>3. PublishedWhole' /\ StoredSnapshots' = StoredSnapshots
  BY <1>2 DEF PublishedWhole, IInv, StoredSnapshots
<1>4. ASSUME NEW j \in Callers \ {k}
      PROVE  /\ Putting(j)' => PutInv(j)'
             /\ (call[j].at = "read")' => GetInv(j)'
             /\ Operation(j)' = Operation(j)
  <2>1. CASE Putting(j)
    <3>1. file'[call[j].handle] = file[call[j].handle]
      BY <1>1, <1>4, <2>1, Putter
    <3> QED BY <1>4, <2>1, <3>1, Putter DEF Putting, PutInv, Operation
  <2>2. CASE call[j].at = "read"
    <3>1. file'[call[j].handle] = file[call[j].handle]
      BY <1>1, <1>4, <2>2, Reader
    <3> QED BY <1>4, <2>2, <3>1, Reader DEF Putting, GetInv, Operation
  <2>3. CASE ~Putting(j) /\ call[j].at # "read"
    BY <1>4, <2>3 DEF Putting, Operation
  <2> QED BY <2>1, <2>2, <2>3
<1> QED BY <1>1, <1>3, <1>4

\* The disk stays and one call goes on.
LEMMA DiskKept ==
  ASSUME IInv, UNCHANGED <<disk, puts>>, NEW k \in Callers, NEW c, Set(k, c),
         CallTypeOK(c, puts), Putting(k)' => Putting(k) /\ PutInv(k)' /\ c.run = call[k].run,
         (call[k].at = "read")' => GetInv(k)'
  PROVE  /\ IInv' /\ StoredSnapshots' = StoredSnapshots
         /\ \A j \in Callers \ {k} : Operation(j)' = Operation(j)
<1>1. /\ call' = [j \in Callers |-> call'[j]]
      /\ call'[k] = c /\ \A j \in Callers \ {k} : call'[j] = call[j]
      /\ \A j \in Callers : CallTypeOK(call'[j], puts')
      /\ UNCHANGED <<file, temporary, published, puts>>
  <2>1. puts' \in puts .. MaxPuts
    BY StoreAssumption DEF IInv, TypeOK
  <2> QED BY <2>1, OneCall DEF disk
<1>2. TypeOK'
  BY <1>1 DEF IInv, TypeOK
<1>3. NamesApart' /\ PublishedWhole' /\ StoredSnapshots' = StoredSnapshots
  BY <1>1 DEF IInv, NamesApart, PublishedWhole, StoredSnapshots
<1>4. PutsApart'
  BY <1>1 DEF IInv, PutsApart, Putting
<1>5. \A j \in Callers : /\ Putting(j)' => PutInv(j)'
                         /\ (call[j].at = "read")' => GetInv(j)'
  <2> SUFFICES ASSUME NEW j \in Callers, j # k
               PROVE  /\ Putting(j)' => PutInv(j)'
                      /\ (call[j].at = "read")' => GetInv(j)'
    OBVIOUS
  <2> QED BY <1>1 DEF IInv, PutInv, GetInv, Putting
<1>6. \A j \in Callers \ {k} : Operation(j)' = Operation(j)
  BY <1>1 DEF Operation, Putting
<1> QED BY <1>1, <1>2, <1>3, <1>4, <1>5, <1>6 DEF IInv

-----------------------------------------------------------------------------
(* Every action keeps the invariant and is a step of the abstract store or *)
(* none at all                                                             *)

Simulated == [Store!Next]_(Store!vars)

LEMMA Stutters ==
  ASSUME StoredSnapshots' = StoredSnapshots, Operations' = Operations
  PROVE  Simulated
BY DEF Simulated, Store!vars, Operations

LEMMA OpenSound ==
  ASSUME IInv, Overlap = FALSE, NEW k \in Callers, NEW r \in RunIds, NEW size \in 1 .. Pieces,
         Open(k, r, size)
  PROVE  IInv' /\ Simulated
<1> DEFINE f == IF temporary[r] # 0 THEN temporary[r] ELSE puts + 1
           c == [at |-> "write", run |-> r, no |-> puts + 1, size |-> size, handle |-> f,
                 done |-> 0]
<1>1. /\ call[k] = Idle /\ puts' = puts + 1 /\ puts' \in puts .. MaxPuts
      /\ file' = [file EXCEPT ![f] = Blank] /\ temporary' = [temporary EXCEPT ![r] = f]
      /\ UNCHANGED published /\ Set(k, c)
      /\ \A j \in Callers : Putting(j) => call[j].run # r
  BY StoreAssumption DEF Open, IInv, TypeOK
<1>2. /\ temporary \in [RunIds -> 0 .. puts] /\ published \in [RunIds -> 0 .. puts]
      /\ puts \in 0 .. MaxPuts /\ puts' \in 0 .. MaxPuts
  BY <1>1, StoreAssumption DEF IInv, TypeOK
<1>3. f \in 1 .. puts' /\ f \in Numbers
  BY <1>1, <1>2, StoreAssumption DEF Numbers
<1>4. /\ \A s \in RunIds : published[s] # f
      /\ \A s \in RunIds \ {r} : temporary[s] # f
  BY <1>1, <1>2 DEF IInv, NamesApart
<1>5. /\ c.at = "write" /\ c.run = r /\ c.no = puts' /\ c.size = size /\ c.handle = f
      /\ c.done = 0 /\ CallTypeOK(c, puts')
  BY <1>1, <1>2, <1>3 DEF CallTypeOK
<1>6. \A j \in Callers : call[j].at = "read" => call[j].handle # f
  <2> SUFFICES ASSUME NEW j \in Callers, call[j].at = "read"
               PROVE  call[j].handle # f
    OBVIOUS
  <2>1. call[j].handle \in 1 .. puts /\ temporary[r] # call[j].handle
    BY Reader
  <2> QED BY <1>2, <2>1
<1> HIDE DEF f, c
<1>7. /\ call' = [j \in Callers |-> call'[j]]
      /\ call'[k] = c /\ \A j \in Callers \ {k} : call'[j] = call[j]
      /\ \A j \in Callers : CallTypeOK(call'[j], puts')
  BY <1>1, <1>5, OneCall
<1>8. /\ temporary'[r] = f /\ \A s \in RunIds \ {r} : temporary'[s] = temporary[s]
      /\ temporary' \in [RunIds -> 0 .. puts'] /\ published' \in [RunIds -> 0 .. puts']
  BY <1>1, <1>2, <1>3
<1>9. \A j \in Callers \ {k} :
        /\ Putting(j) => call[j].handle # f /\ temporary'[call[j].run] = temporary[call[j].run]
        /\ call[j].at = "read" =>
             call[j].handle # f /\ \A s \in RunIds : temporary'[s] # call[j].handle
  <2> SUFFICES ASSUME NEW j \in Callers \ {k}
               PROVE  /\ Putting(j) => /\ call[j].handle # f
                                       /\ temporary'[call[j].run] = temporary[call[j].run]
                      /\ call[j].at = "read" =>
                           call[j].handle # f /\ \A s \in RunIds : temporary'[s] # call[j].handle
    OBVIOUS
  <2>1. CASE Putting(j)
    BY <1>1, <1>4, <1>8, <2>1, Putter DEF Putting
  <2>2. CASE call[j].at = "read"
    BY <1>6, <1>8, <2>2, Reader DEF Putting
  <2> QED BY <2>1, <2>2
<1>10. Blank \in Content /\ Blank = Whole(puts', 0)
  BY <1>2, BlankIsWhole, StoreAssumption
<1>11. /\ PublishedWhole' /\ file' \in [Numbers -> Content]
       /\ \A j \in Callers \ {k} : /\ Putting(j)' => PutInv(j)'
                                   /\ (call[j].at = "read")' => GetInv(j)'
       /\ StoredSnapshots' = StoredSnapshots
       /\ \A j \in Callers \ {k} : Operation(j)' = Operation(j)
  BY <1>1, <1>3, <1>4, <1>7, <1>9, <1>10, FileWritten
<1>12. TypeOK'
  BY <1>2, <1>7, <1>8, <1>11 DEF TypeOK
<1>13. NamesApart'
  BY <1>1, <1>4, <1>8 DEF IInv, NamesApart
<1>14. PutsApart'
  BY <1>1, <1>5, <1>7 DEF IInv, PutsApart, Putting
<1>15. PutInv(k)' /\ (call[k].at # "read")'
  <2>1. file'[f] = Blank
    BY <1>1, <1>3 DEF IInv, TypeOK
  <2> QED BY <1>5, <1>7, <1>8, <1>10, <2>1 DEF PutInv
<1>16. IInv'
  BY <1>7, <1>11, <1>12, <1>13, <1>14, <1>15 DEF IInv
<1>17. Operations[k] = Store!NoOp /\ puts' \in Numbers
       /\ Operation(k)' = [is |-> "put", run |-> r, value |-> puts']
  <2>1. Operation(k) = [is |-> "none"]
    BY <1>1 DEF Operation, Putting, Idle
  <2>2. puts' \in Numbers
    BY <1>1, <1>2 DEF Numbers
  <2> QED BY <1>5, <1>7, <2>1, <2>2, OneOperation, <1>11 DEF Operation, Putting, Store!NoOp
<1>18. Store!PutSnapshot(k, r, puts')
  <2>1. Operations' = [Operations EXCEPT ![k] = [is |-> "put", run |-> r, value |-> puts']]
    BY <1>11, <1>17, OneOperation
  <2> QED BY <1>11, <1>17, <2>1 DEF Store!PutSnapshot, Operations
<1> QED BY <1>16, <1>17, <1>18 DEF Simulated, Store!Next

LEMMA WriteSound ==
  ASSUME IInv, NEW k \in Callers, Write(k)
  PROVE  IInv' /\ Simulated
<1> DEFINE c == call[k]
           d == [c EXCEPT !.done = c.done + 1,
                          !.at = IF c.done + 1 = c.size THEN "rename" ELSE "write"]
           f == c.handle
           content == [file[f] EXCEPT ![c.done + 1] = c.no]
<1>1. /\ c.at = "write" /\ Putting(k) /\ Set(k, d) /\ UNCHANGED <<temporary, published, puts>>
      /\ file' = [file EXCEPT ![f] = content]
  BY DEF Write, Putting
<1>2. /\ c.run \in RunIds /\ f \in 1 .. puts /\ f \in Numbers /\ c.no \in 1 .. puts
      /\ c.size \in 1 .. Pieces /\ c.done \in 0 .. c.size - 1
      /\ temporary[c.run] = f /\ file[f] = Whole(c.no, c.done)
      /\ puts \in 0 .. MaxPuts
  BY <1>1, Putter, StoreAssumption
<1>3. content = Whole(c.no, c.done + 1) /\ content \in Content
  <2>1. c.no \in Nat /\ c.no \in 0 .. MaxPuts /\ c.done \in 0 .. Pieces - 1
    BY <1>2, StoreAssumption
  <2>2. content = Whole(c.no, c.done + 1)
    BY <1>2, <2>1, NextPiece
  <2> HIDE DEF content
  <2> QED BY <2>1, <2>2, WholeType
<1>4. /\ d.at \in {"write", "rename"} /\ d.run = c.run /\ d.no = c.no /\ d.size = c.size
      /\ d.handle = f /\ d.done = c.done + 1
      /\ d.at = "write" => d.done < d.size
      /\ d.at = "rename" => d.done = d.size
  BY <1>2
<1>5. CallTypeOK(d, puts') /\ puts' \in puts .. MaxPuts
  BY <1>1, <1>2, <1>4, StoreAssumption DEF CallTypeOK
<1> HIDE DEF d, content
<1>6. /\ call' = [j \in Callers |-> call'[j]]
      /\ call'[k] = d /\ \A j \in Callers \ {k} : call'[j] = call[j]
      /\ \A j \in Callers : CallTypeOK(call'[j], puts')
  BY <1>1, <1>5, OneCall
<1>7. \A r \in RunIds : published[r] # f
  BY <1>2 DEF IInv, NamesApart
<1>8. \A j \in Callers \ {k} :
        /\ Putting(j) => call[j].handle # f /\ temporary'[call[j].run] = temporary[call[j].run]
        /\ call[j].at = "read" =>
             call[j].handle # f /\ \A s \in RunIds : temporary'[s] # call[j].handle
  <2> SUFFICES ASSUME NEW j \in Callers \ {k}
               PROVE  /\ Putting(j) => /\ call[j].handle # f
                                       /\ temporary'[call[j].run] = temporary[call[j].run]
                      /\ call[j].at = "read" =>
                           call[j].handle # f /\ \A s \in RunIds : temporary'[s] # call[j].handle
    OBVIOUS
  <2>1. CASE Putting(j)
    <3>1. call[j].run # c.run /\ call[j].run \in RunIds /\ temporary[call[j].run] = call[j].handle
          /\ call[j].handle \in 1 .. puts
      BY <1>1, <2>1, Putter DEF IInv, PutsApart
    <3>2. call[j].handle # f
      BY <1>2, <3>1 DEF IInv, NamesApart
    <3> QED BY <1>1, <2>1, <3>2 DEF Putting
  <2>2. CASE call[j].at = "read"
    BY <1>1, <1>2, <2>2, Reader DEF Putting
  <2> QED BY <2>1, <2>2
<1>9. /\ PublishedWhole' /\ file' \in [Numbers -> Content]
      /\ \A j \in Callers \ {k} : /\ Putting(j)' => PutInv(j)'
                                  /\ (call[j].at = "read")' => GetInv(j)'
      /\ StoredSnapshots' = StoredSnapshots
      /\ \A j \in Callers \ {k} : Operation(j)' = Operation(j)
  <2>1. f \in Numbers /\ content \in Content /\ UNCHANGED published
    BY <1>1, <1>2, <1>3
  <2>2. file' = [file EXCEPT ![f] = content]
    BY <1>1
  <2>3. \A j \in Callers \ {k} : call'[j] = call[j]
    BY <1>6
  <2> HIDE DEF c, f
  <2> QED BY <2>1, <2>2, <2>3, <1>7, <1>8, FileWritten
<1>10. TypeOK' /\ NamesApart'
  BY <1>1, <1>6, <1>9 DEF IInv, TypeOK, NamesApart
<1>11. PutsApart'
  BY <1>1, <1>4, <1>6 DEF IInv, PutsApart, Putting
<1>12. PutInv(k)' /\ (call[k].at # "read")'
  <2>1. file'[f] = content
    BY <1>1, <1>2 DEF IInv, TypeOK
  <2> QED BY <1>1, <1>2, <1>3, <1>4, <1>6, <2>1 DEF PutInv
<1>13. IInv'
  BY <1>6, <1>9, <1>10, <1>11, <1>12 DEF IInv
<1>14. Operation(k)' = Operation(k)
  BY <1>1, <1>4, <1>6 DEF Operation, Putting
<1> QED BY <1>9, <1>13, <1>14, OneOperation, Stutters

\* The one step by which the abstract store changes.
LEMMA RenameSound ==
  ASSUME IInv, NEW k \in Callers, Rename(k)
  PROVE  IInv' /\ Simulated
<1> DEFINE r == call[k].run
           f == call[k].handle
           no == call[k].no
<1>1. /\ call[k].at = "rename" /\ Putting(k) /\ temporary[r] # 0 /\ Set(k, Idle)
      /\ published' = [published EXCEPT ![r] = temporary[r]]
      /\ temporary' = [temporary EXCEPT ![r] = 0]
      /\ file' = file /\ puts' = puts
  BY DEF Rename, Putting
<1>2. /\ r \in RunIds /\ f \in 1 .. puts /\ temporary[r] = f /\ no \in Numbers
      /\ file[f] = Whole(no, call[k].size) /\ call[k].size \in 1 .. Pieces
      /\ puts \in 0 .. MaxPuts
  BY <1>1, Putter
<1>3. /\ published \in [RunIds -> 0 .. puts] /\ temporary \in [RunIds -> 0 .. puts]
  BY DEF IInv, TypeOK
<1>4. IsWhole(file[f]) /\ SnapshotIn(file[f]) = no
  BY <1>2, WholeParses
<1>5. CallTypeOK(Idle, puts') /\ puts' \in puts .. MaxPuts
  BY <1>1, <1>2, StoreAssumption DEF CallTypeOK, Idle
<1>6. /\ call' = [j \in Callers |-> call'[j]]
      /\ call'[k] = Idle /\ \A j \in Callers \ {k} : call'[j] = call[j]
      /\ \A j \in Callers : CallTypeOK(call'[j], puts')
  BY <1>1, <1>5, OneCall
<1> HIDE DEF f
<1>7. /\ published'[r] = f /\ temporary'[r] = 0
      /\ \A s \in RunIds \ {r} : published'[s] = published[s] /\ temporary'[s] = temporary[s]
      /\ published' \in [RunIds -> 0 .. puts'] /\ temporary' \in [RunIds -> 0 .. puts']
  BY <1>1, <1>2, <1>3
<1>8. \A j \in Callers \ {k} : Putting(j) => call[j].run # r
  BY <1>1 DEF IInv, PutsApart
<1>9. TypeOK'
  BY <1>1, <1>6, <1>7 DEF IInv, TypeOK
<1>10. NamesApart'
  BY <1>2, <1>7 DEF IInv, NamesApart
<1>11. PutsApart' /\ PublishedWhole'
  <2>1. PutsApart'
    BY <1>6 DEF IInv, PutsApart, Putting, Idle
  <2>2. PublishedWhole'
    BY <1>1, <1>2, <1>4, <1>7 DEF IInv, PublishedWhole
  <2> QED BY <2>1, <2>2
<1>12. ASSUME NEW j \in Callers
       PROVE  /\ Putting(j)' => PutInv(j)'
              /\ (call[j].at = "read")' => GetInv(j)'
              /\ j # k => Operation(j)' = Operation(j)
  <2>1. CASE j = k
    BY <1>6, <2>1 DEF Putting, Idle
  <2>2. CASE j # k /\ Putting(j)
    <3>1. /\ call[j].run \in RunIds \ {r} /\ call'[j] = call[j]
          /\ temporary'[call[j].run] = temporary[call[j].run]
      BY <1>6, <1>7, <1>8, <2>2, Putter
    <3> QED BY <1>1, <2>2, <3>1, Putter DEF Putting, PutInv, Operation
  <2>3. CASE j # k /\ call[j].at = "read"
    <3>1. \A s \in RunIds : temporary'[s] # call[j].handle
      BY <1>7, <2>3, Reader
    <3> QED BY <1>1, <1>6, <2>3, <3>1, Reader DEF Putting, GetInv, Operation
  <2>4. CASE j # k /\ ~Putting(j) /\ call[j].at # "read"
    BY <1>6, <2>4 DEF Putting, Operation
  <2> QED BY <2>1, <2>2, <2>3, <2>4
<1>13. IInv'
  BY <1>6, <1>9, <1>10, <1>11, <1>12 DEF IInv
<1>14. StoredSnapshots' = [StoredSnapshots EXCEPT ![r] = no]
  <2>1. \A s \in RunIds \ {r} : StoredSnapshots'[s] = StoredSnapshots[s]
    BY <1>1, <1>7 DEF StoredSnapshots
  <2>2. f # 0
    BY <1>2
  <2>3. StoredSnapshots'[r] = no
    BY <1>1, <1>2, <1>4, <1>7, <2>2 DEF StoredSnapshots
  <2> QED BY <2>1, <2>3 DEF StoredSnapshots
<1>15. /\ Operation(k) = [is |-> "put", run |-> r, value |-> no]
       /\ Operation(k)' = Store!NoOp
  BY <1>1, <1>6 DEF Operation, Putting, Idle, Store!NoOp
<1>16. Operations' = [Operations EXCEPT ![k] = Store!NoOp] /\ Operations[k] = Operation(k)
  BY <1>12, <1>15, OneOperation
<1>17. Store!PutDone(k)
  <2> HIDE DEF r, no
  <2>1. Operations[k].is = "put" /\ Operations[k].run = r /\ Operations[k].value = no
    BY <1>15, <1>16
  <2> QED BY <1>14, <1>16, <2>1 DEF Store!PutDone, Operations
<1> QED BY <1>13, <1>17 DEF Simulated, Store!Next

\* A call ends without effect.
LEMMA EndSound ==
  ASSUME IInv, NEW k \in Callers, Fail(k) \/ Return(k)
  PROVE  IInv' /\ Simulated
<1>1. /\ Set(k, Idle) /\ UNCHANGED <<disk, puts>> /\ (Putting(k) \/ call[k].at = "read")
  BY DEF Fail, Return
<1>2. CallTypeOK(Idle, puts) /\ call'[k] = Idle
  BY <1>1 DEF CallTypeOK, Idle, Set, IInv
<1>3. /\ IInv' /\ StoredSnapshots' = StoredSnapshots
      /\ \A j \in Callers \ {k} : Operation(j)' = Operation(j)
  BY <1>1, <1>2, DiskKept DEF Putting, Idle
<1>4. Operation(k) # Store!NoOp /\ Operation(k)' = Store!NoOp
  BY <1>1, <1>2 DEF Operation, Putting, Idle, Store!NoOp
<1>5. Operations' = [Operations EXCEPT ![k] = Store!NoOp] /\ Operations[k] = Operation(k)
  BY <1>3, <1>4, OneOperation
<1>6. Store!Return(k)
  BY <1>3, <1>4, <1>5 DEF Store!Return, Operations
<1> QED BY <1>3, <1>6 DEF Simulated, Store!Next

LEMMA GetSound ==
  ASSUME IInv, NEW k \in Callers, NEW r \in RunIds, Get(k, r)
  PROVE  IInv' /\ Simulated
<1> DEFINE c == [at |-> "read", run |-> r, handle |-> published[r], got |-> Blank, done |-> 0]
<1>1. /\ call[k] = Idle /\ published[r] # 0 /\ Set(k, c) /\ UNCHANGED <<disk, puts>>
      /\ call' = [call EXCEPT ![k] = c] /\ file' = file /\ temporary' = temporary
  BY DEF Get, Set, disk
<1>2. /\ c.at = "read" /\ c.run = r /\ c.handle = published[r] /\ c.got = Blank /\ c.done = 0
      /\ published[r] \in 1 .. puts /\ puts \in 0 .. MaxPuts
  BY <1>1, StoreAssumption DEF IInv, TypeOK
<1>3. Blank \in Content
  BY BlankIsWhole, StoreAssumption
<1>4. CallTypeOK(c, puts)
  BY <1>2, <1>3, StoreAssumption DEF CallTypeOK
<1> HIDE DEF c
<1>5. call'[k] = c
  BY <1>1 DEF IInv
<1>6. /\ IsWhole(file[published[r]])
      /\ \A s \in RunIds : temporary[s] # published[r]
  BY <1>1 DEF IInv, PublishedWhole, NamesApart
<1>7. GetInv(k)' /\ ~Putting(k)'
  <2>1. published[r] \in Numbers
    BY <1>2, StoreAssumption DEF Numbers
  <2>2. Blank = Prefix(file[published[r]], 0)
    BY <2>1, PrefixType DEF IInv, TypeOK
  <2> QED BY <1>1, <1>2, <1>5, <1>6, <2>2 DEF GetInv, Putting
<1>8. /\ IInv' /\ StoredSnapshots' = StoredSnapshots
      /\ \A j \in Callers \ {k} : Operation(j)' = Operation(j)
  BY <1>1, <1>4, <1>7, DiskKept
<1>9. Operation(k)' = [is |-> "get", run |-> r, value |-> StoredSnapshots[r]]
  <2>1. StoredSnapshots[r] = SnapshotIn(file[published[r]])
    BY <1>1 DEF StoredSnapshots
  <2> QED BY <1>1, <1>2, <1>5, <1>7, <2>1, StoreAssumption DEF Operation
<1>10. Operation(k) = Store!NoOp
  BY <1>1 DEF Operation, Putting, Idle, Store!NoOp
<1>11. Operations' = [Operations EXCEPT ![k] = Operation(k)'] /\ Operations[k] = Operation(k)
  BY <1>8, OneOperation
<1>12. Store!GetSnapshot(k, r)
  BY <1>8, <1>9, <1>10, <1>11 DEF Store!GetSnapshot, Operations
<1> QED BY <1>8, <1>12 DEF Simulated, Store!Next

LEMMA ReadSound ==
  ASSUME IInv, NEW k \in Callers, Read(k)
  PROVE  IInv' /\ Simulated
<1> DEFINE c == call[k]
           n == c.done + 1
           got == Prefix(file[c.handle], n)
           d == [c EXCEPT !.done = c.done + 1, !.got[c.done + 1] = file[c.handle][c.done + 1]]
<1>1. /\ c.at = "read" /\ c.done < Pieces /\ Set(k, d) /\ UNCHANGED <<disk, puts>>
      /\ call' = [call EXCEPT ![k] = d] /\ file' = file /\ temporary' = temporary
  BY DEF Read, Set, disk
<1>2. /\ c.run \in RunIds /\ c.handle \in 1 .. puts /\ c.handle \in Numbers
      /\ c.done \in 0 .. Pieces - 1 /\ n \in 1 .. Pieces
      /\ IsWhole(file[c.handle]) /\ \A r \in RunIds : temporary[r] # c.handle
      /\ c.got = Prefix(file[c.handle], c.done)
  BY <1>1, Reader, StoreAssumption
<1>3. file[c.handle] \in Content
  BY <1>2 DEF IInv, TypeOK
<1>4. [c.got EXCEPT ![c.done + 1] = file[c.handle][c.done + 1]] = got
  BY <1>2, <1>3, PrefixGrows
<1>5. /\ d.at = "read" /\ d.run = c.run /\ d.handle = c.handle /\ d.done = n
      /\ d.got = got /\ got \in Content /\ (n = Pieces => got = file[c.handle])
  <2>1. d.at = "read" /\ d.run = c.run /\ d.handle = c.handle /\ d.done = n
    BY <1>1
  <2>2. d.got = [c.got EXCEPT ![c.done + 1] = file[c.handle][c.done + 1]]
    BY <1>1
  <2>3. got \in Content /\ (n = Pieces => got = file[c.handle])
    BY <1>3, PrefixType
  <2> QED BY <1>4, <2>1, <2>2, <2>3
<1>6. CallTypeOK(d, puts)
  BY <1>2, <1>5, StoreAssumption DEF CallTypeOK
<1> HIDE DEF d
<1>7. call'[k] = d
  BY <1>1 DEF IInv
<1>8. GetInv(k)' /\ ~Putting(k)'
  BY <1>1, <1>2, <1>5, <1>7 DEF GetInv, Putting
<1>9. /\ IInv' /\ StoredSnapshots' = StoredSnapshots
      /\ \A j \in Callers \ {k} : Operation(j)' = Operation(j)
  BY <1>1, <1>6, <1>8, DiskKept
<1>10. Operation(k)' = Operation(k)
  <2>1. Operation(k) = [is |-> "get", run |-> c.run, value |-> SnapshotIn(file[c.handle])]
    BY <1>1, <1>2 DEF Operation, Putting
  <2>2. Operation(k)' = [is |-> "get", run |-> c.run, value |-> SnapshotIn(file[c.handle])]
    BY <1>1, <1>5, <1>7, <1>8 DEF Operation
  <2> QED BY <2>1, <2>2
<1> QED BY <1>9, <1>10, OneOperation, Stutters

LEMMA CrashSound ==
  ASSUME IInv, Crash
  PROVE  IInv' /\ Simulated
<1>1. /\ call' = [k \in Callers |-> Idle] /\ UNCHANGED <<file, temporary, published, puts>>
  BY DEF Crash, disk
<1>2. CallTypeOK(Idle, puts) /\ Idle.at = "idle"
  BY DEF CallTypeOK, Idle
<1>3. TypeOK' /\ NamesApart' /\ PublishedWhole' /\ StoredSnapshots' = StoredSnapshots
  BY <1>1, <1>2 DEF IInv, TypeOK, NamesApart, PublishedWhole, StoredSnapshots
<1>4. \A k \in Callers : ~Putting(k)' /\ (call[k].at # "read")'
  BY <1>1, <1>2 DEF Putting
<1>5. IInv'
  BY <1>1, <1>3, <1>4 DEF IInv, PutsApart
<1>6. Operations' = [k \in Callers |-> Store!NoOp]
  BY <1>4 DEF Operations, Operation, Store!NoOp
<1>7. Store!Crash
  BY <1>3, <1>6 DEF Store!Crash, Operations
<1> QED BY <1>5, <1>7 DEF Simulated, Store!Next

-----------------------------------------------------------------------------
(* The theorems *)

LEMMA InitSound == Init => IInv /\ Store!Init
<1> SUFFICES ASSUME Init PROVE IInv /\ Store!Init
  OBVIOUS
<1>1. \A k \in Callers : call[k] = Idle /\ call[k].at = "idle"
  BY DEF Init, Idle
<1>2. Blank \in Content
  BY BlankIsWhole, StoreAssumption
<1>3. TypeOK
  BY <1>1, <1>2, StoreAssumption DEF Init, TypeOK, CallTypeOK
<1>4. IInv
  BY <1>1, <1>3 DEF Init, IInv, NamesApart, PutsApart, PublishedWhole, Putting
<1>5. Store!Init
  BY <1>1 DEF Init, Store!Init, Store!NoOp, StoredSnapshots, Operation, Putting
<1> QED BY <1>4, <1>5

LEMMA NextSound ==
  ASSUME Overlap = FALSE
  PROVE  IInv /\ [Next]_vars => IInv' /\ Simulated
<1> SUFFICES ASSUME IInv, [Next]_vars PROVE IInv' /\ Simulated
  OBVIOUS
<1>1. CASE UNCHANGED vars
  <2>1. UNCHANGED <<file, temporary, published, call, puts>>
    BY <1>1 DEF vars, disk
  <2>2. IInv'
    BY <2>1 DEF IInv, TypeOK, NamesApart, PutsApart, PublishedWhole, PutInv, GetInv, Putting
  <2>3. StoredSnapshots' = StoredSnapshots /\ Operations' = Operations
    BY <2>1 DEF StoredSnapshots, Operations, Operation, Putting
  <2> QED BY <2>2, <2>3, Stutters
<1> QED BY <1>1, OpenSound, WriteSound, RenameSound, EndSound, GetSound, ReadSound, CrashSound
    DEF Next

\* When no two puts of one run overlap, a file under its final name holds one
\* whole snapshot, whatever failed before.
THEOREM FilesAlwaysWhole ==
  ASSUME Overlap = FALSE
  PROVE  Spec => []PublishedWhole
<1>1. IInv => PublishedWhole
  BY DEF IInv
<1>2. IInv /\ [Next]_vars => IInv'
  BY NextSound
<1> QED BY <1>1, <1>2, InitSound, PTL DEF Spec

\* When no two puts of one run overlap, the file-backed store implements the
\* atomic map that survives the process.
THEOREM FilesImplementMap ==
  ASSUME Overlap = FALSE
  PROVE  Spec => StoreIsAtomicMap
<1>1. IInv /\ [Next]_vars => IInv' /\ [Store!Next]_(Store!vars)
  BY NextSound DEF Simulated
<1>2. Init => IInv /\ Store!Init
  BY InitSound
<1> QED BY <1>1, <1>2, PTL DEF Spec, StoreIsAtomicMap, Store!Spec

-----------------------------------------------------------------------------
(* Types, which overlapping puts keep too                                  *)

FilesTyped == /\ TypeOK /\ call = [k \in Callers |-> call[k]]
              /\ \A k \in Callers : call[k].at = "write" => call[k].done < call[k].size

LEMMA TypedCall ==
  ASSUME FilesTyped, NEW k \in Callers, NEW c, Set(k, c), puts' \in puts .. MaxPuts,
         CallTypeOK(c, puts'), c.at = "write" => c.done < c.size,
         file' \in [Numbers -> Content],
         temporary' \in [RunIds -> 0 .. puts'], published' \in [RunIds -> 0 .. puts']
  PROVE  FilesTyped'
<1>1. call'[k] = c /\ \A j \in Callers \ {k} : call'[j] = call[j]
  BY DEF Set, FilesTyped
<1>2. call' = [j \in Callers |-> call'[j]]
  BY DEF Set, FilesTyped
<1>3. ASSUME NEW d, CallTypeOK(d, puts)
      PROVE  CallTypeOK(d, puts')
  <2>1. 1 .. puts \subseteq 1 .. puts'
    BY DEF FilesTyped, TypeOK
  <2> QED BY <1>3, <2>1 DEF CallTypeOK
<1>4. \A j \in Callers : CallTypeOK(call[j], puts)
  BY DEF FilesTyped, TypeOK
<1>5. \A j \in Callers : CallTypeOK(call'[j], puts')
  BY <1>1, <1>3, <1>4
<1>6. \A j \in Callers : call'[j].at = "write" => call'[j].done < call'[j].size
  BY <1>1 DEF FilesTyped
<1>7. puts' \in 0 .. MaxPuts
  BY StoreAssumption DEF FilesTyped, TypeOK
<1> QED BY <1>2, <1>5, <1>6, <1>7 DEF FilesTyped, TypeOK

LEMMA OpenTyped ==
  ASSUME FilesTyped, NEW k \in Callers, NEW r \in RunIds, NEW size \in 1 .. Pieces,
         Open(k, r, size)
  PROVE  FilesTyped'
<1> DEFINE f == IF temporary[r] # 0 THEN temporary[r] ELSE puts + 1
           c == [at |-> "write", run |-> r, no |-> puts + 1, size |-> size, handle |-> f,
                 done |-> 0]
<1>1. /\ puts' = puts + 1 /\ puts' \in puts .. MaxPuts
      /\ file' = [file EXCEPT ![f] = Blank] /\ temporary' = [temporary EXCEPT ![r] = f]
      /\ UNCHANGED published /\ Set(k, c)
  BY StoreAssumption DEF Open, FilesTyped, TypeOK
<1>2. f \in 1 .. puts'
  BY <1>1, StoreAssumption DEF FilesTyped, TypeOK
<1>3. CallTypeOK(c, puts') /\ c.at = "write" /\ c.done < c.size
  BY <1>1, <1>2, StoreAssumption DEF CallTypeOK, FilesTyped, TypeOK
<1> HIDE DEF c, f
<1>4. Blank \in Content
  BY BlankIsWhole, StoreAssumption DEF FilesTyped, TypeOK
<1>5. file' \in [Numbers -> Content]
  BY <1>1, <1>4 DEF FilesTyped, TypeOK
<1>6. temporary' \in [RunIds -> 0 .. puts'] /\ published' \in [RunIds -> 0 .. puts']
  BY <1>1, <1>2, StoreAssumption DEF FilesTyped, TypeOK
<1> QED BY <1>1, <1>3, <1>5, <1>6, TypedCall

LEMMA WriteTyped ==
  ASSUME FilesTyped, NEW k \in Callers, Write(k)
  PROVE  FilesTyped'
<1> DEFINE c == call[k]
           d == [c EXCEPT !.done = c.done + 1,
                          !.at = IF c.done + 1 = c.size THEN "rename" ELSE "write"]
<1>1. /\ c.at = "write" /\ Set(k, d) /\ UNCHANGED <<temporary, published, puts>>
      /\ file' = [file EXCEPT ![c.handle][c.done + 1] = c.no]
  BY DEF Write
<1>2. /\ c.run \in RunIds /\ c.handle \in 1 .. puts /\ c.no \in 1 .. puts
      /\ c.size \in 1 .. Pieces /\ c.done \in 0 .. c.size /\ c.done < c.size
      /\ puts \in 0 .. MaxPuts
  BY <1>1 DEF FilesTyped, TypeOK, CallTypeOK
<1>3. /\ d.at \in {"write", "rename"} /\ d.run = c.run /\ d.no = c.no /\ d.size = c.size
      /\ d.handle = c.handle /\ d.done = c.done + 1
      /\ d.at = "write" => d.done < d.size
  BY <1>2
<1>4. CallTypeOK(d, puts') /\ puts' \in puts .. MaxPuts
  BY <1>1, <1>2, <1>3, StoreAssumption DEF CallTypeOK
<1> HIDE DEF d
<1>5. file' \in [Numbers -> Content]
  <2>1. file \in [Numbers -> Content] /\ c.no \in 0 .. MaxPuts
    BY <1>2, StoreAssumption DEF FilesTyped, TypeOK
  <2> QED BY <1>1, <2>1 DEF Content
<1> QED BY <1>1, <1>3, <1>4, <1>5, TypedCall DEF FilesTyped, TypeOK

LEMMA ReadTyped ==
  ASSUME FilesTyped, NEW k \in Callers, Read(k)
  PROVE  FilesTyped'
<1> DEFINE c == call[k]
           got == [c.got EXCEPT ![c.done + 1] = file[c.handle][c.done + 1]]
           d == [c EXCEPT !.done = c.done + 1, !.got = got]
<1>1. c.at = "read" /\ c.done < Pieces /\ Set(k, d) /\ UNCHANGED <<disk, puts>>
  BY DEF Read
<1>2. /\ c.run \in RunIds /\ c.handle \in 1 .. puts /\ c.got \in Content
      /\ c.done \in 0 .. Pieces /\ puts \in 0 .. MaxPuts
  BY <1>1 DEF FilesTyped, TypeOK, CallTypeOK
<1>3. got \in Content
  <2>1. file[c.handle] \in Content
    BY <1>2, StoreAssumption DEF FilesTyped, TypeOK, Numbers
  <2> QED BY <1>1, <1>2, <2>1, StoreAssumption DEF Content
<1> HIDE DEF got
<1>4. d.at = "read" /\ d.run = c.run /\ d.handle = c.handle /\ d.done = c.done + 1 /\ d.got = got
  BY <1>1
<1>5. CallTypeOK(d, puts') /\ puts' \in puts .. MaxPuts
  BY <1>1, <1>2, <1>3, <1>4, StoreAssumption DEF CallTypeOK
<1> HIDE DEF d
<1> QED BY <1>1, <1>4, <1>5, TypedCall DEF FilesTyped, TypeOK, disk

LEMMA NextTyped == FilesTyped /\ [Next]_vars => FilesTyped'
<1> SUFFICES ASSUME FilesTyped, [Next]_vars PROVE FilesTyped'
  OBVIOUS
<1> DEFINE Kept == /\ puts' \in puts .. MaxPuts /\ file' \in [Numbers -> Content]
                   /\ temporary' \in [RunIds -> 0 .. puts'] /\ published' \in [RunIds -> 0 .. puts']
<1>1. ASSUME UNCHANGED <<disk, puts>> PROVE Kept
  BY <1>1, StoreAssumption DEF disk, FilesTyped, TypeOK
<1>2. CallTypeOK(Idle, puts') /\ Idle.at = "idle"
  BY DEF CallTypeOK, Idle
<1>3. ASSUME NEW k \in Callers, Set(k, Idle), Kept PROVE FilesTyped'
  BY <1>2, <1>3, TypedCall
<1>4. ASSUME NEW k \in Callers, NEW r \in RunIds, Get(k, r) PROVE FilesTyped'
  <2> DEFINE c == [at |-> "read", run |-> r, handle |-> published[r], got |-> Blank, done |-> 0]
  <2>1. Set(k, c) /\ published[r] \in 1 .. puts /\ Kept
    BY <1>1, <1>4 DEF Get, FilesTyped, TypeOK
  <2>2. Blank \in Content
    BY BlankIsWhole, StoreAssumption DEF FilesTyped, TypeOK
  <2>3. CallTypeOK(c, puts') /\ c.at = "read"
    BY <1>4, <2>1, <2>2, StoreAssumption DEF CallTypeOK, Get
  <2> HIDE DEF c
  <2> QED BY <2>1, <2>3, TypedCall
<1>5. ASSUME NEW k \in Callers, Rename(k) PROVE FilesTyped'
  <2>1. Set(k, Idle) /\ UNCHANGED <<file, puts>> /\ call[k].run \in RunIds
    BY <1>5 DEF Rename, FilesTyped, TypeOK, CallTypeOK
  <2>2. Kept
    BY <1>5, <2>1, StoreAssumption DEF Rename, FilesTyped, TypeOK
  <2> QED BY <1>3, <2>1, <2>2
<1>6. ASSUME NEW k \in Callers, Fail(k) \/ Return(k) PROVE FilesTyped'
  BY <1>1, <1>3, <1>6 DEF Fail, Return
<1>7. ASSUME Crash PROVE FilesTyped'
  <2>1. Kept /\ call' = [k \in Callers |-> Idle]
    BY <1>1, <1>7 DEF Crash
  <2> QED BY <1>2, <2>1, StoreAssumption DEF FilesTyped, TypeOK
<1>8. ASSUME UNCHANGED vars PROVE FilesTyped'
  BY <1>8 DEF vars, disk, FilesTyped, TypeOK
<1> QED BY <1>4, <1>5, <1>6, <1>7, <1>8, OpenTyped, WriteTyped, ReadTyped DEF Next

\* Every handle is that of a file some put has created, and no write or read goes
\* past the end of what it writes or reads; also when puts of one run overlap.
THEOREM FileStoreTypeOK == Spec => []TypeOK
<1>1. Init => FilesTyped
  <2>1. Blank \in Content
    BY StoreAssumption DEF Blank, Content
  <2> QED BY <2>1, StoreAssumption DEF Init, FilesTyped, TypeOK, CallTypeOK, Idle
<1>2. FilesTyped => TypeOK
  BY DEF FilesTyped
<1> QED BY <1>1, <1>2, NextTyped, PTL DEF Spec

=============================================================================
