--------------------------- MODULE TempStoreProofs ---------------------------
(***************************************************************************)
(* Proofs about TempStore, for any callers, files, crashes and faults.     *)
(* Type correctness is for any instances.  That issued files stay, and     *)
(* with it what FileStore promises, is for any instances none of which     *)
(* starts while another is putting (without that, TLC finds a              *)
(* counterexample with two), and so for one instance.  That nothing is     *)
(* forgotten is for one.                                                   *)
(***************************************************************************)
EXTENDS TempStore, TLAPS

\* A call past its wait is about an id that was drawn; the sweeper's queue has expired ones.
ArgPhase ==
  /\ \A p \in Processes :
       at[p] \notin {"idle", "putdir", "getdir", "sweeping"} => arg[p] \in Ids /\ life[arg[p]] # "unused"
  /\ \A p \in Processes : at[p] = "getdir" => arg[p] \in issued \union {NoId}
  /\ \A id \in issued : life[id] # "unused"
  /\ \A i \in Instances : \A id \in queue[i] : life[id] = "expired"

TInv == TypeOK /\ ArgPhase

Putting(p) == at[p] \in {"putbytes", "putmeta", "putsidecar"}

\* Puts write in a booted store only, and only a start scans.
BootPhase ==
  /\ \A p \in Processes : Putting(p) => boot[on[p]] = "ready"
  /\ \A i \in Instances, id \in Ids : boot[i] # "scanning" => scan[i][id] = "none"

\* A put has its id to itself, and finds what it wrote of a fresh file where it wrote it.
PutPhase ==
  \A p \in Processes : Putting(p) =>
    /\ arg[p] \notin issued
    /\ life[arg[p]] = "fresh" /\ at[p] # "putbytes" => arg[p] \in bytes
    /\ life[arg[p]] = "fresh" /\ at[p] = "putsidecar" => meta[arg[p]] = "torn"
    /\ \A q \in Processes : Putting(q) /\ arg[q] = arg[p] => q = p

\* Whatever reads, indexes or removes a file does so after its put returned it.
IssuedPhase ==
  /\ \A id \in Ids : meta[id] = "ok" => id \in issued
  /\ \A i \in Instances : index[i] \subseteq issued /\ queue[i] \subseteq issued
  /\ \A p \in Processes :
       at[p] \in {"getmeta", "adopt", "read", "rmbytes", "rmmeta"} => arg[p] \in issued

\* What is being removed is doomed, or by a start was never issued.
RemovePhase ==
  /\ \A p \in Processes :
       at[p] \in {"rmbytes", "rmmeta"} => Doomed(arg[p])
  /\ \A i \in Instances, id \in Ids :
       scan[i][id] \in {"rmbytes", "rmmeta"} => id \notin issued \/ Doomed(id)

\* Half removed is half gone, but for failures, and a start has what it has not dealt with yet in scan.
LeftPhase ==
  /\ \A p \in Processes : at[p] = "rmmeta" => arg[p] \notin bytes \/ arg[p] \in faulty[on[p]]
  /\ \A i \in Instances, id \in Ids : scan[i][id] = "rmmeta" => id \notin bytes \/ id \in faulty[i]
  /\ \A i \in Instances, id \in Ids : boot[i] \in {"scanning", "ready"} /\ OnDisk(id) =>
       scan[i][id] # "none" \/ id \in index[i] \/ Busy(id) \/ id \in faulty[i]

\* No instance reads the directory while a put, of this instance or of another, writes there.
QuietStarts == \A i \in Instances, p \in Processes : boot[i] = "scanning" => ~Putting(p)

SharedInv ==
  TInv /\ BootPhase /\ PutPhase /\ IssuedPhase /\ RemovePhase /\ IssuedStaysReadable

IInv == SharedInv /\ LeftPhase

-----------------------------------------------------------------------------
(* What the pieces of the actions do to the state they touch.              *)

LEMMA Went ==
  ASSUME TypeOK, NEW p \in Processes, NEW label \in Labels, NEW id \in Ids \union {NoId}, Goto(p, label, id)
  PROVE  /\ at' \in [Processes -> Labels] /\ arg' \in [Processes -> Ids \union {NoId}]
         /\ at'[p] = label /\ arg'[p] = id
         /\ \A q \in Processes : q # p => at'[q] = at[q] /\ arg'[q] = arg[q]
<1>1. at \in [Processes -> Labels] /\ arg \in [Processes -> Ids \union {NoId}]
  BY DEF TypeOK
<1> QED
  BY <1>1 DEF Goto

LEMMA Returned ==
  ASSUME TypeOK, NEW p \in Processes, Return(p)
  PROVE  /\ at' \in [Processes -> Labels] /\ arg' \in [Processes -> Ids \union {NoId}]
         /\ at'[p] \in {"idle", "sweeping"} /\ arg'[p] = NoId
         /\ \A q \in Processes : q # p => at'[q] = at[q] /\ arg'[q] = arg[q]
<1>1. at \in [Processes -> Labels] /\ arg \in [Processes -> Ids \union {NoId}]
  BY DEF TypeOK
<1> QED
  BY <1>1 DEF Return, Goto, Labels

LEMMA Unindexed ==
  ASSUME TypeOK, NEW i \in Instances, NEW id \in Ids, Unindex(i, id)
  PROVE  /\ index' \in [Instances -> SUBSET Ids]
         /\ index'[i] = index[i] \ {id}
         /\ \A j \in Instances : j # i => index'[j] = index[j]
<1>1. index \in [Instances -> SUBSET Ids]
  BY DEF TypeOK
<1>2. index[i] \ {id} \in SUBSET Ids
  BY <1>1
<1> QED
  BY <1>1, <1>2 DEF Unindex

LEMMA Indexed ==
  ASSUME TypeOK, NEW i \in Instances, NEW id \in Ids, index' = [index EXCEPT ![i] = @ \union {id}]
  PROVE  /\ index' \in [Instances -> SUBSET Ids]
         /\ index'[i] = index[i] \union {id}
         /\ \A j \in Instances : j # i => index'[j] = index[j]
<1>1. index \in [Instances -> SUBSET Ids]
  BY DEF TypeOK
<1>2. index[i] \union {id} \in SUBSET Ids
  BY <1>1
<1> QED
  BY <1>1, <1>2

\* A record that was found is served from the index, or is on its way out of it.
LEMMA Judged ==
  ASSUME TypeOK, NEW p \in Processes, NEW id \in Ids, Judge(p, id)
  PROVE  /\ at' \in [Processes -> Labels] /\ arg' \in [Processes -> Ids \union {NoId}]
         /\ arg'[p] = id /\ \A q \in Processes : q # p => at'[q] = at[q] /\ arg'[q] = arg[q]
         /\ at'[p] = IF life[id] = "expired" THEN "rmbytes" ELSE "read"
         /\ index' \in [Instances -> SUBSET Ids]
         /\ \A i \in Instances : index'[i] \subseteq index[i] \union {id}
         /\ \A i \in Instances : index[i] \ {id} \subseteq index'[i]
         /\ life[id] # "expired" => \A i \in Instances : index[i] \subseteq index'[i]
<1>1. on[p] \in Instances /\ {"rmbytes", "read"} \subseteq Labels
  BY DEF TypeOK, Labels
<1>2. CASE life[id] = "expired"
  <2>1. Unindex(on[p], id) /\ Goto(p, "rmbytes", id)
    BY <1>2 DEF Judge
  <2> QED
    BY <1>1, <1>2, <2>1, Went, Unindexed
<1>3. CASE life[id] # "expired"
  <2>1. index' = [index EXCEPT ![on[p]] = @ \union {id}] /\ Goto(p, "read", id)
    BY <1>3 DEF Judge
  <2>2. at' \in [Processes -> Labels] /\ arg' \in [Processes -> Ids \union {NoId}]
        /\ at'[p] = "read" /\ arg'[p] = id
        /\ \A q \in Processes : q # p => at'[q] = at[q] /\ arg'[q] = arg[q]
    BY <1>1, <2>1, Went
  <2>3. /\ index' \in [Instances -> SUBSET Ids]
        /\ index'[on[p]] = index[on[p]] \union {id}
        /\ \A j \in Instances : j # on[p] => index'[j] = index[j]
    BY <1>1, <2>1, Indexed
  <2>4. \A i \in Instances : index[i] \subseteq index'[i] /\ index'[i] \subseteq index[i] \union {id}
    BY <2>3
  <2> QED
    BY <1>3, <2>2, <2>3, <2>4
<1> QED
  BY <1>2, <1>3

LEMMA Scanned ==
  ASSUME TypeOK, NEW i \in Instances, NEW id \in Ids, NEW next \in {"none", "check", "rmbytes", "rmmeta"},
         Scan(i, id, next)
  PROVE  /\ scan' \in [Instances -> [Ids -> {"none", "check", "rmbytes", "rmmeta"}]]
         /\ scan'[i][id] = next
         /\ \A j \in Instances, x \in Ids : j # i \/ x # id => scan'[j][x] = scan[j][x]
<1>1. scan \in [Instances -> [Ids -> {"none", "check", "rmbytes", "rmmeta"}]]
  BY DEF TypeOK
<1>2. scan' = [scan EXCEPT ![i] = [scan[i] EXCEPT ![id] = next]]
  BY <1>1 DEF Scan
<1>3. [scan[i] EXCEPT ![id] = next] \in [Ids -> {"none", "check", "rmbytes", "rmmeta"}]
  BY <1>1
<1> DEFINE entry == [scan[i] EXCEPT ![id] = next]
<1>4. scan' = [scan EXCEPT ![i] = entry] /\ entry \in [Ids -> {"none", "check", "rmbytes", "rmmeta"}]
  BY <1>2, <1>3
<1>5. entry[id] = next /\ \A x \in Ids : x # id => entry[x] = scan[i][x]
  BY <1>1
<1> HIDE DEF entry
<1> QED
  BY <1>1, <1>4, <1>5

LEMMA Faulted ==
  ASSUME TypeOK, NEW i \in Instances, NEW id \in Ids, Fault(i, id)
  PROVE  /\ faulty' \in [Instances -> SUBSET Ids]
         /\ faulty'[i] = faulty[i] \union {id}
         /\ \A j \in Instances : j # i => faulty'[j] = faulty[j]
<1>1. faulty \in [Instances -> SUBSET Ids]
  BY DEF TypeOK
<1>2. faulty[i] \union {id} \in SUBSET Ids
  BY <1>1
<1> QED
  BY <1>1, <1>2 DEF Fault

\* Every step keeps the types.
LEMMA TypeStep ==
  ASSUME TInv, [Next]_vars
  PROVE  TypeOK'
<1>1. ASSUME NEW p \in Processes, NEW i \in Instances, BeginPut(p, i)
      PROVE  TypeOK'
  BY <1>1 DEF BeginPut, Goto, disk, history, faults, memory, TInv, TypeOK, Labels
<1>2. ASSUME NEW p \in Processes, NEW i \in Instances, NEW id \in Ids \union {NoId}, BeginRead(p, i, id)
      PROVE  TypeOK'
  BY <1>2 DEF BeginRead, Goto, disk, history, faults, memory, TInv, TypeOK, Labels
<1>3. ASSUME NEW p \in Processes, NEW i \in Instances, NEW id \in Ids, BeginDelete(p, i, id)
      PROVE  TypeOK'
  BY <1>3 DEF BeginDelete, Goto, Unindex, disk, faults, TInv, TypeOK, Labels
<1>4. ASSUME NEW p \in Processes, Refused(p)
      PROVE  TypeOK'
  BY <1>4 DEF Refused, Goto, Return, disk, history, faults, memory, TInv, TypeOK, Labels
<1>5. ASSUME NEW p \in Processes, NameFile(p)
      PROVE  TypeOK'
  BY <1>5 DEF NameFile, Goto, disk, faults, memory, TInv, TypeOK, Labels
<1>6. ASSUME NEW p \in Processes, WriteBytes(p)
      PROVE  TypeOK'
  BY <1>6 DEF WriteBytes, Goto, history, faults, memory, TInv, TypeOK, ArgPhase, Labels
<1>7. ASSUME NEW p \in Processes, OpenMeta(p)
      PROVE  TypeOK'
  BY <1>7 DEF OpenMeta, Goto, history, faults, memory, TInv, TypeOK, ArgPhase, Labels
<1>8. ASSUME NEW p \in Processes, WriteMeta(p)
      PROVE  TypeOK'
  BY <1>8 DEF WriteMeta, Goto, Return, faults, TInv, TypeOK, ArgPhase, Labels
<1>9. ASSUME NEW p \in Processes, Lookup(p)
      PROVE  TypeOK'
  <2>1. CASE arg[p] \notin index[on[p]]
    <3>1. arg[p] \in Ids /\ "getmeta" \in Labels /\ Goto(p, "getmeta", arg[p]) /\ UNCHANGED index
      BY <1>9, <2>1 DEF Lookup, TInv, TypeOK, Labels
    <3> QED
      BY <1>9, <3>1, Went DEF Lookup, TInv, TypeOK, disk, history, faults
  <2>2. CASE arg[p] \in index[on[p]] /\ life[arg[p]] = "expired"
    <3>1. arg[p] \in Ids /\ Judge(p, arg[p])
      BY <1>9, <2>2 DEF Lookup, TInv, TypeOK
    <3> QED
      BY <1>9, <3>1, Judged DEF Lookup, TInv, TypeOK, disk, history, faults
  <2>3. CASE arg[p] \in index[on[p]] /\ life[arg[p]] # "expired"
    <3>1. arg[p] \in Ids /\ Judge(p, arg[p])
      BY <1>9, <2>3 DEF Lookup, TInv, TypeOK
    <3> QED
      BY <1>9, <3>1, Judged DEF Lookup, TInv, TypeOK, disk, history, faults
  <2> QED
    BY <1>9, <2>1, <2>2, <2>3
<1>10. ASSUME NEW p \in Processes, Miss(p)
      PROVE  TypeOK'
  BY <1>10 DEF Miss, Goto, Return, disk, history, faults, memory, TInv, TypeOK, Labels
<1>11. ASSUME NEW p \in Processes, ReadMeta(p)
      PROVE  TypeOK'
  <2>1. CASE Goto(p, "adopt", arg[p])
    <3>1. arg[p] \in Ids /\ "adopt" \in Labels
      BY <1>11 DEF ReadMeta, TInv, ArgPhase, Labels
    <3> QED
      BY <1>11, <2>1, <3>1, Went DEF ReadMeta, TInv, TypeOK, disk, history, faults, memory
  <2>2. CASE Return(p)
    BY <1>11, <2>2, Returned DEF ReadMeta, TInv, TypeOK, disk, history, faults, memory
  <2> QED
    BY <1>11, <2>1, <2>2 DEF ReadMeta
<1>12. ASSUME NEW p \in Processes, Adopt(p)
      PROVE  TypeOK'
  <2>1. CASE life[arg[p]] = "expired"
    <3>1. arg[p] \in Ids /\ Judge(p, arg[p])
      BY <1>12, <2>1 DEF Adopt, TInv, ArgPhase
    <3> QED
      BY <1>12, <3>1, Judged DEF Adopt, TInv, TypeOK, disk, history, faults
  <2>2. CASE life[arg[p]] # "expired"
    <3>1. arg[p] \in Ids /\ Judge(p, arg[p])
      BY <1>12, <2>2 DEF Adopt, TInv, ArgPhase
    <3> QED
      BY <1>12, <3>1, Judged DEF Adopt, TInv, TypeOK, disk, history, faults
  <2> QED
    BY <1>12, <2>1, <2>2
<1>13. ASSUME NEW p \in Processes, ReadBytes(p)
      PROVE  TypeOK'
  BY <1>13 DEF ReadBytes, Goto, Return, disk, history, faults, memory, TInv, TypeOK, Labels
<1>14. ASSUME NEW p \in Processes, RemoveBytes(p)
      PROVE  TypeOK'
  BY <1>14 DEF RemoveBytes, Goto, history, faults, memory, TInv, TypeOK, Labels
<1>15. ASSUME NEW p \in Processes, RemoveMeta(p)
      PROVE  TypeOK'
  BY <1>15 DEF RemoveMeta, Goto, Return, history, faults, memory, TInv, TypeOK, Labels
<1>16. ASSUME NEW p \in Processes, WriteFails(p)
      PROVE  TypeOK'
  BY <1>16 DEF WriteFails, Goto, Return, Fault, history, memory, TInv, TypeOK, ArgPhase, Labels
<1>17. ASSUME NEW p \in Processes, RemoveFails(p)
      PROVE  TypeOK'
  <2>1. CASE at[p] = "rmbytes"
    <3>1. arg[p] \in Ids /\ on[p] \in Instances /\ "rmmeta" \in Labels
         /\ Goto(p, "rmmeta", arg[p]) /\ Fault(on[p], arg[p])
      BY <1>17, <2>1 DEF RemoveFails, TInv, TypeOK, ArgPhase, Labels
    <3> QED
      BY <1>17, <3>1, Went, Faulted DEF RemoveFails, TInv, TypeOK, disk, history, memory
  <2>2. CASE at[p] = "rmmeta"
    <3>1. arg[p] \in Ids /\ on[p] \in Instances /\ Return(p) /\ Fault(on[p], arg[p])
      BY <1>17, <2>2 DEF RemoveFails, TInv, TypeOK, ArgPhase
    <3> QED
      BY <1>17, <3>1, Returned, Faulted DEF RemoveFails, TInv, TypeOK, disk, history, memory
  <2> QED
    BY <1>17, <2>1, <2>2 DEF RemoveFails
<1>18. ASSUME NEW i \in Instances, List(i)
      PROVE  TypeOK'
  BY <1>18 DEF List, disk, history, faults, TInv, TypeOK
<1>19. ASSUME NEW i \in Instances, ListFails(i)
      PROVE  TypeOK'
  BY <1>19 DEF ListFails, disk, history, faults, TInv, TypeOK
<1>20. ASSUME NEW i \in Instances, Booted(i)
      PROVE  TypeOK'
  BY <1>20 DEF Booted, disk, history, faults, TInv, TypeOK
<1>21. ASSUME NEW i \in Instances, NEW id \in Ids, Check(i, id)
      PROVE  TypeOK'
  <2>1. CASE meta[id] = "ok" /\ life[id] = "fresh"
    <3>1. Scan(i, id, "none") /\ index' = [index EXCEPT ![i] = @ \union {id}]
      BY <1>21, <2>1 DEF Check
    <3> QED
      BY <1>21, <3>1, Scanned, Indexed DEF Check, TInv, TypeOK, disk, history, faults
  <2>2. CASE ~(meta[id] = "ok" /\ life[id] = "fresh")
    <3>1. Scan(i, id, "rmbytes") /\ UNCHANGED index
      BY <1>21, <2>2 DEF Check
    <3> QED
      BY <1>21, <3>1, Scanned DEF Check, TInv, TypeOK, disk, history, faults
  <2> QED
    BY <1>21, <2>1, <2>2
<1>22. ASSUME NEW i \in Instances, NEW id \in Ids, PurgeBytes(i, id)
      PROVE  TypeOK'
  BY <1>22 DEF PurgeBytes, Scan, history, faults, TInv, TypeOK
<1>23. ASSUME NEW i \in Instances, NEW id \in Ids, PurgeMeta(i, id)
      PROVE  TypeOK'
  BY <1>23 DEF PurgeMeta, Scan, history, faults, TInv, TypeOK
<1>24. ASSUME NEW i \in Instances, NEW id \in Ids, PurgeFails(i, id)
      PROVE  TypeOK'
  <2>1. CASE scan[i][id] = "rmbytes"
    <3>1. Scan(i, id, "rmmeta") /\ Fault(i, id)
      BY <1>24, <2>1 DEF PurgeFails
    <3> QED
      BY <1>24, <3>1, Scanned, Faulted DEF PurgeFails, TInv, TypeOK, disk, history
  <2>2. CASE scan[i][id] = "rmmeta"
    <3>1. Scan(i, id, "none") /\ Fault(i, id)
      BY <1>24, <2>2 DEF PurgeFails
    <3> QED
      BY <1>24, <3>1, Scanned, Faulted DEF PurgeFails, TInv, TypeOK, disk, history
  <2> QED
    BY <1>24, <2>1, <2>2 DEF PurgeFails
<1>25. ASSUME NEW i \in Instances, BeginSweep(i)
      PROVE  TypeOK'
  BY <1>25 DEF BeginSweep, Goto, Expired, disk, history, faults, TInv, TypeOK, Labels
<1>26. ASSUME NEW i \in Instances, SweepNext(i)
      PROVE  TypeOK'
  BY <1>26 DEF SweepNext, Goto, Unindex, disk, history, faults, TInv, TypeOK, Labels, Processes
<1>27. ASSUME NEW i \in Instances, EndSweep(i)
      PROVE  TypeOK'
  BY <1>27 DEF EndSweep, Goto, disk, history, faults, memory, TInv, TypeOK, Labels
<1>28. ASSUME NEW i \in Instances, Crash(i)
      PROVE  TypeOK'
  BY <1>28, TempStoreAssumption DEF Crash, disk, history, TInv, TypeOK, Labels
<1>29. ASSUME NEW id \in Ids, Expire(id)
      PROVE  TypeOK'
  BY <1>29 DEF Expire, disk, faults, memory, TInv, TypeOK
<1>30. CASE UNCHANGED vars
  BY <1>30 DEF vars, TInv, TypeOK
<1>31. ASSUME NEW i \in Instances, ListUnread(i)
      PROVE  TypeOK'
  BY <1>31 DEF ListUnread, disk, history, TInv, TypeOK
<1>32. ASSUME NEW i \in Instances, NEW id \in Ids, CheckFails(i, id)
      PROVE  TypeOK'
  BY <1>32, Scanned DEF CheckFails, disk, faults, TInv, TypeOK
<1> QED
  BY <1>1, <1>2, <1>3, <1>4, <1>5, <1>6, <1>7, <1>8, <1>9, <1>10, <1>11, <1>12, <1>13, <1>14,
     <1>15, <1>16, <1>17, <1>18, <1>19, <1>20, <1>21, <1>22, <1>23, <1>24, <1>25, <1>26, <1>27,
     <1>28, <1>29, <1>30, <1>31, <1>32
     DEF Next, Begin, Advance, Boot, Sweep, Processes

\* A call goes past its wait only with an id that was drawn; the sweeper queues expired ids.
LEMMA ArgStep ==
  ASSUME TInv, [Next]_vars
  PROVE  ArgPhase'
<1>1. ASSUME NEW p \in Processes, NEW i \in Instances, BeginPut(p, i)
      PROVE  ArgPhase'
  BY <1>1 DEF BeginPut, Goto, history, memory, TInv, ArgPhase
<1>2. ASSUME NEW p \in Processes, NEW i \in Instances, NEW id \in Ids \union {NoId}, BeginRead(p, i, id)
      PROVE  ArgPhase'
  BY <1>2 DEF BeginRead, Goto, history, memory, TInv, TypeOK, ArgPhase
<1>3. ASSUME NEW p \in Processes, NEW i \in Instances, NEW id \in Ids, BeginDelete(p, i, id)
      PROVE  ArgPhase'
  BY <1>3 DEF BeginDelete, Goto, TInv, TypeOK, ArgPhase
<1>4. ASSUME NEW p \in Processes, Refused(p)
      PROVE  ArgPhase'
  BY <1>4 DEF Refused, Goto, Return, history, memory, TInv, ArgPhase
<1>5. ASSUME NEW p \in Processes, NameFile(p)
      PROVE  ArgPhase'
  BY <1>5 DEF NameFile, Goto, memory, TInv, TypeOK, ArgPhase
<1>6. ASSUME NEW p \in Processes, WriteBytes(p)
      PROVE  ArgPhase'
  BY <1>6 DEF WriteBytes, Goto, history, memory, TInv, ArgPhase
<1>7. ASSUME NEW p \in Processes, OpenMeta(p)
      PROVE  ArgPhase'
  BY <1>7 DEF OpenMeta, Goto, history, memory, TInv, ArgPhase
<1>8. ASSUME NEW p \in Processes, WriteMeta(p)
      PROVE  ArgPhase'
  BY <1>8 DEF WriteMeta, Goto, Return, TInv, TypeOK, ArgPhase
<1>9. ASSUME NEW p \in Processes, Lookup(p)
      PROVE  ArgPhase'
  <2>1. CASE arg[p] \notin index[on[p]]
    BY <1>9, <2>1 DEF Lookup, Goto, disk, history, faults, memory, TInv, TypeOK, ArgPhase
  <2>2. CASE arg[p] \in index[on[p]] /\ life[arg[p]] = "expired"
    <3>1. arg[p] \in issued /\ arg[p] \in Ids /\ Judge(p, arg[p])
      BY <1>9, <2>2 DEF Lookup, TInv, TypeOK, ArgPhase
    <3> QED
      BY <1>9, <2>2, <3>1, Judged DEF Lookup, history, TInv, ArgPhase
  <2>3. CASE arg[p] \in index[on[p]] /\ life[arg[p]] # "expired"
    <3>1. arg[p] \in issued /\ arg[p] \in Ids /\ Judge(p, arg[p])
      BY <1>9, <2>3 DEF Lookup, TInv, TypeOK, ArgPhase
    <3> QED
      BY <1>9, <2>3, <3>1, Judged DEF Lookup, history, TInv, ArgPhase
  <2> QED
    BY <1>9, <2>1, <2>2, <2>3
<1>10. ASSUME NEW p \in Processes, Miss(p)
      PROVE  ArgPhase'
  BY <1>10 DEF Miss, Goto, Return, history, memory, TInv, ArgPhase
<1>11. ASSUME NEW p \in Processes, ReadMeta(p)
      PROVE  ArgPhase'
  <2>1. CASE Goto(p, "adopt", arg[p])
    BY <1>11, <2>1 DEF ReadMeta, Goto, disk, history, faults, memory, TInv, TypeOK, ArgPhase,
       Processes
  <2>2. CASE Return(p)
    BY <1>11, <2>2 DEF ReadMeta, Goto, Return, disk, history, memory, TInv, TypeOK, ArgPhase,
       Processes
  <2> QED
    BY <1>11, <2>1, <2>2 DEF ReadMeta
<1>12. ASSUME NEW p \in Processes, Adopt(p)
      PROVE  ArgPhase'
  <2>1. CASE life[arg[p]] = "expired"
    BY <1>12, <2>1 DEF Adopt, Judge, Unindex, Goto, disk, history, faults, memory, TInv, TypeOK,
       ArgPhase, Processes
  <2>2. CASE life[arg[p]] # "expired"
    BY <1>12, <2>2 DEF Adopt, Judge, Unindex, Goto, disk, history, faults, memory, TInv, TypeOK,
       ArgPhase, Processes
  <2> QED
    BY <1>12, <2>1, <2>2
<1>13. ASSUME NEW p \in Processes, ReadBytes(p)
      PROVE  ArgPhase'
  BY <1>13 DEF ReadBytes, Goto, Return, history, memory, TInv, TypeOK, ArgPhase
<1>14. ASSUME NEW p \in Processes, RemoveBytes(p)
      PROVE  ArgPhase'
  BY <1>14 DEF RemoveBytes, Goto, history, memory, TInv, ArgPhase
<1>15. ASSUME NEW p \in Processes, RemoveMeta(p)
      PROVE  ArgPhase'
  BY <1>15 DEF RemoveMeta, Goto, Return, history, memory, TInv, TypeOK, ArgPhase
<1>16. ASSUME NEW p \in Processes, WriteFails(p)
      PROVE  ArgPhase'
  BY <1>16 DEF WriteFails, Goto, Return, history, memory, TInv, TypeOK, ArgPhase
<1>17. ASSUME NEW p \in Processes, RemoveFails(p)
      PROVE  ArgPhase'
  BY <1>17 DEF RemoveFails, Goto, history, memory, TInv, TypeOK, ArgPhase, Processes, Return
<1>18. ASSUME NEW i \in Instances, List(i)
      PROVE  ArgPhase'
  BY <1>18 DEF List, history, TInv, ArgPhase
<1>19. ASSUME NEW i \in Instances, ListFails(i)
      PROVE  ArgPhase'
  BY <1>19 DEF ListFails, history, TInv, ArgPhase
<1>20. ASSUME NEW i \in Instances, Booted(i)
      PROVE  ArgPhase'
  BY <1>20 DEF Booted, history, TInv, ArgPhase
<1>21. ASSUME NEW i \in Instances, NEW id \in Ids, Check(i, id)
      PROVE  ArgPhase'
  BY <1>21 DEF Check, history, TInv, ArgPhase
<1>22. ASSUME NEW i \in Instances, NEW id \in Ids, PurgeBytes(i, id)
      PROVE  ArgPhase'
  BY <1>22 DEF PurgeBytes, history, TInv, ArgPhase
<1>23. ASSUME NEW i \in Instances, NEW id \in Ids, PurgeMeta(i, id)
      PROVE  ArgPhase'
  BY <1>23 DEF PurgeMeta, history, TInv, ArgPhase
<1>24. ASSUME NEW i \in Instances, NEW id \in Ids, PurgeFails(i, id)
      PROVE  ArgPhase'
  BY <1>24 DEF PurgeFails, history, TInv, ArgPhase
<1>25. ASSUME NEW i \in Instances, BeginSweep(i)
      PROVE  ArgPhase'
  BY <1>25 DEF BeginSweep, Goto, Expired, history, TInv, ArgPhase
<1>26. ASSUME NEW i \in Instances, SweepNext(i)
      PROVE  ArgPhase'
  BY <1>26 DEF SweepNext, Goto, history, TInv, TypeOK, ArgPhase
<1>27. ASSUME NEW i \in Instances, EndSweep(i)
      PROVE  ArgPhase'
  BY <1>27 DEF EndSweep, Goto, history, memory, TInv, ArgPhase
<1>28. ASSUME NEW i \in Instances, Crash(i)
      PROVE  ArgPhase'
  BY <1>28 DEF Crash, history, TInv, ArgPhase
<1>29. ASSUME NEW id \in Ids, Expire(id)
      PROVE  ArgPhase'
  BY <1>29 DEF Expire, memory, TInv, ArgPhase
<1>30. CASE UNCHANGED vars
  BY <1>30 DEF vars, TInv, ArgPhase
<1>31. ASSUME NEW i \in Instances, ListUnread(i)
      PROVE  ArgPhase'
  BY <1>31 DEF ListUnread, disk, history, TInv, ArgPhase
<1>32. ASSUME NEW i \in Instances, NEW id \in Ids, CheckFails(i, id)
      PROVE  ArgPhase'
  BY <1>32, Scanned DEF CheckFails, disk, faults, TInv, ArgPhase
<1> QED
  BY <1>1, <1>2, <1>3, <1>4, <1>5, <1>6, <1>7, <1>8, <1>9, <1>10, <1>11, <1>12, <1>13, <1>14,
     <1>15, <1>16, <1>17, <1>18, <1>19, <1>20, <1>21, <1>22, <1>23, <1>24, <1>25, <1>26, <1>27,
     <1>28, <1>29, <1>30, <1>31, <1>32
     DEF Next, Begin, Advance, Boot, Sweep, Processes

\* A put begins to write in a booted store, and a crash ends it with the store.
LEMMA BootStep ==
  ASSUME TInv, BootPhase, [Next]_vars
  PROVE  BootPhase'
<1>1. ASSUME NEW p \in Processes, NEW i \in Instances, BeginPut(p, i)
      PROVE  BootPhase'
  BY <1>1 DEF BeginPut, Goto, memory, BootPhase, Putting
<1>2. ASSUME NEW p \in Processes, NEW i \in Instances, NEW id \in Ids \union {NoId}, BeginRead(p, i, id)
      PROVE  BootPhase'
  BY <1>2 DEF BeginRead, Goto, memory, BootPhase, Putting
<1>3. ASSUME NEW p \in Processes, NEW i \in Instances, NEW id \in Ids, BeginDelete(p, i, id)
      PROVE  BootPhase'
  BY <1>3 DEF BeginDelete, Goto, BootPhase, Putting
<1>4. ASSUME NEW p \in Processes, Refused(p)
      PROVE  BootPhase'
  BY <1>4 DEF Refused, Goto, Return, memory, BootPhase, Putting
<1>5. ASSUME NEW p \in Processes, NameFile(p)
      PROVE  BootPhase'
  BY <1>5 DEF NameFile, Goto, memory, BootPhase, Putting
<1>6. ASSUME NEW p \in Processes, WriteBytes(p)
      PROVE  BootPhase'
  BY <1>6 DEF WriteBytes, Goto, memory, BootPhase, Putting
<1>7. ASSUME NEW p \in Processes, OpenMeta(p)
      PROVE  BootPhase'
  BY <1>7 DEF OpenMeta, Goto, memory, BootPhase, Putting
<1>8. ASSUME NEW p \in Processes, WriteMeta(p)
      PROVE  BootPhase'
  BY <1>8 DEF WriteMeta, Goto, Return, BootPhase, Putting
<1>9. ASSUME NEW p \in Processes, Lookup(p)
      PROVE  BootPhase'
  BY <1>9 DEF Lookup, Judge, Goto, TInv, TypeOK, BootPhase, Putting
<1>10. ASSUME NEW p \in Processes, Miss(p)
      PROVE  BootPhase'
  BY <1>10 DEF Miss, Goto, Return, memory, BootPhase, Putting
<1>11. ASSUME NEW p \in Processes, ReadMeta(p)
      PROVE  BootPhase'
  BY <1>11 DEF ReadMeta, Goto, memory, TInv, TypeOK, BootPhase, Putting, Return
<1>12. ASSUME NEW p \in Processes, Adopt(p)
      PROVE  BootPhase'
  BY <1>12 DEF Adopt, Judge, Goto, TInv, TypeOK, BootPhase, Putting
<1>13. ASSUME NEW p \in Processes, ReadBytes(p)
      PROVE  BootPhase'
  BY <1>13 DEF ReadBytes, Goto, Return, memory, BootPhase, Putting
<1>14. ASSUME NEW p \in Processes, RemoveBytes(p)
      PROVE  BootPhase'
  BY <1>14 DEF RemoveBytes, Goto, memory, BootPhase, Putting
<1>15. ASSUME NEW p \in Processes, RemoveMeta(p)
      PROVE  BootPhase'
  BY <1>15 DEF RemoveMeta, Goto, Return, memory, BootPhase, Putting
<1>16. ASSUME NEW p \in Processes, WriteFails(p)
      PROVE  BootPhase'
  BY <1>16 DEF WriteFails, Goto, Return, memory, BootPhase, Putting
<1>17. ASSUME NEW p \in Processes, RemoveFails(p)
      PROVE  BootPhase'
  BY <1>17 DEF RemoveFails, Goto, memory, TInv, TypeOK, BootPhase, Putting, Return
<1>18. ASSUME NEW i \in Instances, List(i)
      PROVE  BootPhase'
  BY <1>18 DEF List, TInv, TypeOK, BootPhase, Putting
<1>19. ASSUME NEW i \in Instances, ListFails(i)
      PROVE  BootPhase'
  BY <1>19 DEF ListFails, BootPhase, Putting
<1>20. ASSUME NEW i \in Instances, Booted(i)
      PROVE  BootPhase'
  BY <1>20 DEF Booted, BootPhase, Putting
<1>21. ASSUME NEW i \in Instances, NEW id \in Ids, Check(i, id)
      PROVE  BootPhase'
  <2>1. boot[i] = "scanning" /\ UNCHANGED <<boot, at, on>>
    BY <1>21 DEF Check, BootPhase
  <2>2. \A j \in Instances, x \in Ids : j # i => scan'[j][x] = scan[j][x]
    BY <1>21, Scanned DEF Check, TInv
  <2> QED
    BY <2>1, <2>2 DEF BootPhase, Putting
<1>22. ASSUME NEW i \in Instances, NEW id \in Ids, PurgeBytes(i, id)
      PROVE  BootPhase'
  <2>1. boot[i] = "scanning" /\ UNCHANGED <<boot, at, on>>
    BY <1>22 DEF PurgeBytes, BootPhase
  <2>2. \A j \in Instances, x \in Ids : j # i => scan'[j][x] = scan[j][x]
    BY <1>22, Scanned DEF PurgeBytes, TInv
  <2> QED
    BY <2>1, <2>2 DEF BootPhase, Putting
<1>23. ASSUME NEW i \in Instances, NEW id \in Ids, PurgeMeta(i, id)
      PROVE  BootPhase'
  <2>1. boot[i] = "scanning" /\ UNCHANGED <<boot, at, on>>
    BY <1>23 DEF PurgeMeta, BootPhase
  <2>2. \A j \in Instances, x \in Ids : j # i => scan'[j][x] = scan[j][x]
    BY <1>23, Scanned DEF PurgeMeta, TInv
  <2> QED
    BY <2>1, <2>2 DEF BootPhase, Putting
<1>24. ASSUME NEW i \in Instances, NEW id \in Ids, PurgeFails(i, id)
      PROVE  BootPhase'
  <2>1. boot[i] = "scanning" /\ UNCHANGED <<boot, at, on>>
    BY <1>24 DEF PurgeFails, BootPhase
  <2>2. \A j \in Instances, x \in Ids : j # i => scan'[j][x] = scan[j][x]
    BY <1>24, Scanned DEF PurgeFails, TInv
  <2> QED
    BY <2>1, <2>2 DEF BootPhase, Putting
<1>25. ASSUME NEW i \in Instances, BeginSweep(i)
      PROVE  BootPhase'
  BY <1>25 DEF BeginSweep, Goto, BootPhase, Putting
<1>26. ASSUME NEW i \in Instances, SweepNext(i)
      PROVE  BootPhase'
  BY <1>26 DEF SweepNext, Goto, BootPhase, Putting
<1>27. ASSUME NEW i \in Instances, EndSweep(i)
      PROVE  BootPhase'
  BY <1>27 DEF EndSweep, Goto, memory, BootPhase, Putting
<1>28. ASSUME NEW i \in Instances, Crash(i)
      PROVE  BootPhase'
  BY <1>28 DEF Crash, TInv, TypeOK, BootPhase, Putting
<1>29. ASSUME NEW id \in Ids, Expire(id)
      PROVE  BootPhase'
  BY <1>29 DEF Expire, memory, BootPhase, Putting
<1>30. CASE UNCHANGED vars
  BY <1>30 DEF vars, BootPhase, Putting
<1>31. ASSUME NEW i \in Instances, ListUnread(i)
      PROVE  BootPhase'
  BY <1>31 DEF ListUnread, disk, history, TInv, TypeOK, BootPhase, Putting
<1>32. ASSUME NEW i \in Instances, NEW id \in Ids, CheckFails(i, id)
      PROVE  BootPhase'
  BY <1>32, Scanned DEF CheckFails, disk, faults, TInv, TypeOK, BootPhase, Putting
<1> QED
  BY <1>1, <1>2, <1>3, <1>4, <1>5, <1>6, <1>7, <1>8, <1>9, <1>10, <1>11, <1>12, <1>13, <1>14,
     <1>15, <1>16, <1>17, <1>18, <1>19, <1>20, <1>21, <1>22, <1>23, <1>24, <1>25, <1>26, <1>27,
     <1>28, <1>29, <1>30, <1>31, <1>32
     DEF Next, Begin, Advance, Boot, Sweep, Processes

\* What a put wrote of a fresh file is touched by nobody: no start scans, and removals are of issued ids.
LEMMA PutStep ==
  ASSUME QuietStarts, TInv, BootPhase, PutPhase, IssuedPhase, RemovePhase, [Next]_vars
  PROVE  PutPhase'
<1>1. ASSUME NEW p \in Processes, NEW i \in Instances, BeginPut(p, i)
      PROVE  PutPhase'
  BY <1>1 DEF BeginPut, Goto, disk, history, PutPhase, Putting
<1>2. ASSUME NEW p \in Processes, NEW i \in Instances, NEW id \in Ids \union {NoId}, BeginRead(p, i, id)
      PROVE  PutPhase'
  BY <1>2 DEF BeginRead, Goto, disk, history, PutPhase, Putting
<1>3. ASSUME NEW p \in Processes, NEW i \in Instances, NEW id \in Ids, BeginDelete(p, i, id)
      PROVE  PutPhase'
  BY <1>3 DEF BeginDelete, Goto, disk, PutPhase, Putting
<1>4. ASSUME NEW p \in Processes, Refused(p)
      PROVE  PutPhase'
  BY <1>4, Returned DEF Refused, disk, history, TInv, PutPhase, Putting
<1>5. ASSUME NEW p \in Processes, NameFile(p)
      PROVE  PutPhase'
  <2>1. PICK id \in Ids : life[id] = "unused" /\ life' = [life EXCEPT ![id] = "fresh"]
                          /\ Goto(p, "putbytes", id) /\ UNCHANGED <<disk, issued>>
    BY <1>5 DEF NameFile
  <2>2. at'[p] = "putbytes" /\ arg'[p] = id /\ \A q \in Processes : q # p => at'[q] = at[q] /\ arg'[q] = arg[q]
    BY <2>1, Went DEF TInv, Labels
  <2>3. id \notin issued /\ \A q \in Processes : Putting(q) => arg[q] # id
    BY <2>1 DEF TInv, ArgPhase, Putting
  <2>4. \A x \in Ids : x # id => life'[x] = life[x]
    BY <2>1 DEF TInv, TypeOK
  <2> QED
    BY <2>1, <2>2, <2>3, <2>4 DEF disk, PutPhase, Putting, TInv, ArgPhase
<1>6. ASSUME NEW p \in Processes, WriteBytes(p)
      PROVE  PutPhase'
  BY <1>6 DEF WriteBytes, Goto, history, PutPhase, Putting
<1>7. ASSUME NEW p \in Processes, OpenMeta(p)
      PROVE  PutPhase'
  BY <1>7 DEF OpenMeta, Goto, history, TInv, TypeOK, PutPhase, Putting
<1>8. ASSUME NEW p \in Processes, WriteMeta(p)
      PROVE  PutPhase'
  BY <1>8 DEF WriteMeta, Goto, Return, TInv, TypeOK, PutPhase, Putting
<1>9. ASSUME NEW p \in Processes, Lookup(p)
      PROVE  PutPhase'
  BY <1>9 DEF Lookup, Goto, disk, history, TInv, TypeOK, PutPhase, Putting, Judge
<1>10. ASSUME NEW p \in Processes, Miss(p)
      PROVE  PutPhase'
  BY <1>10 DEF Miss, Goto, Return, disk, history, PutPhase, Putting
<1>11. ASSUME NEW p \in Processes, ReadMeta(p)
      PROVE  PutPhase'
  <2>1. CASE Goto(p, "adopt", arg[p])
    BY <1>11, <2>1 DEF ReadMeta, Goto, disk, history, TInv, TypeOK, PutPhase, Putting
  <2>2. CASE Return(p)
    BY <1>11, <2>2, Returned DEF ReadMeta, disk, history, TInv, PutPhase, Putting
  <2> QED
    BY <1>11, <2>1, <2>2 DEF ReadMeta
<1>12. ASSUME NEW p \in Processes, Adopt(p)
      PROVE  PutPhase'
  BY <1>12 DEF Adopt, Judge, Goto, disk, history, TInv, TypeOK, PutPhase, Putting
<1>13. ASSUME NEW p \in Processes, ReadBytes(p)
      PROVE  PutPhase'
  BY <1>13 DEF ReadBytes, Goto, Return, disk, history, PutPhase, Putting
<1>14. ASSUME NEW p \in Processes, RemoveBytes(p)
      PROVE  PutPhase'
  BY <1>14 DEF RemoveBytes, Goto, history, PutPhase, IssuedPhase, Putting
<1>15. ASSUME NEW p \in Processes, RemoveMeta(p)
      PROVE  PutPhase'
  BY <1>15 DEF RemoveMeta, Goto, Return, history, PutPhase, IssuedPhase, Putting
<1>16. ASSUME NEW p \in Processes, WriteFails(p)
      PROVE  PutPhase'
  BY <1>16 DEF WriteFails, Goto, Return, history, TInv, TypeOK, PutPhase, Putting
<1>17. ASSUME NEW p \in Processes, RemoveFails(p)
      PROVE  PutPhase'
  <2>1. UNCHANGED <<disk, history>> /\ ~Putting(p)
    BY <1>17 DEF RemoveFails, Putting
  <2>2. at'[p] \notin {"putbytes", "putmeta", "putsidecar"}
        /\ \A q \in Processes : q # p => at'[q] = at[q] /\ arg'[q] = arg[q]
    BY <1>17, Went, Returned DEF RemoveFails, TInv, TypeOK, ArgPhase, Labels
  <2> QED
    BY <2>1, <2>2 DEF disk, history, PutPhase, Putting
<1>18. ASSUME NEW i \in Instances, List(i)
      PROVE  PutPhase'
  BY <1>18 DEF List, disk, history, PutPhase, Putting
<1>19. ASSUME NEW i \in Instances, ListFails(i)
      PROVE  PutPhase'
  BY <1>19 DEF ListFails, disk, history, PutPhase, Putting
<1>20. ASSUME NEW i \in Instances, Booted(i)
      PROVE  PutPhase'
  BY <1>20 DEF Booted, disk, history, PutPhase, Putting
<1>21. ASSUME NEW i \in Instances, NEW id \in Ids, Check(i, id)
      PROVE  PutPhase'
  BY <1>21 DEF Check, disk, history, PutPhase, Putting
<1>22. ASSUME NEW i \in Instances, NEW id \in Ids, PurgeBytes(i, id)
      PROVE  PutPhase'
  <2>1. \A p \in Processes : ~Putting(p)
    BY <1>22 DEF PurgeBytes, BootPhase, QuietStarts
  <2> QED
    BY <1>22, <2>1 DEF PurgeBytes, PutPhase, Putting
<1>23. ASSUME NEW i \in Instances, NEW id \in Ids, PurgeMeta(i, id)
      PROVE  PutPhase'
  <2>1. \A p \in Processes : ~Putting(p)
    BY <1>23 DEF PurgeMeta, BootPhase, QuietStarts
  <2> QED
    BY <1>23, <2>1 DEF PurgeMeta, PutPhase, Putting
<1>24. ASSUME NEW i \in Instances, NEW id \in Ids, PurgeFails(i, id)
      PROVE  PutPhase'
  BY <1>24 DEF PurgeFails, disk, history, PutPhase, Putting
<1>25. ASSUME NEW i \in Instances, BeginSweep(i)
      PROVE  PutPhase'
  BY <1>25 DEF BeginSweep, Goto, disk, history, PutPhase, Putting
<1>26. ASSUME NEW i \in Instances, SweepNext(i)
      PROVE  PutPhase'
  BY <1>26 DEF SweepNext, Goto, disk, history, PutPhase, Putting
<1>27. ASSUME NEW i \in Instances, EndSweep(i)
      PROVE  PutPhase'
  BY <1>27 DEF EndSweep, Goto, disk, history, PutPhase, Putting
<1>28. ASSUME NEW i \in Instances, Crash(i)
      PROVE  PutPhase'
  <2>1. \A q \in Processes : Putting(q)' => Putting(q) /\ at'[q] = at[q] /\ arg'[q] = arg[q]
    BY <1>28 DEF Crash, Putting, TInv, TypeOK
  <2> QED
    BY <1>28, <2>1 DEF Crash, disk, history, PutPhase
<1>29. ASSUME NEW id \in Ids, Expire(id)
      PROVE  PutPhase'
  BY <1>29 DEF Expire, disk, PutPhase, Putting
<1>30. CASE UNCHANGED vars
  BY <1>30 DEF vars, PutPhase, Putting
<1>31. ASSUME NEW i \in Instances, ListUnread(i)
      PROVE  PutPhase'
  BY <1>31 DEF ListUnread, disk, history, PutPhase, Putting
<1>32. ASSUME NEW i \in Instances, NEW id \in Ids, CheckFails(i, id)
      PROVE  PutPhase'
  BY <1>32, Scanned DEF CheckFails, disk, faults, PutPhase, Putting
<1> QED
  BY <1>1, <1>2, <1>3, <1>4, <1>5, <1>6, <1>7, <1>8, <1>9, <1>10, <1>11, <1>12, <1>13, <1>14,
     <1>15, <1>16, <1>17, <1>18, <1>19, <1>20, <1>21, <1>22, <1>23, <1>24, <1>25, <1>26, <1>27,
     <1>28, <1>29, <1>30, <1>31, <1>32
     DEF Next, Begin, Advance, Boot, Sweep, Processes

\* A sidecar is complete, and its file indexed, when put returns; the rest goes by the index and the sidecars.
LEMMA IssuedStep ==
  ASSUME TInv, IssuedPhase, [Next]_vars
  PROVE  IssuedPhase'
<1>1. ASSUME NEW p \in Processes, NEW i \in Instances, BeginPut(p, i)
      PROVE  IssuedPhase'
  BY <1>1 DEF BeginPut, Goto, disk, history, memory, IssuedPhase
<1>2. ASSUME NEW p \in Processes, NEW i \in Instances, NEW id \in Ids \union {NoId}, BeginRead(p, i, id)
      PROVE  IssuedPhase'
  BY <1>2 DEF BeginRead, Goto, disk, history, memory, IssuedPhase
<1>3. ASSUME NEW p \in Processes, NEW i \in Instances, NEW id \in Ids, BeginDelete(p, i, id)
      PROVE  IssuedPhase'
  BY <1>3 DEF BeginDelete, Goto, Unindex, disk, TInv, TypeOK, IssuedPhase
<1>4. ASSUME NEW p \in Processes, Refused(p)
      PROVE  IssuedPhase'
  BY <1>4 DEF Refused, Goto, Return, disk, history, memory, IssuedPhase
<1>5. ASSUME NEW p \in Processes, NameFile(p)
      PROVE  IssuedPhase'
  BY <1>5 DEF NameFile, Goto, disk, memory, IssuedPhase
<1>6. ASSUME NEW p \in Processes, WriteBytes(p)
      PROVE  IssuedPhase'
  BY <1>6 DEF WriteBytes, Goto, history, memory, IssuedPhase
<1>7. ASSUME NEW p \in Processes, OpenMeta(p)
      PROVE  IssuedPhase'
  BY <1>7 DEF OpenMeta, Goto, history, memory, IssuedPhase
<1>8. ASSUME NEW p \in Processes, WriteMeta(p)
      PROVE  IssuedPhase'
  BY <1>8 DEF WriteMeta, Goto, Return, IssuedPhase
<1>9. ASSUME NEW p \in Processes, Lookup(p)
      PROVE  IssuedPhase'
  <2>1. arg[p] \in issued /\ arg[p] \in Ids /\ TypeOK /\ UNCHANGED <<disk, history, queue>>
    BY <1>9 DEF Lookup, TInv, TypeOK, ArgPhase
  <2>2. CASE arg[p] \in index[on[p]]
    <3>1. Judge(p, arg[p])
      BY <1>9, <2>2 DEF Lookup
    <3>2. /\ arg'[p] = arg[p] /\ \A q \in Processes : q # p => at'[q] = at[q] /\ arg'[q] = arg[q]
          /\ \A i \in Instances : index'[i] \subseteq index[i] \union {arg[p]}
      BY <2>1, <3>1, Judged
    <3> QED
      BY <2>1, <3>2 DEF disk, history, IssuedPhase
  <2>3. CASE arg[p] \notin index[on[p]]
    <3>1. index' = index /\ Goto(p, "getmeta", arg[p])
      BY <1>9, <2>3 DEF Lookup
    <3> QED
      BY <2>1, <3>1, Went DEF disk, history, IssuedPhase, Labels
  <2> QED
    BY <2>2, <2>3
<1>10. ASSUME NEW p \in Processes, Miss(p)
      PROVE  IssuedPhase'
  BY <1>10 DEF Miss, Goto, Return, disk, history, memory, IssuedPhase
<1>11. ASSUME NEW p \in Processes, ReadMeta(p)
      PROVE  IssuedPhase'
  BY <1>11 DEF ReadMeta, Goto, disk, history, memory, TInv, TypeOK, IssuedPhase, Return
<1>12. ASSUME NEW p \in Processes, Adopt(p)
      PROVE  IssuedPhase'
  <2>1. arg[p] \in issued /\ UNCHANGED <<disk, history, queue>> /\ Judge(p, arg[p])
    BY <1>12 DEF Adopt, IssuedPhase
  <2> QED
    BY <2>1, Judged DEF disk, history, TInv, TypeOK, IssuedPhase
<1>13. ASSUME NEW p \in Processes, ReadBytes(p)
      PROVE  IssuedPhase'
  BY <1>13 DEF ReadBytes, Goto, Return, disk, history, memory, TInv, TypeOK, IssuedPhase
<1>14. ASSUME NEW p \in Processes, RemoveBytes(p)
      PROVE  IssuedPhase'
  BY <1>14 DEF RemoveBytes, Goto, history, memory, IssuedPhase
<1>15. ASSUME NEW p \in Processes, RemoveMeta(p)
      PROVE  IssuedPhase'
  BY <1>15 DEF RemoveMeta, Goto, Return, history, memory, TInv, TypeOK, IssuedPhase
<1>16. ASSUME NEW p \in Processes, WriteFails(p)
      PROVE  IssuedPhase'
  BY <1>16 DEF WriteFails, Goto, Return, history, memory, IssuedPhase
<1>17. ASSUME NEW p \in Processes, RemoveFails(p)
      PROVE  IssuedPhase'
  BY <1>17 DEF RemoveFails, Goto, disk, history, memory, TInv, TypeOK, IssuedPhase, Return
<1>18. ASSUME NEW i \in Instances, List(i)
      PROVE  IssuedPhase'
  BY <1>18 DEF List, disk, history, IssuedPhase
<1>19. ASSUME NEW i \in Instances, ListFails(i)
      PROVE  IssuedPhase'
  BY <1>19 DEF ListFails, disk, history, IssuedPhase
<1>20. ASSUME NEW i \in Instances, Booted(i)
      PROVE  IssuedPhase'
  BY <1>20 DEF Booted, disk, history, IssuedPhase
<1>21. ASSUME NEW i \in Instances, NEW id \in Ids, Check(i, id)
      PROVE  IssuedPhase'
  <2>1. UNCHANGED <<disk, history, queue, at, arg>>
    BY <1>21 DEF Check
  <2>2. CASE index' = index
    BY <2>1, <2>2 DEF disk, history, IssuedPhase
  <2>3. CASE meta[id] = "ok" /\ index' = [index EXCEPT ![i] = @ \union {id}]
    <3>1. id \in issued
      BY <2>3 DEF IssuedPhase
    <3>2. \A j \in Instances : index'[j] \subseteq index[j] \union {id}
      BY <2>3 DEF TInv, TypeOK
    <3> QED
      BY <2>1, <3>1, <3>2 DEF disk, history, IssuedPhase
  <2> QED
    BY <1>21, <2>2, <2>3 DEF Check
<1>22. ASSUME NEW i \in Instances, NEW id \in Ids, PurgeBytes(i, id)
      PROVE  IssuedPhase'
  BY <1>22 DEF PurgeBytes, history, IssuedPhase
<1>23. ASSUME NEW i \in Instances, NEW id \in Ids, PurgeMeta(i, id)
      PROVE  IssuedPhase'
  BY <1>23 DEF PurgeMeta, history, IssuedPhase
<1>24. ASSUME NEW i \in Instances, NEW id \in Ids, PurgeFails(i, id)
      PROVE  IssuedPhase'
  BY <1>24 DEF PurgeFails, disk, history, IssuedPhase
<1>25. ASSUME NEW i \in Instances, BeginSweep(i)
      PROVE  IssuedPhase'
  BY <1>25 DEF BeginSweep, Goto, Expired, disk, history, IssuedPhase
<1>26. ASSUME NEW i \in Instances, SweepNext(i)
      PROVE  IssuedPhase'
  BY <1>26 DEF SweepNext, Goto, Unindex, disk, history, TInv, TypeOK, IssuedPhase
<1>27. ASSUME NEW i \in Instances, EndSweep(i)
      PROVE  IssuedPhase'
  BY <1>27 DEF EndSweep, Goto, disk, history, memory, IssuedPhase
<1>28. ASSUME NEW i \in Instances, Crash(i)
      PROVE  IssuedPhase'
  BY <1>28 DEF Crash, disk, history, IssuedPhase
<1>29. ASSUME NEW id \in Ids, Expire(id)
      PROVE  IssuedPhase'
  BY <1>29 DEF Expire, disk, memory, IssuedPhase
<1>30. CASE UNCHANGED vars
  BY <1>30 DEF vars, IssuedPhase
<1>31. ASSUME NEW i \in Instances, ListUnread(i)
      PROVE  IssuedPhase'
  BY <1>31 DEF ListUnread, disk, history, IssuedPhase
<1>32. ASSUME NEW i \in Instances, NEW id \in Ids, CheckFails(i, id)
      PROVE  IssuedPhase'
  BY <1>32, Scanned DEF CheckFails, disk, faults, IssuedPhase
<1> QED
  BY <1>1, <1>2, <1>3, <1>4, <1>5, <1>6, <1>7, <1>8, <1>9, <1>10, <1>11, <1>12, <1>13, <1>14,
     <1>15, <1>16, <1>17, <1>18, <1>19, <1>20, <1>21, <1>22, <1>23, <1>24, <1>25, <1>26, <1>27,
     <1>28, <1>29, <1>30, <1>31, <1>32
     DEF Next, Begin, Advance, Boot, Sweep, Processes

\* A removal begins for an expired or a deleted file; a start purges what is not complete and fresh.
LEMMA RemoveStep ==
  ASSUME QuietStarts, TInv, BootPhase, RemovePhase, IssuedStaysReadable, [Next]_vars
  PROVE  RemovePhase'
<1> USE DEF Doomed
<1>1. ASSUME NEW p \in Processes, NEW i \in Instances, BeginPut(p, i)
      PROVE  RemovePhase'
  BY <1>1 DEF BeginPut, Goto, history, memory, RemovePhase
<1>2. ASSUME NEW p \in Processes, NEW i \in Instances, NEW id \in Ids \union {NoId}, BeginRead(p, i, id)
      PROVE  RemovePhase'
  BY <1>2 DEF BeginRead, Goto, history, memory, RemovePhase
<1>3. ASSUME NEW p \in Processes, NEW i \in Instances, NEW id \in Ids, BeginDelete(p, i, id)
      PROVE  RemovePhase'
  BY <1>3 DEF BeginDelete, Goto, TInv, TypeOK, RemovePhase
<1>4. ASSUME NEW p \in Processes, Refused(p)
      PROVE  RemovePhase'
  BY <1>4 DEF Refused, Goto, Return, history, memory, RemovePhase
<1>5. ASSUME NEW p \in Processes, NameFile(p)
      PROVE  RemovePhase'
  <2>1. PICK id \in Ids : life[id] = "unused" /\ life' = [life EXCEPT ![id] = "fresh"]
                          /\ Goto(p, "putbytes", id)
                          /\ UNCHANGED <<issued, deleted, misread, scan>>
    BY <1>5 DEF NameFile, memory
  <2>2. at'[p] = "putbytes" /\ \A q \in Processes : q # p => at'[q] = at[q] /\ arg'[q] = arg[q]
    BY <2>1, Went DEF TInv, Labels
  <2>3. id \notin issued /\ \A x \in Ids : x # id => life'[x] = life[x]
    BY <2>1 DEF TInv, TypeOK, ArgPhase
  <2> QED
    BY <2>1, <2>2, <2>3 DEF RemovePhase, TInv, ArgPhase
<1>6. ASSUME NEW p \in Processes, WriteBytes(p)
      PROVE  RemovePhase'
  BY <1>6 DEF WriteBytes, Goto, history, memory, RemovePhase
<1>7. ASSUME NEW p \in Processes, OpenMeta(p)
      PROVE  RemovePhase'
  BY <1>7 DEF OpenMeta, Goto, history, memory, RemovePhase
<1>8. ASSUME NEW p \in Processes, WriteMeta(p)
      PROVE  RemovePhase'
  <2>1. /\ Putting(p) /\ UNCHANGED <<life, deleted, misread, scan>>
        /\ issued' = issued \union {arg[p]} /\ Return(p)
    BY <1>8 DEF WriteMeta, Putting
  <2>2. \A i \in Instances, id \in Ids : scan[i][id] = "none"
    BY <2>1 DEF QuietStarts, BootPhase
  <2>3. at'[p] \in {"idle", "sweeping"} /\ \A q \in Processes : q # p => at'[q] = at[q] /\ arg'[q] = arg[q]
    BY <2>1, Returned DEF TInv
  <2> QED
    BY <2>1, <2>2, <2>3 DEF RemovePhase
<1>9. ASSUME NEW p \in Processes, Lookup(p)
      PROVE  RemovePhase'
  BY <1>9 DEF Lookup, Goto, history, TInv, TypeOK, RemovePhase, Judge
<1>10. ASSUME NEW p \in Processes, Miss(p)
      PROVE  RemovePhase'
  BY <1>10 DEF Miss, Goto, Return, history, memory, RemovePhase
<1>11. ASSUME NEW p \in Processes, ReadMeta(p)
      PROVE  RemovePhase'
  BY <1>11 DEF ReadMeta, Goto, history, memory, TInv, TypeOK, RemovePhase, Return
<1>12. ASSUME NEW p \in Processes, Adopt(p)
      PROVE  RemovePhase'
  BY <1>12 DEF Adopt, Judge, Goto, history, TInv, TypeOK, RemovePhase
<1>13. ASSUME NEW p \in Processes, ReadBytes(p)
      PROVE  RemovePhase'
  BY <1>13 DEF ReadBytes, Goto, Return, history, memory, RemovePhase
<1>14. ASSUME NEW p \in Processes, RemoveBytes(p)
      PROVE  RemovePhase'
  BY <1>14 DEF RemoveBytes, Goto, history, memory, RemovePhase
<1>15. ASSUME NEW p \in Processes, RemoveMeta(p)
      PROVE  RemovePhase'
  BY <1>15 DEF RemoveMeta, Goto, Return, history, memory, TInv, TypeOK, RemovePhase
<1>16. ASSUME NEW p \in Processes, WriteFails(p)
      PROVE  RemovePhase'
  BY <1>16 DEF WriteFails, Goto, Return, history, memory, RemovePhase
<1>17. ASSUME NEW p \in Processes, RemoveFails(p)
      PROVE  RemovePhase'
  BY <1>17 DEF RemoveFails, Goto, history, memory, TInv, TypeOK, RemovePhase, Return
<1>18. ASSUME NEW i \in Instances, List(i)
      PROVE  RemovePhase'
  BY <1>18 DEF List, history, RemovePhase, IssuedStaysReadable, Readable
<1>19. ASSUME NEW i \in Instances, ListFails(i)
      PROVE  RemovePhase'
  BY <1>19 DEF ListFails, history, RemovePhase
<1>20. ASSUME NEW i \in Instances, Booted(i)
      PROVE  RemovePhase'
  BY <1>20 DEF Booted, history, RemovePhase
<1>21. ASSUME NEW i \in Instances, NEW id \in Ids, Check(i, id)
      PROVE  RemovePhase'
  <2>1. UNCHANGED <<history, at, arg>>
    BY <1>21 DEF Check
  <2>2. \A j \in Instances, x \in Ids : j # i \/ x # id => scan'[j][x] = scan[j][x]
    BY <1>21, Scanned DEF Check, TInv
  <2>3. scan'[i][id] = "rmbytes" => meta[id] # "ok" \/ life[id] # "fresh"
    BY <1>21, Scanned DEF Check, TInv
  <2>4. scan'[i][id] # "rmmeta"
    BY <1>21, Scanned DEF Check, TInv
  <2>5. meta[id] # "ok" \/ life[id] # "fresh" => id \notin issued \/ Doomed(id)
    BY DEF IssuedStaysReadable, Readable, TInv, TypeOK, ArgPhase
  <2> QED
    BY <2>1, <2>2, <2>3, <2>4, <2>5 DEF history, RemovePhase
<1>22. ASSUME NEW i \in Instances, NEW id \in Ids, PurgeBytes(i, id)
      PROVE  RemovePhase'
  BY <1>22 DEF PurgeBytes, Scan, history, RemovePhase
<1>23. ASSUME NEW i \in Instances, NEW id \in Ids, PurgeMeta(i, id)
      PROVE  RemovePhase'
  BY <1>23 DEF PurgeMeta, Scan, history, RemovePhase
<1>24. ASSUME NEW i \in Instances, NEW id \in Ids, PurgeFails(i, id)
      PROVE  RemovePhase'
  <2>1. (scan[i][id] = "rmbytes" /\ Scan(i, id, "rmmeta")) \/ Scan(i, id, "none")
    BY <1>24 DEF PurgeFails
  <2>2. /\ scan'[i][id] = "none" \/ scan[i][id] = "rmbytes"
        /\ \A j \in Instances, x \in Ids : j # i \/ x # id => scan'[j][x] = scan[j][x]
    BY <2>1, Scanned DEF TInv
  <2> QED
    BY <1>24, <2>2 DEF PurgeFails, history, RemovePhase
<1>25. ASSUME NEW i \in Instances, BeginSweep(i)
      PROVE  RemovePhase'
  BY <1>25 DEF BeginSweep, Goto, history, RemovePhase
<1>26. ASSUME NEW i \in Instances, SweepNext(i)
      PROVE  RemovePhase'
  BY <1>26 DEF SweepNext, Goto, history, TInv, TypeOK, ArgPhase, RemovePhase
<1>27. ASSUME NEW i \in Instances, EndSweep(i)
      PROVE  RemovePhase'
  BY <1>27 DEF EndSweep, Goto, history, memory, RemovePhase
<1>28. ASSUME NEW i \in Instances, Crash(i)
      PROVE  RemovePhase'
  <2>1. \A q \in Processes : at'[q] # "idle" => at'[q] = at[q] /\ arg'[q] = arg[q]
    BY <1>28 DEF Crash, TInv, TypeOK
  <2>2. \A j \in Instances, x \in Ids : scan'[j][x] \in {"none", scan[j][x]}
    BY <1>28 DEF Crash, TInv, TypeOK
  <2> QED
    BY <1>28, <2>1, <2>2 DEF Crash, history, RemovePhase
<1>29. ASSUME NEW id \in Ids, Expire(id)
      PROVE  RemovePhase'
  BY <1>29 DEF Expire, memory, RemovePhase
<1>30. CASE UNCHANGED vars
  BY <1>30 DEF vars, RemovePhase
<1>31. ASSUME NEW i \in Instances, ListUnread(i)
      PROVE  RemovePhase'
  BY <1>31 DEF ListUnread, disk, history, TInv, TypeOK, RemovePhase, Doomed
<1>32. ASSUME NEW i \in Instances, NEW id \in Ids, CheckFails(i, id)
      PROVE  RemovePhase'
  BY <1>32, Scanned DEF CheckFails, disk, faults, TInv, TypeOK, RemovePhase, Doomed
<1> QED
  BY <1>1, <1>2, <1>3, <1>4, <1>5, <1>6, <1>7, <1>8, <1>9, <1>10, <1>11, <1>12, <1>13, <1>14,
     <1>15, <1>16, <1>17, <1>18, <1>19, <1>20, <1>21, <1>22, <1>23, <1>24, <1>25, <1>26, <1>27,
     <1>28, <1>29, <1>30, <1>31, <1>32
     DEF Next, Begin, Advance, Boot, Sweep, Processes

\* No step takes a fresh, undeleted file away: puts leave it whole, and removals are of others.
LEMMA ReadableStep ==
  ASSUME QuietStarts, TInv, PutPhase, RemovePhase, IssuedStaysReadable, [Next]_vars
  PROVE  IssuedStaysReadable'
<1> USE DEF Doomed, Readable
<1>1. ASSUME NEW p \in Processes, NEW i \in Instances, BeginPut(p, i)
      PROVE  IssuedStaysReadable'
  BY <1>1 DEF BeginPut, disk, history, IssuedStaysReadable
<1>2. ASSUME NEW p \in Processes, NEW i \in Instances, NEW id \in Ids \union {NoId}, BeginRead(p, i, id)
      PROVE  IssuedStaysReadable'
  BY <1>2 DEF BeginRead, disk, history, IssuedStaysReadable
<1>3. ASSUME NEW p \in Processes, NEW i \in Instances, NEW id \in Ids, BeginDelete(p, i, id)
      PROVE  IssuedStaysReadable'
  BY <1>3 DEF BeginDelete, disk, IssuedStaysReadable
<1>4. ASSUME NEW p \in Processes, Refused(p)
      PROVE  IssuedStaysReadable'
  BY <1>4 DEF Refused, disk, history, IssuedStaysReadable
<1>5. ASSUME NEW p \in Processes, NameFile(p)
      PROVE  IssuedStaysReadable'
  BY <1>5 DEF NameFile, disk, TInv, ArgPhase, IssuedStaysReadable
<1>6. ASSUME NEW p \in Processes, WriteBytes(p)
      PROVE  IssuedStaysReadable'
  BY <1>6 DEF WriteBytes, history, IssuedStaysReadable
<1>7. ASSUME NEW p \in Processes, OpenMeta(p)
      PROVE  IssuedStaysReadable'
  BY <1>7 DEF OpenMeta, history, PutPhase, IssuedStaysReadable, Putting
<1>8. ASSUME NEW p \in Processes, WriteMeta(p)
      PROVE  IssuedStaysReadable'
  <2>1. /\ arg[p] \in Ids /\ life[arg[p]] # "unused" /\ UNCHANGED <<bytes, life, deleted, misread>>
        /\ issued' = issued \union {arg[p]}
    BY <1>8 DEF WriteMeta, TInv, TypeOK, ArgPhase
  <2>2. life[arg[p]] = "fresh" => arg[p] \in bytes /\ meta'[arg[p]] = "ok"
    BY <1>8, <2>1 DEF WriteMeta, TInv, TypeOK, PutPhase, Putting
  <2>3. \A x \in Ids : meta[x] = "ok" => meta'[x] = "ok"
    BY <1>8, <2>1 DEF WriteMeta, TInv, TypeOK
  <2> QED
    BY <2>1, <2>2, <2>3 DEF IssuedStaysReadable, TInv, TypeOK
<1>9. ASSUME NEW p \in Processes, Lookup(p)
      PROVE  IssuedStaysReadable'
  BY <1>9 DEF Lookup, disk, history, IssuedStaysReadable
<1>10. ASSUME NEW p \in Processes, Miss(p)
      PROVE  IssuedStaysReadable'
  BY <1>10 DEF Miss, disk, history, IssuedStaysReadable
<1>11. ASSUME NEW p \in Processes, ReadMeta(p)
      PROVE  IssuedStaysReadable'
  BY <1>11 DEF ReadMeta, disk, history, IssuedStaysReadable
<1>12. ASSUME NEW p \in Processes, Adopt(p)
      PROVE  IssuedStaysReadable'
  BY <1>12 DEF Adopt, disk, history, IssuedStaysReadable
<1>13. ASSUME NEW p \in Processes, ReadBytes(p)
      PROVE  IssuedStaysReadable'
  BY <1>13 DEF ReadBytes, disk, history, IssuedStaysReadable
<1>14. ASSUME NEW p \in Processes, RemoveBytes(p)
      PROVE  IssuedStaysReadable'
  BY <1>14 DEF RemoveBytes, history, RemovePhase, IssuedStaysReadable
<1>15. ASSUME NEW p \in Processes, RemoveMeta(p)
      PROVE  IssuedStaysReadable'
  BY <1>15 DEF RemoveMeta, history, RemovePhase, IssuedStaysReadable
<1>16. ASSUME NEW p \in Processes, WriteFails(p)
      PROVE  IssuedStaysReadable'
  BY <1>16 DEF WriteFails, history, IssuedStaysReadable
<1>17. ASSUME NEW p \in Processes, RemoveFails(p)
      PROVE  IssuedStaysReadable'
  BY <1>17 DEF RemoveFails, disk, history, IssuedStaysReadable
<1>18. ASSUME NEW i \in Instances, List(i)
      PROVE  IssuedStaysReadable'
  BY <1>18 DEF List, disk, history, IssuedStaysReadable
<1>19. ASSUME NEW i \in Instances, ListFails(i)
      PROVE  IssuedStaysReadable'
  BY <1>19 DEF ListFails, disk, history, IssuedStaysReadable
<1>20. ASSUME NEW i \in Instances, Booted(i)
      PROVE  IssuedStaysReadable'
  BY <1>20 DEF Booted, disk, history, IssuedStaysReadable
<1>21. ASSUME NEW i \in Instances, NEW id \in Ids, Check(i, id)
      PROVE  IssuedStaysReadable'
  BY <1>21 DEF Check, disk, history, IssuedStaysReadable
<1>22. ASSUME NEW i \in Instances, NEW id \in Ids, PurgeBytes(i, id)
      PROVE  IssuedStaysReadable'
  BY <1>22 DEF PurgeBytes, history, RemovePhase, IssuedStaysReadable
<1>23. ASSUME NEW i \in Instances, NEW id \in Ids, PurgeMeta(i, id)
      PROVE  IssuedStaysReadable'
  BY <1>23 DEF PurgeMeta, history, RemovePhase, IssuedStaysReadable
<1>24. ASSUME NEW i \in Instances, NEW id \in Ids, PurgeFails(i, id)
      PROVE  IssuedStaysReadable'
  BY <1>24 DEF PurgeFails, disk, history, IssuedStaysReadable
<1>25. ASSUME NEW i \in Instances, BeginSweep(i)
      PROVE  IssuedStaysReadable'
  BY <1>25 DEF BeginSweep, disk, history, IssuedStaysReadable
<1>26. ASSUME NEW i \in Instances, SweepNext(i)
      PROVE  IssuedStaysReadable'
  BY <1>26 DEF SweepNext, disk, history, IssuedStaysReadable
<1>27. ASSUME NEW i \in Instances, EndSweep(i)
      PROVE  IssuedStaysReadable'
  BY <1>27 DEF EndSweep, disk, history, IssuedStaysReadable
<1>28. ASSUME NEW i \in Instances, Crash(i)
      PROVE  IssuedStaysReadable'
  BY <1>28 DEF Crash, disk, history, IssuedStaysReadable
<1>29. ASSUME NEW id \in Ids, Expire(id)
      PROVE  IssuedStaysReadable'
  BY <1>29 DEF Expire, disk, IssuedStaysReadable
<1>30. CASE UNCHANGED vars
  BY <1>30 DEF vars, IssuedStaysReadable
<1>31. ASSUME NEW i \in Instances, ListUnread(i)
      PROVE  IssuedStaysReadable'
  BY <1>31 DEF ListUnread, disk, history, IssuedStaysReadable, Doomed, Readable
<1>32. ASSUME NEW i \in Instances, NEW id \in Ids, CheckFails(i, id)
      PROVE  IssuedStaysReadable'
  BY <1>32, Scanned DEF CheckFails, disk, faults, IssuedStaysReadable, Doomed, Readable
<1> QED
  BY <1>1, <1>2, <1>3, <1>4, <1>5, <1>6, <1>7, <1>8, <1>9, <1>10, <1>11, <1>12, <1>13, <1>14,
     <1>15, <1>16, <1>17, <1>18, <1>19, <1>20, <1>21, <1>22, <1>23, <1>24, <1>25, <1>26, <1>27,
     <1>28, <1>29, <1>30, <1>31, <1>32
     DEF Next, Begin, Advance, Boot, Sweep, Processes

\* A step that gives a file up takes it off the disk or has failed to, or leaves it to the index or a call.
LEMMA LeftStep ==
  ASSUME NEW s, Instances = {s}, TInv, BootPhase, PutPhase, IssuedPhase, RemovePhase, LeftPhase, [Next]_vars
  PROVE  LeftPhase'
<1>1. ASSUME NEW p \in Processes, NEW i \in Instances, BeginPut(p, i)
      PROVE  LeftPhase'
  BY <1>1 DEF BeginPut, Goto, disk, faults, memory, LeftPhase, OnDisk, Busy
<1>2. ASSUME NEW p \in Processes, NEW i \in Instances, NEW id \in Ids \union {NoId}, BeginRead(p, i, id)
      PROVE  LeftPhase'
  BY <1>2 DEF BeginRead, Goto, disk, faults, memory, LeftPhase, OnDisk, Busy
<1>3. ASSUME NEW p \in Processes, NEW i \in Instances, NEW id \in Ids, BeginDelete(p, i, id)
      PROVE  LeftPhase'
  BY <1>3 DEF BeginDelete, Goto, Unindex, disk, faults, TInv, TypeOK, LeftPhase, OnDisk, Busy
<1>4. ASSUME NEW p \in Processes, Refused(p)
      PROVE  LeftPhase'
  BY <1>4 DEF Refused, Goto, Return, disk, faults, memory, LeftPhase, OnDisk, Busy
<1>5. ASSUME NEW p \in Processes, NameFile(p)
      PROVE  LeftPhase'
  BY <1>5 DEF NameFile, Goto, disk, faults, memory, LeftPhase, OnDisk, Busy
<1>6. ASSUME NEW p \in Processes, WriteBytes(p)
      PROVE  LeftPhase'
  BY <1>6 DEF WriteBytes, Goto, faults, memory, TInv, TypeOK, BootPhase, PutPhase, IssuedPhase,
     LeftPhase, Putting, OnDisk, Busy
<1>7. ASSUME NEW p \in Processes, OpenMeta(p)
      PROVE  LeftPhase'
  BY <1>7 DEF OpenMeta, Goto, faults, memory, LeftPhase, OnDisk, Busy
<1>8. ASSUME NEW p \in Processes, WriteMeta(p)
      PROVE  LeftPhase'
  BY <1>8 DEF WriteMeta, Goto, Return, faults, TInv, TypeOK, LeftPhase, OnDisk, Busy
<1>9. ASSUME NEW p \in Processes, Lookup(p)
      PROVE  LeftPhase'
  BY <1>9 DEF Lookup, Goto, disk, faults, TInv, TypeOK, LeftPhase, OnDisk, Busy, Judge, Unindex
<1>10. ASSUME NEW p \in Processes, Miss(p)
      PROVE  LeftPhase'
  BY <1>10 DEF Miss, Goto, Return, disk, faults, memory, LeftPhase, OnDisk, Busy
<1>11. ASSUME NEW p \in Processes, ReadMeta(p)
      PROVE  LeftPhase'
  BY <1>11 DEF ReadMeta, Goto, disk, faults, memory, TInv, TypeOK, LeftPhase, OnDisk, Busy, Return
<1>12. ASSUME NEW p \in Processes, Adopt(p)
      PROVE  LeftPhase'
  BY <1>12 DEF Adopt, Judge, Unindex, Goto, disk, faults, TInv, TypeOK, LeftPhase, OnDisk, Busy
<1>13. ASSUME NEW p \in Processes, ReadBytes(p)
      PROVE  LeftPhase'
  BY <1>13 DEF ReadBytes, Goto, Return, disk, faults, memory, LeftPhase, OnDisk, Busy
<1>14. ASSUME NEW p \in Processes, RemoveBytes(p)
      PROVE  LeftPhase'
  BY <1>14 DEF RemoveBytes, Goto, faults, memory, LeftPhase, OnDisk, Busy
<1>15. ASSUME NEW p \in Processes, RemoveMeta(p)
      PROVE  LeftPhase'
  BY <1>15 DEF RemoveMeta, Goto, Return, faults, memory, TInv, TypeOK, LeftPhase, OnDisk, Busy
<1>16. ASSUME NEW p \in Processes, WriteFails(p)
      PROVE  LeftPhase'
  BY <1>16 DEF WriteFails, Goto, Return, Fault, memory, TInv, TypeOK, LeftPhase, OnDisk, Busy
<1>17. ASSUME NEW p \in Processes, RemoveFails(p)
      PROVE  LeftPhase'
  BY <1>17 DEF RemoveFails, Goto, Fault, disk, memory, TInv, TypeOK, LeftPhase, OnDisk, Busy, Return
<1>18. ASSUME NEW i \in Instances, List(i)
      PROVE  LeftPhase'
  BY <1>18 DEF List, disk, faults, TInv, TypeOK, LeftPhase, OnDisk, Busy
<1>19. ASSUME NEW i \in Instances, ListFails(i)
      PROVE  LeftPhase'
  BY <1>19 DEF ListFails, disk, faults, LeftPhase
<1>20. ASSUME NEW i \in Instances, Booted(i)
      PROVE  LeftPhase'
  BY <1>20 DEF Booted, disk, faults, LeftPhase, OnDisk, Busy
<1>21. ASSUME NEW i \in Instances, NEW id \in Ids, Check(i, id)
      PROVE  LeftPhase'
  BY <1>21 DEF Check, Scan, disk, faults, TInv, TypeOK, LeftPhase, OnDisk, Busy
<1>22. ASSUME NEW i \in Instances, NEW id \in Ids, PurgeBytes(i, id)
      PROVE  LeftPhase'
  BY <1>22 DEF PurgeBytes, Scan, faults, LeftPhase, OnDisk, Busy
<1>23. ASSUME NEW i \in Instances, NEW id \in Ids, PurgeMeta(i, id)
      PROVE  LeftPhase'
  BY <1>23 DEF PurgeMeta, Scan, faults, TInv, TypeOK, LeftPhase, OnDisk, Busy
<1>24. ASSUME NEW i \in Instances, NEW id \in Ids, PurgeFails(i, id)
      PROVE  LeftPhase'
  BY <1>24 DEF PurgeFails, Scan, Fault, disk, TInv, TypeOK, LeftPhase, OnDisk, Busy
<1>25. ASSUME NEW i \in Instances, BeginSweep(i)
      PROVE  LeftPhase'
  BY <1>25 DEF BeginSweep, Goto, disk, faults, LeftPhase, OnDisk, Busy
<1>26. ASSUME NEW i \in Instances, SweepNext(i)
      PROVE  LeftPhase'
  BY <1>26 DEF SweepNext, Goto, Unindex, disk, faults, TInv, TypeOK, Processes, LeftPhase,
     OnDisk, Busy
<1>27. ASSUME NEW i \in Instances, EndSweep(i)
      PROVE  LeftPhase'
  BY <1>27 DEF EndSweep, Goto, disk, faults, memory, LeftPhase, OnDisk, Busy
<1>28. ASSUME NEW i \in Instances, Crash(i)
      PROVE  LeftPhase'
  BY <1>28 DEF Crash, TInv, TypeOK, LeftPhase
<1>29. ASSUME NEW id \in Ids, Expire(id)
      PROVE  LeftPhase'
  BY <1>29 DEF Expire, disk, faults, memory, LeftPhase, OnDisk, Busy
<1>30. CASE UNCHANGED vars
  BY <1>30 DEF vars, LeftPhase, OnDisk, Busy
<1>31. ASSUME NEW i \in Instances, ListUnread(i)
      PROVE  LeftPhase'
  BY <1>31 DEF ListUnread, disk, history, TInv, TypeOK, LeftPhase, OnDisk, Busy
<1>32. ASSUME NEW i \in Instances, NEW id \in Ids, CheckFails(i, id)
      PROVE  LeftPhase'
  BY <1>32, Scanned DEF CheckFails, disk, faults, TInv, TypeOK, LeftPhase, OnDisk, Busy
<1> QED
  BY <1>1, <1>2, <1>3, <1>4, <1>5, <1>6, <1>7, <1>8, <1>9, <1>10, <1>11, <1>12, <1>13, <1>14,
     <1>15, <1>16, <1>17, <1>18, <1>19, <1>20, <1>21, <1>22, <1>23, <1>24, <1>25, <1>26, <1>27,
     <1>28, <1>29, <1>30, <1>31, <1>32
     DEF Next, Begin, Advance, Boot, Sweep, Processes

-----------------------------------------------------------------------------
(***************************************************************************)
(* The invariant, and what follows from it.                                *)
(***************************************************************************)
OneInstance == \E s : Instances = {s}

LEMMA InitTInv ==
  ASSUME Init PROVE TInv
<1>1. TypeOK
  BY TempStoreAssumption DEF Init, TypeOK, Labels
<1>2. ArgPhase
  BY DEF Init, ArgPhase
<1> QED
  BY <1>1, <1>2 DEF TInv

LEMMA InitIInv ==
  ASSUME Init PROVE IInv
<1>1. BootPhase /\ PutPhase
  BY DEF Init, BootPhase, PutPhase, Putting
<1>2. IssuedPhase /\ RemovePhase
  BY DEF Init, IssuedPhase, RemovePhase
<1>3. LeftPhase /\ IssuedStaysReadable
  BY DEF Init, LeftPhase, IssuedStaysReadable, OnDisk
<1> QED
  BY <1>1, <1>2, <1>3, InitTInv DEF IInv, SharedInv

LEMMA TStep ==
  ASSUME TInv, [Next]_vars PROVE TInv'
<1>1. TypeOK'
  BY TypeStep
<1>2. ArgPhase'
  BY ArgStep
<1> QED
  BY <1>1, <1>2 DEF TInv

\* Starts that purge nothing a put is writing leave what is issued alone.
LEMMA SharedInductive ==
  ASSUME SharedInv, QuietStarts, [Next]_vars PROVE SharedInv'
<1> USE DEF SharedInv
<1>1. TInv'
  BY TStep
<1>2. BootPhase' /\ PutPhase' /\ IssuedPhase'
  BY BootStep, PutStep, IssuedStep
<1>3. RemovePhase' /\ IssuedStaysReadable'
  BY RemoveStep, ReadableStep
<1> QED
  BY <1>1, <1>2, <1>3

LEMMA OneIsQuiet ==
  ASSUME OneInstance, TInv, BootPhase PROVE QuietStarts
BY DEF OneInstance, TInv, TypeOK, BootPhase, QuietStarts

LEMMA Inductive ==
  ASSUME OneInstance, IInv, [Next]_vars PROVE IInv'
<1> USE DEF IInv, SharedInv
<1>1. PICK s : Instances = {s}
  BY DEF OneInstance
<1>2. SharedInv'
  BY OneIsQuiet, SharedInductive
<1>3. LeftPhase'
  BY <1>1, LeftStep
<1> QED
  BY <1>2, <1>3

\* The store's state has its type in every reachable state, however many instances share the
\* directory: what is on disk was named by a put, and only issued ids are ever deleted.
THEOREM TypeCorrect == Spec => []TypeOK
<1>1. TInv /\ [Next]_vars => TInv'
  BY TStep
<1>2. TInv => TypeOK
  BY DEF TInv
<1> QED
  BY <1>1, <1>2, InitTInv, PTL DEF Spec

\* One instance on the directory keeps the invariant: ids in flight belong to one put, sidecars
\* are complete when put returns, and what is being removed is expired, deleted or never issued.
THEOREM Invariance == ASSUME OneInstance PROVE Spec => []IInv
<1>1. IInv /\ [Next]_vars => IInv'
  BY Inductive
<1> QED
  BY <1>1, InitIInv, PTL DEF Spec

\* Several instances may share the directory as long as none starts while another is putting: what
\* put returned can then be read until it is doomed.  That is all the run
\* temp_store_shared needs for its counterexample.
THEOREM SharedFilesStay == Spec /\ []QuietStarts => []IssuedStaysReadable
<1>1. SharedInv /\ QuietStarts /\ [Next]_vars => SharedInv'
  BY SharedInductive
<1>2. Init => SharedInv
  BY InitIInv DEF IInv
<1>3. SharedInv => IssuedStaysReadable
  BY DEF SharedInv
<1> QED
  BY <1>1, <1>2, <1>3, PTL DEF Spec

\* A read, wherever it looks, finds what it looks for unless the file is doomed: a caller is
\* told that an id is gone, or gets an error for its bytes (get and read of tempStore.ts), only for
\* a file that has a reason to be gone, or because the file operation itself failed.
ReadsFind ==
  \A p \in Processes :
    \/ at[p] = "getmeta" /\ meta[arg[p]] # "ok"
    \/ at[p] = "read" /\ arg[p] \notin bytes
    => Doomed(arg[p])

THEOREM ReadsMissDoomed == Spec /\ []QuietStarts => []ReadsFind
<1>1. SharedInv /\ QuietStarts /\ [Next]_vars => SharedInv'
  BY SharedInductive
<1>2. Init => SharedInv
  BY InitIInv DEF IInv
<1>3. SharedInv => ReadsFind
  BY DEF SharedInv, IssuedPhase, IssuedStaysReadable, Readable, ReadsFind
<1> QED
  BY <1>1, <1>2, <1>3, PTL DEF Spec

\* What put returned can be read until it is doomed, through the sweeps, the lazy
\* expiry, the failed removals and the crashes in between (put, get, delete and sweep of
\* tempStore.ts), as long as one instance has the directory.
THEOREM IssuedStays == ASSUME OneInstance PROVE Spec => []IssuedStaysReadable
<1>1. IInv => IssuedStaysReadable
  BY DEF IInv, SharedInv
<1> QED
  BY <1>1, Invariance, PTL

\* What the header of tempStore.ts says of restarts: a file inside its window survives them.
SurvivesRestarts == \A id \in issued : life[id] = "expired" \/ id \in deleted \/ Readable(id)

\* It does where every start can read the sidecars it finds: that ensureDir has one catch for a
\* sidecar which is expired and one which cannot be read is all that stands against it.
THEOREM ReadableStartsSpare ==
  ASSUME OneInstance PROVE Spec /\ [](misread = {}) => []SurvivesRestarts
<1>1. IInv /\ misread = {} => SurvivesRestarts
  BY DEF IInv, SharedInv, IssuedStaysReadable, SurvivesRestarts, Doomed
<1> QED
  BY <1>1, Invariance, PTL

\* A booted store has every file of the directory in its index, in the hands of a call or among
\* its failed operations (ensureDir's scan and put, and the sweep that reads the index only).
THEOREM NothingIsForgotten == ASSUME OneInstance PROVE Spec => []NothingForgotten
<1>1. IInv => NothingForgotten
  <2>1. SUFFICES ASSUME IInv, NEW i \in Instances, boot[i] = "ready", NEW id \in Ids, OnDisk(id)
                 PROVE  id \in index[i] \/ Busy(id) \/ id \in faulty[i]
    BY DEF NothingForgotten
  <2>2. scan[i][id] = "none"
    BY <2>1 DEF IInv, SharedInv, BootPhase
  <2> QED
    BY <2>1, <2>2 DEF IInv, LeftPhase
<1> QED
  BY <1>1, Invariance, PTL

-----------------------------------------------------------------------------
(***************************************************************************)
(* Refinement: TempStore implements FileStore.                             *)
(***************************************************************************)
shape == <<disk, history>>
there == {id \in issued : Readable(id)}
doomed == {id \in issued : Doomed(id)}

LEMMA InitRefines == Init => Promise!Init
BY DEF Init, Promise!Init

\* What touches neither the files nor their history does not show.
LEMMA Unseen ==
  ASSUME UNCHANGED shape PROVE UNCHANGED Promise!vars
BY DEF shape, disk, history, Promise!vars, Readable, Doomed

\* A put shows: the file is behind its id, or doomed already.
LEMMA PutShows ==
  ASSUME NEW id \in Ids, id \notin issued, issued \subseteq Ids, issued' = issued \union {id},
         \A x \in Ids : x # id => (Readable(x)' <=> Readable(x)) /\ (Doomed(x)' <=> Doomed(x)),
         Doomed(id)' \/ Readable(id)'
  PROVE  Promise!Next
<1>1. id \notin there /\ id \notin doomed
  BY DEF there, doomed
<1>2. there' \subseteq Ids /\ there \subseteq Ids /\ doomed' \subseteq Ids /\ doomed \subseteq Ids
  BY DEF there, doomed
<1>3. \A x \in Ids : x # id => (x \in there' <=> x \in there) /\ (x \in doomed' <=> x \in doomed)
  BY DEF there, doomed
<1>4. (id \in there' <=> Readable(id)') /\ (id \in doomed' <=> Doomed(id)')
  BY DEF there, doomed
<1>5. CASE Doomed(id)'
  <2>1. doomed' = doomed \union {id}
    BY <1>1, <1>2, <1>3, <1>4, <1>5
  <2>2. there' = there \/ there' = there \union {id}
    <3>1. CASE Readable(id)'
      BY <1>1, <1>2, <1>3, <1>4, <3>1
    <3>2. CASE ~Readable(id)'
      BY <1>1, <1>2, <1>3, <1>4, <3>2
    <3> QED
      BY <3>1, <3>2
  <2> QED
    BY <2>1, <2>2 DEF Promise!Next, Promise!PutLate, there, doomed
<1>6. CASE ~Doomed(id)'
  <2>1. doomed' = doomed /\ there' = there \union {id}
    BY <1>1, <1>2, <1>3, <1>4, <1>6
  <2> QED
    BY <2>1 DEF Promise!Next, Promise!Put, there, doomed
<1> QED
  BY <1>5, <1>6

\* A file that is doomed is issued; what is done to files that are not does not show.
LEMMA DoomShows ==
  ASSUME TypeOK, NEW id \in Ids, UNCHANGED <<disk, issued>>,
         \A x \in Ids : x # id => (Doomed(x)' <=> Doomed(x)),
         Doomed(id) => Doomed(id)'
  PROVE  [Promise!Next]_(Promise!vars)
<1>1. issued \subseteq Ids /\ issued' \subseteq Ids /\ there' = there
  BY DEF TypeOK, disk, there, Readable
<1>2. \A x : x # id => (x \in doomed' <=> x \in doomed)
  BY <1>1 DEF doomed
<1>3. CASE id \in issued /\ Doomed(id)'
  <2>1. doomed' = doomed \union {id}
    BY <1>2, <1>3 DEF doomed
  <2> QED
    BY <1>1, <1>3, <2>1 DEF Promise!Next, Promise!Doom, there, doomed
<1>4. CASE id \notin issued \/ ~Doomed(id)'
  <2>1. doomed' = doomed
    BY <1>2, <1>4 DEF doomed
  <2> QED
    BY <1>1, <2>1 DEF Promise!vars, there, doomed
<1> QED
  BY <1>3, <1>4

\* A file goes only if it is doomed, and what is done to one that is not there does not show.
LEMMA DropShows ==
  ASSUME TypeOK, NEW id \in Ids, UNCHANGED history,
         \A x \in Ids : x # id => (Readable(x)' <=> Readable(x)),
         id \in issued => Doomed(id) /\ ~Readable(id)'
  PROVE  [Promise!Next]_(Promise!vars)
<1>1. issued \subseteq Ids /\ UNCHANGED <<issued, doomed>>
  BY DEF TypeOK, history, doomed, Doomed
<1>2. there' = there \ {id}
  BY <1>1 DEF there
<1>3. CASE id \in issued
  BY <1>1, <1>2, <1>3 DEF Promise!Next, Promise!Drop, there, doomed
<1>4. CASE id \notin issued
  <2>1. there' = there
    BY <1>2, <1>4 DEF there
  <2> QED
    BY <1>1, <2>1 DEF Promise!vars, there, doomed
<1> QED
  BY <1>3, <1>4

\* What a put writes before it returns its id does not show.
LEMMA WritingUnseen ==
  ASSUME SharedInv, NEW p \in Processes, Putting(p), UNCHANGED history,
         \A x \in Ids : x # arg[p] => (Readable(x)' <=> Readable(x))
  PROVE  UNCHANGED Promise!vars
<1>1. arg[p] \notin issued /\ issued \subseteq Ids
  BY DEF SharedInv, PutPhase, TInv, TypeOK
<1>2. UNCHANGED <<issued, doomed>>
  BY DEF history, doomed, Doomed
<1>3. there' = there
  BY <1>1, <1>2 DEF there
<1> QED
  BY <1>2, <1>3 DEF Promise!vars, there, doomed

\* Every step shows as a step of FileStore on one file, or not at all.
LEMMA StepRefines ==
  ASSUME SharedInv, [Next]_vars
  PROVE  [Promise!Next]_(Promise!vars)
<1> USE DEF SharedInv, TInv
<1>1. ASSUME NEW p \in Processes, NEW i \in Instances, BeginPut(p, i)
      PROVE  [Promise!Next]_(Promise!vars)
  BY <1>1, Unseen DEF BeginPut, shape
<1>2. ASSUME NEW p \in Processes, NEW i \in Instances, NEW id \in Ids \union {NoId}, BeginRead(p, i, id)
      PROVE  [Promise!Next]_(Promise!vars)
  BY <1>2, Unseen DEF BeginRead, shape
<1>3. ASSUME NEW p \in Processes, NEW i \in Instances, NEW id \in Ids, BeginDelete(p, i, id)
      PROVE  [Promise!Next]_(Promise!vars)
  BY <1>3, DoomShows DEF BeginDelete, Doomed
<1>4. ASSUME NEW p \in Processes, Refused(p)
      PROVE  [Promise!Next]_(Promise!vars)
  BY <1>4, Unseen DEF Refused, shape
<1>5. ASSUME NEW p \in Processes, NameFile(p)
      PROVE  [Promise!Next]_(Promise!vars)
  <2>1. PICK id \in Ids : life[id] = "unused" /\ life' = [life EXCEPT ![id] = "fresh"]
    BY <1>5 DEF NameFile
  <2> QED
    BY <1>5, <2>1, DoomShows DEF NameFile, TypeOK, Doomed
<1>6. ASSUME NEW p \in Processes, WriteBytes(p)
      PROVE  [Promise!Next]_(Promise!vars)
  BY <1>6, WritingUnseen DEF WriteBytes, Putting, Readable
<1>7. ASSUME NEW p \in Processes, OpenMeta(p)
      PROVE  [Promise!Next]_(Promise!vars)
  BY <1>7, WritingUnseen DEF OpenMeta, TypeOK, Putting, Readable
<1>8. ASSUME NEW p \in Processes, WriteMeta(p)
      PROVE  [Promise!Next]_(Promise!vars)
  <2>1. PICK id \in Ids : id = arg[p]
    BY <1>8 DEF WriteMeta, ArgPhase
  <2>2. /\ id \notin issued /\ issued \subseteq Ids /\ issued' = issued \union {id}
        /\ life[id] \in {"fresh", "expired"} /\ UNCHANGED <<bytes, life, deleted, misread>>
    <3>1. issued' = issued \union {id} /\ UNCHANGED <<bytes, life, deleted, misread>>
      BY <1>8, <2>1 DEF WriteMeta
    <3>2. id \notin issued /\ issued \subseteq Ids
      BY <1>8, <2>1 DEF WriteMeta, TypeOK, PutPhase, Putting
    <3>3. life[id] # "unused"
      BY <1>8, <2>1 DEF WriteMeta, ArgPhase
    <3>4. life[id] \in {"unused", "fresh", "expired"}
      BY DEF TypeOK
    <3> QED
      BY <3>1, <3>2, <3>3, <3>4
  <2>3. \A x \in Ids : x # id => meta'[x] = meta[x]
    BY <1>8, <2>1 DEF WriteMeta, TypeOK
  <2>4. life[id] = "fresh" => id \in bytes /\ meta'[id] = "ok"
    BY <1>8, <2>1 DEF WriteMeta, TypeOK, PutPhase, Putting
  <2>5. \A x \in Ids : x # id => (Readable(x)' <=> Readable(x)) /\ (Doomed(x)' <=> Doomed(x))
    BY <2>2, <2>3 DEF Readable, Doomed
  <2>6. Doomed(id)' \/ Readable(id)'
    BY <2>2, <2>4 DEF Readable, Doomed
  <2> QED
    BY <2>2, <2>5, <2>6, PutShows
<1>9. ASSUME NEW p \in Processes, Lookup(p)
      PROVE  [Promise!Next]_(Promise!vars)
  BY <1>9, Unseen DEF Lookup, shape
<1>10. ASSUME NEW p \in Processes, Miss(p)
      PROVE  [Promise!Next]_(Promise!vars)
  BY <1>10, Unseen DEF Miss, shape
<1>11. ASSUME NEW p \in Processes, ReadMeta(p)
      PROVE  [Promise!Next]_(Promise!vars)
  BY <1>11, Unseen DEF ReadMeta, shape
<1>12. ASSUME NEW p \in Processes, Adopt(p)
      PROVE  [Promise!Next]_(Promise!vars)
  BY <1>12, Unseen DEF Adopt, shape
<1>13. ASSUME NEW p \in Processes, ReadBytes(p)
      PROVE  [Promise!Next]_(Promise!vars)
  BY <1>13, Unseen DEF ReadBytes, shape
<1>14. ASSUME NEW p \in Processes, RemoveBytes(p)
      PROVE  [Promise!Next]_(Promise!vars)
  <2>1. arg[p] \in issued /\ arg[p] \in Ids /\ Doomed(arg[p])
    BY <1>14 DEF RemoveBytes, IssuedPhase, RemovePhase, ArgPhase
  <2> QED
    BY <1>14, <2>1, DropShows DEF RemoveBytes, Readable
<1>15. ASSUME NEW p \in Processes, RemoveMeta(p)
      PROVE  [Promise!Next]_(Promise!vars)
  <2>1. arg[p] \in issued /\ arg[p] \in Ids /\ Doomed(arg[p])
    BY <1>15 DEF RemoveMeta, IssuedPhase, RemovePhase, ArgPhase
  <2> QED
    BY <1>15, <2>1, DropShows DEF RemoveMeta, TypeOK, Readable
<1>16. ASSUME NEW p \in Processes, WriteFails(p)
      PROVE  [Promise!Next]_(Promise!vars)
  BY <1>16, WritingUnseen DEF WriteFails, Putting, Readable
<1>17. ASSUME NEW p \in Processes, RemoveFails(p)
      PROVE  [Promise!Next]_(Promise!vars)
  BY <1>17, Unseen DEF RemoveFails, shape
<1>18. ASSUME NEW i \in Instances, List(i)
      PROVE  [Promise!Next]_(Promise!vars)
  BY <1>18, Unseen DEF List, shape
<1>19. ASSUME NEW i \in Instances, ListFails(i)
      PROVE  [Promise!Next]_(Promise!vars)
  BY <1>19, Unseen DEF ListFails, shape
<1>20. ASSUME NEW i \in Instances, ListUnread(i)
      PROVE  [Promise!Next]_(Promise!vars)
  BY <1>20, Unseen DEF ListUnread, shape
<1>21. ASSUME NEW i \in Instances, Booted(i)
      PROVE  [Promise!Next]_(Promise!vars)
  BY <1>21, Unseen DEF Booted, shape
<1>22. ASSUME NEW i \in Instances, NEW id \in Ids, Check(i, id)
      PROVE  [Promise!Next]_(Promise!vars)
  BY <1>22, Unseen DEF Check, shape
<1>23. ASSUME NEW i \in Instances, NEW id \in Ids, CheckFails(i, id)
      PROVE  [Promise!Next]_(Promise!vars)
  BY <1>23, DoomShows DEF CheckFails, Doomed
<1>24. ASSUME NEW i \in Instances, NEW id \in Ids, PurgeBytes(i, id)
      PROVE  [Promise!Next]_(Promise!vars)
  BY <1>24, DropShows DEF PurgeBytes, RemovePhase, Readable
<1>25. ASSUME NEW i \in Instances, NEW id \in Ids, PurgeMeta(i, id)
      PROVE  [Promise!Next]_(Promise!vars)
  BY <1>25, DropShows DEF PurgeMeta, TypeOK, RemovePhase, Readable
<1>26. ASSUME NEW i \in Instances, NEW id \in Ids, PurgeFails(i, id)
      PROVE  [Promise!Next]_(Promise!vars)
  BY <1>26, Unseen DEF PurgeFails, shape
<1>27. ASSUME NEW i \in Instances, BeginSweep(i)
      PROVE  [Promise!Next]_(Promise!vars)
  BY <1>27, Unseen DEF BeginSweep, shape
<1>28. ASSUME NEW i \in Instances, SweepNext(i)
      PROVE  [Promise!Next]_(Promise!vars)
  BY <1>28, Unseen DEF SweepNext, shape
<1>29. ASSUME NEW i \in Instances, EndSweep(i)
      PROVE  [Promise!Next]_(Promise!vars)
  BY <1>29, Unseen DEF EndSweep, shape
<1>30. ASSUME NEW i \in Instances, Crash(i)
      PROVE  [Promise!Next]_(Promise!vars)
  BY <1>30, Unseen DEF Crash, shape
<1>31. ASSUME NEW id \in Ids, Expire(id)
      PROVE  [Promise!Next]_(Promise!vars)
  BY <1>31, DoomShows DEF Expire, TypeOK, Doomed
<1>32. CASE UNCHANGED vars
  BY <1>32, Unseen DEF vars, shape, disk, history
<1> QED
  BY <1>1, <1>2, <1>3, <1>4, <1>5, <1>6, <1>7, <1>8, <1>9, <1>10, <1>11, <1>12, <1>13, <1>14,
     <1>15, <1>16, <1>17, <1>18, <1>19, <1>20, <1>21, <1>22, <1>23, <1>24, <1>25, <1>26,
     <1>27, <1>28, <1>29, <1>30, <1>31, <1>32
     DEF Next, Begin, Advance, Boot, Sweep, Processes

\* A store with its directory to itself keeps what FileStore promises: put, read, delete, the
\* sweeper and the restarts of tempStore.ts together never take a file that has no reason to go,
\* and never bring one back.
THEOREM Refinement == ASSUME OneInstance PROVE Spec => KeepsThePromise
<1>1. IInv /\ [Next]_vars => [Promise!Next]_(Promise!vars)
  BY StepRefines DEF IInv
<1> QED
  BY <1>1, InitRefines, Invariance, PTL DEF Spec, Promise!Spec, KeepsThePromise

\* So do stores that share a directory, as long as none starts while another is putting.
THEOREM SharedRefinement == Spec /\ []QuietStarts => KeepsThePromise
<1>1. SharedInv /\ QuietStarts /\ [Next]_vars => SharedInv'
  BY SharedInductive
<1>2. SharedInv /\ [Next]_vars => [Promise!Next]_(Promise!vars)
  BY StepRefines
<1>3. Init => SharedInv
  BY InitIInv DEF IInv
<1> QED
  BY <1>1, <1>2, <1>3, InitRefines, PTL DEF Spec, Promise!Spec, KeepsThePromise
=============================================================================
