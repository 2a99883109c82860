------------------------------ MODULE TempStore ------------------------------
(***************************************************************************)
(* createTempStore (file-processing/tempStore.ts): files on disk, each     *)
(* with a sidecar that holds its metadata, and an index in memory that is  *)
(* rebuilt from the sidecars by the first call after a start.              *)
(*                                                                         *)
(* Every await is a place where another call may run, so a put, a read, a  *)
(* delete and the sweeper are each cut at their awaits.  A process may     *)
(* stop at any of them, a file operation may fail, and another store       *)
(* instance may work on the same directory.  Time is abstracted to the     *)
(* moment a file's expiresAt passes.                                       *)
(***************************************************************************)
EXTENDS Naturals, FiniteSets

CONSTANTS
  Instances,   \* store instances that share the directory; also their sweepers
  Callers,     \* concurrent put, read and delete calls
  Ids,         \* the ids randomUUID() will return
  NoId,        \* no id yet, or an id the store never issued
  MaxCrashes,  \* bound: how often processes stop
  MaxFaults    \* bound: files with a failed operation, in the life of a process, and files whose
               \* sidecar a start failed to read, ever

ASSUME TempStoreAssumption ==
  /\ Instances \cap Callers = {}
  /\ NoId \notin Ids
  /\ MaxCrashes \in Nat
  /\ MaxFaults \in Nat

VARIABLES
  bytes,    \* ids whose byte file is on disk
  meta,     \* [Ids -> state of the sidecar on disk]
  life,     \* [Ids -> "unused", "fresh" or "expired"]
  issued,   \* ids a put returned to its caller
  deleted,  \* ids somebody called delete for
  misread,  \* ids whose sidecar a start failed to read
  index,    \* [Instances -> ids in `files`]
  boot,     \* [Instances -> state of the `ready` promise]
  scan,     \* [Instances -> [Ids -> what ensureDir still does about an entry]]
  queue,    \* [Instances -> ids the running sweep still has to remove]
  at,       \* [Processes -> the await a call is at]
  on,       \* [Processes -> the instance it runs on]
  arg,      \* [Processes -> the id it is about]
  crashes,  \* how often a process stopped so far
  faulty    \* [Instances -> ids this process failed to write or to remove]

vars == <<bytes, meta, life, issued, deleted, misread, index, boot, scan, queue, at, on, arg,
          crashes, faulty>>

Processes == Callers \union Instances

Labels == {"idle", "putdir", "putbytes", "putmeta", "putsidecar", "getdir", "getmeta", "adopt",
           "read", "rmbytes", "rmmeta", "sweeping"}

TypeOK ==
  /\ bytes \subseteq Ids
  /\ meta \in [Ids -> {"none", "torn", "ok"}]
  /\ life \in [Ids -> {"unused", "fresh", "expired"}]
  /\ issued \subseteq Ids
  /\ deleted \subseteq issued
  /\ misread \subseteq Ids
  /\ index \in [Instances -> SUBSET Ids]
  /\ boot \in [Instances -> {"off", "scanning", "ready", "broken"}]
  /\ scan \in [Instances -> [Ids -> {"none", "check", "rmbytes", "rmmeta"}]]
  /\ queue \in [Instances -> SUBSET Ids]
  /\ at \in [Processes -> Labels]
  /\ on \in [Processes -> Instances]
  /\ arg \in [Processes -> Ids \union {NoId}]
  /\ crashes \in 0..MaxCrashes
  /\ faulty \in [Instances -> SUBSET Ids]
  /\ \A id \in Ids : id \in bytes \/ meta[id] # "none" => life[id] # "unused"

Init ==
  /\ bytes = {}
  /\ meta = [id \in Ids |-> "none"]
  /\ life = [id \in Ids |-> "unused"]
  /\ issued = {}
  /\ deleted = {}
  /\ misread = {}
  /\ index = [i \in Instances |-> {}]
  /\ boot = [i \in Instances |-> "off"]
  /\ scan = [i \in Instances |-> [id \in Ids |-> "none"]]
  /\ queue = [i \in Instances |-> {}]
  /\ at = [p \in Processes |-> "idle"]
  /\ on \in {f \in [Processes -> Instances] : \A i \in Instances : f[i] = i}
  /\ arg = [p \in Processes |-> NoId]
  /\ crashes = 0
  /\ faulty = [i \in Instances |-> {}]

disk == <<bytes, meta>>
history == <<life, issued, deleted, misread>>
faults == <<crashes, faulty>>
memory == <<index, boot, scan, queue>>

\* Process p moves to an await, about id.
Goto(p, label, id) ==
  /\ at' = [at EXCEPT ![p] = label]
  /\ arg' = [arg EXCEPT ![p] = id]

Return(p) == Goto(p, IF p \in Instances THEN "sweeping" ELSE "idle", NoId)

\* The synchronous head of removeFile: the index forgets the file before the disk does.
Unindex(i, id) == index' = [index EXCEPT ![i] = @ \ {id}]

-----------------------------------------------------------------------------
(* ensureDir: the first put or read after a start lists the directory,      *)
(* adopts what is complete and unexpired, and deletes everything else.      *)

Waits(i) == \E p \in Callers : on[p] = i /\ at[p] \in {"putdir", "getdir"}

\* Slip: a start throws away whatever it does not remember.
ListPurgingAll(i) ==
  /\ boot[i] = "off" /\ Waits(i)
  /\ boot' = [boot EXCEPT ![i] = "scanning"]
  /\ scan' = [scan EXCEPT ![i] =
       [id \in Ids |-> IF id \in bytes \/ meta[id] # "none" THEN "rmbytes" ELSE "none"]]
  /\ UNCHANGED <<disk, history, index, queue, at, on, arg, faults>>

\* Slip: a start looks at complete files only.
ListSkippingOrphans(i) ==
  /\ boot[i] = "off" /\ Waits(i)
  /\ boot' = [boot EXCEPT ![i] = "scanning"]
  /\ scan' = [scan EXCEPT ![i] =
       [id \in Ids |-> IF id \in bytes /\ meta[id] # "none" THEN "check" ELSE "none"]]
  /\ UNCHANGED <<disk, history, index, queue, at, on, arg, faults>>

\* readdir, once: what has no bytes or no sidecar at this instant will be deleted.
List(i) ==
  /\ boot[i] = "off" /\ Waits(i)
  /\ boot' = [boot EXCEPT ![i] = "scanning"]
  /\ scan' = [scan EXCEPT ![i] =
       [id \in Ids |-> CASE id \in bytes /\ meta[id] # "none" -> "check"
                         [] id \notin bytes /\ meta[id] = "none" -> "none"
                         [] OTHER -> "rmbytes"]]
  /\ UNCHANGED <<disk, history, index, queue, at, on, arg, faults>>

\* mkdir rejects; the memoised promise stays rejected for the life of the process.
ListFails(i) ==
  /\ boot[i] = "off" /\ Waits(i)
  /\ boot' = [boot EXCEPT ![i] = "broken"]
  /\ UNCHANGED <<disk, history, index, scan, queue, at, on, arg, faults>>

\* readdir rejects: the directory counts as empty, and what is there is found by a get at most.
ListUnread(i) ==
  /\ boot[i] = "off" /\ Waits(i)
  /\ boot' = [boot EXCEPT ![i] = "scanning"]
  /\ faulty' = [faulty EXCEPT ![i] = @ \union {id \in Ids : id \in bytes \/ meta[id] # "none"}]
  /\ Cardinality(faulty'[i]) <= MaxFaults
  /\ UNCHANGED <<disk, history, index, scan, queue, at, on, arg, crashes>>

\* The failure of a file operation on id is logged, or ends the call; the process goes on.
Fault(i, id) ==
  /\ Cardinality(faulty[i] \union {id}) <= MaxFaults
  /\ faulty' = [faulty EXCEPT ![i] = @ \union {id}]

Scan(i, id, next) == scan' = [scan EXCEPT ![i][id] = next]

\* The sidecar is read: a record inside its window is adopted, anything else goes.
Check(i, id) ==
  /\ scan[i][id] = "check"
  /\ IF meta[id] = "ok" /\ life[id] = "fresh"
     THEN index' = [index EXCEPT ![i] = @ \union {id}] /\ Scan(i, id, "none")
     ELSE UNCHANGED index /\ Scan(i, id, "rmbytes")
  /\ UNCHANGED <<disk, history, boot, queue, at, on, arg, faults>>

\* The sidecar cannot be read (too many open files, say): the one catch takes it for an expired one.
CheckFails(i, id) ==
  /\ scan[i][id] = "check"
  /\ Cardinality(misread \union {id}) <= MaxFaults
  /\ misread' = misread \union {id}
  /\ Scan(i, id, "rmbytes")
  /\ UNCHANGED <<disk, life, issued, deleted, index, boot, queue, at, on, arg, faults>>

PurgeBytes(i, id) ==
  /\ scan[i][id] = "rmbytes"
  /\ bytes' = bytes \ {id}
  /\ Scan(i, id, "rmmeta")
  /\ UNCHANGED <<meta, history, index, boot, queue, at, on, arg, faults>>

PurgeMeta(i, id) ==
  /\ scan[i][id] = "rmmeta"
  /\ meta' = [meta EXCEPT ![id] = "none"]
  /\ Scan(i, id, "none")
  /\ UNCHANGED <<bytes, history, index, boot, queue, at, on, arg, faults>>

\* Both removals swallow their errors.
PurgeFails(i, id) ==
  /\ \/ scan[i][id] = "rmbytes" /\ Scan(i, id, "rmmeta")
     \/ scan[i][id] = "rmmeta" /\ Scan(i, id, "none")
  /\ Fault(i, id)
  /\ UNCHANGED <<disk, history, index, boot, queue, at, on, arg, crashes>>

Booted(i) ==
  /\ boot[i] = "scanning"
  /\ \A id \in Ids : scan[i][id] = "none"
  /\ boot' = [boot EXCEPT ![i] = "ready"]
  /\ UNCHANGED <<disk, history, index, scan, queue, at, on, arg, faults>>

\* ensureDir rejects: the put or read that awaited it throws.
Refused(p) ==
  /\ at[p] \in {"putdir", "getdir"} /\ boot[on[p]] = "broken"
  /\ Return(p)
  /\ UNCHANGED <<disk, history, memory, on, faults>>

-----------------------------------------------------------------------------
(* put: bytes, then sidecar, then index.                                    *)

\* The ids not yet drawn, less the puts that are about to draw one: the bound on puts.
Spare == Cardinality({id \in Ids : life[id] = "unused"})
           - Cardinality({p \in Callers : at[p] = "putdir"})

BeginPut(p, i) ==
  /\ at[p] = "idle" /\ Spare > 0
  /\ Goto(p, "putdir", NoId)
  /\ on' = [on EXCEPT ![p] = i]
  /\ UNCHANGED <<disk, history, memory, faults>>

\* Slip: the record gets no expiresAt.
NameFileForever(p) ==
  /\ at[p] = "putdir" /\ boot[on[p]] = "ready"
  /\ \E id \in Ids : life[id] = "unused" /\ Goto(p, "putbytes", id)
  /\ UNCHANGED <<disk, history, memory, on, faults>>

\* A fresh id, and expiresAt counted from now.
NameFile(p) ==
  /\ at[p] = "putdir" /\ boot[on[p]] = "ready"
  /\ \E id \in Ids :
       /\ life[id] = "unused"
       /\ life' = [life EXCEPT ![id] = "fresh"]
       /\ Goto(p, "putbytes", id)
  /\ UNCHANGED <<disk, issued, deleted, misread, memory, on, faults>>

WriteBytes(p) ==
  /\ at[p] = "putbytes"
  /\ bytes' = bytes \union {arg[p]}
  /\ Goto(p, "putmeta", arg[p])
  /\ UNCHANGED <<meta, history, memory, on, faults>>

\* writeFile creates the sidecar, empty, before it fills it.
OpenMeta(p) ==
  /\ at[p] = "putmeta"
  /\ meta' = [meta EXCEPT ![arg[p]] = "torn"]
  /\ Goto(p, "putsidecar", arg[p])
  /\ UNCHANGED <<bytes, history, memory, on, faults>>

\* Slip: put returns its record without indexing it.
WriteMetaUnindexed(p) ==
  /\ at[p] = "putsidecar"
  /\ meta' = [meta EXCEPT ![arg[p]] = IF @ = "torn" THEN "ok" ELSE @]
  /\ issued' = issued \union {arg[p]}
  /\ Return(p)
  /\ UNCHANGED <<bytes, life, deleted, misread, memory, on, faults>>

\* A sidecar unlinked meanwhile stays unlinked; put indexes the file and returns its record.
WriteMeta(p) ==
  /\ at[p] = "putsidecar"
  /\ meta' = [meta EXCEPT ![arg[p]] = IF @ = "torn" THEN "ok" ELSE @]
  /\ index' = [index EXCEPT ![on[p]] = @ \union {arg[p]}]
  /\ issued' = issued \union {arg[p]}
  /\ Return(p)
  /\ UNCHANGED <<bytes, life, deleted, misread, boot, scan, queue, on, faults>>

\* A write rejects (a full disk, say) and put throws, leaving what was written so far.
WriteFails(p) ==
  /\ \/ at[p] = "putbytes" /\ bytes' \in {bytes, bytes \union {arg[p]}}
     \/ at[p] \in {"putmeta", "putsidecar"} /\ UNCHANGED bytes
  /\ Fault(on[p], arg[p])
  /\ Return(p)
  /\ UNCHANGED <<meta, history, memory, on, crashes>>

-----------------------------------------------------------------------------
(* read (get, then the bytes) and delete.  Callers name an issued id, or    *)
(* one that was never issued (NoId), which matches no file.                 *)

BeginRead(p, i, id) ==
  /\ at[p] = "idle" /\ id \in issued \union {NoId}
  /\ Goto(p, "getdir", id)
  /\ on' = [on EXCEPT ![p] = i]
  /\ UNCHANGED <<disk, history, memory, faults>>

\* get found a record: it is served, or removed when its window has closed.
Judge(p, id) ==
  IF life[id] = "expired"
  THEN Unindex(on[p], id) /\ Goto(p, "rmbytes", id)
  ELSE index' = [index EXCEPT ![on[p]] = @ \union {id}] /\ Goto(p, "read", id)

Lookup(p) ==
  /\ at[p] = "getdir" /\ boot[on[p]] = "ready" /\ arg[p] # NoId
  /\ IF arg[p] \in index[on[p]]
     THEN Judge(p, arg[p])
     ELSE UNCHANGED index /\ Goto(p, "getmeta", arg[p])
  /\ UNCHANGED <<disk, history, boot, scan, queue, on, faults>>

Miss(p) ==
  /\ at[p] = "getdir" /\ boot[on[p]] = "ready" /\ arg[p] = NoId
  /\ Return(p)
  /\ UNCHANGED <<disk, history, memory, on, faults>>

\* Not in the index: the sidecar decides, if it can be read, and a record found there is adopted
\* later on.
ReadMeta(p) ==
  /\ at[p] = "getmeta"
  /\ \/ meta[arg[p]] = "ok" /\ Goto(p, "adopt", arg[p])
     \/ Return(p)
  /\ UNCHANGED <<disk, history, memory, on, faults>>

Adopt(p) ==
  /\ at[p] = "adopt"
  /\ Judge(p, arg[p])
  /\ UNCHANGED <<disk, history, boot, scan, queue, on, faults>>

\* Bytes or an error: either way the call is over.
ReadBytes(p) ==
  /\ at[p] = "read"
  /\ Return(p)
  /\ UNCHANGED <<disk, history, memory, on, faults>>

\* delete does not wait for ensureDir.
BeginDelete(p, i, id) ==
  /\ at[p] = "idle" /\ id \in issued
  /\ deleted' = deleted \union {id}
  /\ Unindex(i, id)
  /\ Goto(p, "rmbytes", id)
  /\ on' = [on EXCEPT ![p] = i]
  /\ UNCHANGED <<disk, life, issued, misread, boot, scan, queue, faults>>

RemoveBytes(p) ==
  /\ at[p] = "rmbytes"
  /\ bytes' = bytes \ {arg[p]}
  /\ Goto(p, "rmmeta", arg[p])
  /\ UNCHANGED <<meta, history, memory, on, faults>>

RemoveMeta(p) ==
  /\ at[p] = "rmmeta"
  /\ meta' = [meta EXCEPT ![arg[p]] = "none"]
  /\ Return(p)
  /\ UNCHANGED <<bytes, history, memory, on, faults>>

\* An unlink rejects: removeFile logs it and carries on.
RemoveFails(p) ==
  /\ \/ at[p] = "rmbytes" /\ Goto(p, "rmmeta", arg[p])
     \/ at[p] = "rmmeta" /\ Return(p)
  /\ Fault(on[p], arg[p])
  /\ UNCHANGED <<disk, history, memory, on, crashes>>

-----------------------------------------------------------------------------
(* The sweeper of an instance, which looks at the index only.               *)

Expired(i) == {id \in index[i] : life[id] = "expired"}

BeginSweep(i) ==
  /\ at[i] = "idle" /\ Expired(i) # {}
  /\ queue' = [queue EXCEPT ![i] = Expired(i)]
  /\ Goto(i, "sweeping", NoId)
  /\ UNCHANGED <<disk, history, index, boot, scan, on, faults>>

SweepNext(i) ==
  /\ at[i] = "sweeping"
  /\ \E id \in queue[i] :
       /\ queue' = [queue EXCEPT ![i] = @ \ {id}]
       /\ Unindex(i, id)
       /\ Goto(i, "rmbytes", id)
  /\ UNCHANGED <<disk, history, boot, scan, on, faults>>

EndSweep(i) ==
  /\ at[i] = "sweeping" /\ queue[i] = {}
  /\ Goto(i, "idle", NoId)
  /\ UNCHANGED <<disk, history, memory, on, faults>>

-----------------------------------------------------------------------------
(* The environment: time, and a process that stops.                         *)

\* A window closes only some time after the put that opened it.
Expire(id) ==
  /\ life[id] = "fresh"
  /\ life' = [life EXCEPT ![id] = "expired"]
  /\ UNCHANGED <<disk, issued, deleted, misread, memory, at, on, arg, faults>>

\* The next process starts with an empty index and does nothing until it is called.
Crash(i) ==
  /\ boot[i] # "off" /\ crashes < MaxCrashes
  /\ crashes' = crashes + 1
  /\ faulty' = [faulty EXCEPT ![i] = {}]
  /\ index' = [index EXCEPT ![i] = {}]
  /\ boot' = [boot EXCEPT ![i] = "off"]
  /\ scan' = [scan EXCEPT ![i] = [id \in Ids |-> "none"]]
  /\ queue' = [queue EXCEPT ![i] = {}]
  /\ at' = [p \in Processes |-> IF on[p] = i THEN "idle" ELSE at[p]]
  /\ arg' = [p \in Processes |-> IF on[p] = i THEN NoId ELSE arg[p]]
  /\ UNCHANGED <<disk, history, on>>

-----------------------------------------------------------------------------
Boot(i) ==
  \/ List(i) \/ ListFails(i) \/ ListUnread(i) \/ Booted(i)
  \/ \E id \in Ids : \/ Check(i, id) \/ CheckFails(i, id)
                     \/ PurgeBytes(i, id) \/ PurgeMeta(i, id) \/ PurgeFails(i, id)

Begin(p) ==
  \E i \in Instances :
    \/ BeginPut(p, i)
    \/ \E id \in Ids \union {NoId} : BeginRead(p, i, id)
    \/ \E id \in Ids : BeginDelete(p, i, id)

\* What a call or a sweep does once it has begun.
Advance(p) ==
  \/ Refused(p) \/ NameFile(p) \/ WriteBytes(p) \/ OpenMeta(p) \/ WriteMeta(p) \/ Lookup(p)
  \/ Miss(p) \/ ReadMeta(p) \/ Adopt(p) \/ ReadBytes(p) \/ RemoveBytes(p) \/ RemoveMeta(p)
  \/ WriteFails(p) \/ RemoveFails(p)

Sweep(i) == BeginSweep(i) \/ SweepNext(i) \/ EndSweep(i)

Next ==
  \/ \E p \in Callers : Begin(p)
  \/ \E p \in Processes : Advance(p)
  \/ \E i \in Instances : Boot(i) \/ Sweep(i) \/ Crash(i)
  \/ \E id \in Ids : Expire(id)

Spec == Init /\ [][Next]_vars

\* File operations complete and the interval of the sweeper fires: that is all.  Calls need not
\* come, and time passes but need not reach any expiry.
Fairness ==
  /\ \A p \in Processes : WF_vars(Advance(p))
  /\ \A i \in Instances : WF_vars(Boot(i)) /\ WF_vars(Sweep(i))

FairSpec == Spec /\ Fairness

-----------------------------------------------------------------------------
(* Properties.                                                              *)

Readable(id) == id \in bytes /\ meta[id] = "ok"

\* Why the store may take a file away.
Doomed(id) == life[id] = "expired" \/ id \in deleted \union misread

\* A file put returned can be read, bytes and sidecar, until its window closes, somebody deletes
\* it or a start cannot read its sidecar: no other call, sweep, crash or restart takes it away.
IssuedStaysReadable == \A id \in issued : Doomed(id) \/ Readable(id)

\* The calls that are writing or removing a file.
Busy(id) == \E p \in Processes : arg[p] = id /\ at[p] \in {"putmeta", "putsidecar", "rmbytes", "rmmeta"}

OnDisk(id) == id \in bytes \/ meta[id] # "none"

\* Once an instance has booted, whatever is on disk is in its index, in the hands of a call, or
\* left by a file operation that failed in this very process: the sweeper, which reads the index
\* only, forgets nothing else, and a restart makes good what failures and crashes left.
NothingForgotten ==
  \A i \in Instances : boot[i] = "ready" =>
    \A id \in Ids : OnDisk(id) => id \in index[i] \/ Busy(id) \/ id \in faulty[i]

\* An expired file leaves the disk, whatever crash interrupted its put or its removal, as long
\* as a process with a working store is up and no operation on the file failed in it.
ExpiredFilesGo ==
  \A id \in Ids : life[id] = "expired" ~>
    ~OnDisk(id) \/ \E i \in Instances : boot[i] \in {"off", "broken"} \/ id \in faulty[i]

Promise == INSTANCE FileStore WITH
  used   <- issued,
  files  <- {id \in issued : Readable(id)},
  doomed <- {id \in issued : Doomed(id)}

\* The store implements what FileStore promises: a file is there when put returns, is removed for
\* a reason only, and never comes back, whatever a removal, a read and a restart do in between.
KeepsThePromise == Promise!Spec
=============================================================================
