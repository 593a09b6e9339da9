-------------------------------- MODULE Store --------------------------------
(***************************************************************************)
(* The persistent key/value store (src/internal/eval/store.go): one data   *)
(* file, the processes that open it, and the strands that use the handle.  *)
(*                                                                         *)
(* A session (a process) opens the file under an exclusive lock on a       *)
(* sidecar file and keeps the map in memory; every mutation rewrites the   *)
(* whole file.  The rewrite is one step here, which succeeds or fails:     *)
(* StoreFiles shows why it may be.  The mutex of the handle makes each     *)
(* step below atomic; the callbacks of store_update and with_store run     *)
(* outside it, so each of these calls is several steps.                    *)
(*                                                                         *)
(* A call that is refused (the store is closed, or busy in another         *)
(* transaction, or re-entered) changes nothing and is no step.             *)
(***************************************************************************)
EXTENDS Naturals, Sequences

CONSTANTS
  Sessions,   (* the processes that use the file                          *)
  Strands,    (* their strands                                            *)
  SessionOf,  (* SessionOf[s]: the session strand s belongs to            *)
  Keys, Vals,
  Absent,     (* the value of a key the map does not hold                 *)
  Transforms, (* the functions given to store_update; fn[Absent] is fn of *)
              (* the default                                              *)
  MaxRetries, (* maxStoreUpdateRetries                                    *)
  None

ASSUME StoreAssumption ==
  /\ SessionOf \in [Strands -> Sessions]
  /\ Absent \notin Vals
  /\ Transforms \subseteq [Vals \cup {Absent} -> Vals]
  /\ MaxRetries \in Nat
  /\ None \notin Sessions \cup Strands
  /\ None \notin [Keys -> Vals \cup {Absent}] \cup [key : Keys, fn : Transforms]

VARIABLES
  disk,    (* the map the data file holds                                 *)
  lock,    (* the session that holds the lock file                        *)
  open,    (* sessions with a live handle                                 *)
  data,    (* data[p]: the handle's map                                   *)
  owner,   (* owner[p]: the strand with an open with_store batch          *)
  snap,    (* snap[p]: the map that batch returns to if it fails          *)
  updates, (* strands with an active store_update                         *)
  stale,   (* those whose observed version is not the current one         *)
  job      (* job[s]: the update s is executing                           *)

vars == <<disk, lock, open, data, owner, snap, updates, stale, job>>

-----------------------------------------------------------------------------
(* Insertion-ordered maps (OrderedMap in src/internal/value/map.go). *)

Contents == [Keys -> Vals \cup {Absent}]
OrderedMaps == [val : Contents, order : Seq(Keys)]
EmptyMap == [val |-> [k \in Keys |-> Absent], order |-> <<>>]

Has(m, k) == m.val[k] # Absent

Put(m, k, v) ==
  [val |-> [m.val EXCEPT ![k] = v],
   order |-> IF Has(m, k) THEN m.order ELSE Append(m.order, k)]

Position(m, k) == CHOOSE i \in 1..Len(m.order) : m.order[i] = k

(* Of a key the map holds. *)
Remove(m, k) ==
  [val |-> [m.val EXCEPT ![k] = Absent],
   order |-> SubSeq(m.order, 1, Position(m, k) - 1)
               \o SubSeq(m.order, Position(m, k) + 1, Len(m.order))]

NoJob == [key |-> None, fn |-> None, base |-> None, conflicts |-> 0]
Jobs == [key : Keys, fn : Transforms, base : Vals \cup {Absent}, conflicts : Nat]

TypeOK ==
  /\ disk \in OrderedMaps
  /\ lock \in Sessions \cup {None}
  /\ open \subseteq Sessions
  /\ data \in [Sessions -> OrderedMaps]
  /\ owner \in [Sessions -> Strands \cup {None}]
  /\ snap \in [Sessions -> OrderedMaps]
  /\ updates \subseteq Strands /\ stale \subseteq updates
  /\ job \in [Strands -> Jobs \cup {NoJob}]
  /\ \A s \in updates : job[s] \in Jobs

Init ==
  /\ disk = EmptyMap
  /\ lock = None /\ open = {}
  /\ data = [p \in Sessions |-> EmptyMap]
  /\ owner = [p \in Sessions |-> None]
  /\ snap = [p \in Sessions |-> EmptyMap]
  /\ updates = {} /\ stale = {}
  /\ job = [s \in Strands |-> NoJob]

-----------------------------------------------------------------------------
(* The life of a handle. *)

Of(p) == {s \in Strands : SessionOf[s] = p}

(* store(path): a second open in one session returns the same handle. *)
Open(p) ==
  /\ p \notin open /\ lock = None
  /\ lock' = p
  /\ open' = open \cup {p}
  /\ data' = [data EXCEPT ![p] = disk]
  /\ UNCHANGED <<disk, owner, snap, updates, stale, job>>

(* store_close is refused inside a batch or an update. *)
Close(p) ==
  /\ p \in open /\ owner[p] = None /\ updates \cap Of(p) = {}
  /\ open' = open \ {p}
  /\ lock' = None
  /\ data' = [data EXCEPT ![p] = EmptyMap]
  /\ UNCHANGED <<disk, owner, snap, updates, stale, job>>

(* The process dies: the system drops its lock, the rest was in memory. *)
Crash(p) ==
  /\ p \in open
  /\ open' = open \ {p}
  /\ lock' = None
  /\ data' = [data EXCEPT ![p] = EmptyMap]
  /\ owner' = [owner EXCEPT ![p] = None]
  /\ snap' = [snap EXCEPT ![p] = EmptyMap]
  /\ updates' = updates \ Of(p) /\ stale' = stale \ Of(p)
  /\ job' = [s \in Strands |-> IF s \in Of(p) THEN NoJob ELSE job[s]]
  /\ UNCHANGED disk

-----------------------------------------------------------------------------
(* checkAccessLocked: the owner of a batch, or, without a batch, a strand  *)
(* that is not itself in an update callback.                               *)
MayAccess(s) ==
  LET p == SessionOf[s]
  IN  p \in open /\ (IF owner[p] = None THEN s \notin updates ELSE owner[p] = s)

(* flushLocked succeeded: m is durable and the version is new. *)
Flushed(p, m) ==
  /\ disk' = m
  /\ data' = [data EXCEPT ![p] = m]

(* The updates of p whose observed version the new one outdates. *)
Outdated(p) == stale \cup (updates \cap Of(p))

(* The map of s's session becomes new: in memory only inside a batch, else *)
(* durably; when the flush fails the handle falls back to old.             *)
Mutate(s, new, old) ==
  LET p == SessionOf[s]
  IN  /\ MayAccess(s)
      /\ \/ /\ owner[p] = s
            /\ data' = [data EXCEPT ![p] = new]
            /\ UNCHANGED <<disk, stale>>
         \/ /\ owner[p] = None
            /\ Flushed(p, new)
            /\ stale' = Outdated(p)
         \/ /\ owner[p] = None
            /\ data' = [data EXCEPT ![p] = old]
            /\ UNCHANGED <<disk, stale>>
      /\ UNCHANGED <<lock, open, owner, snap, updates, job>>

(* The rollback of a failed set. *)
Unset(m, k, v) == IF Has(m, k) THEN Put(Put(m, k, v), k, m.val[k]) ELSE Remove(Put(m, k, v), k)

Set(s, k, v) ==
  LET m == data[SessionOf[s]]
  IN  Mutate(s, Put(m, k, v), Unset(m, k, v))

(* The rollback of a failed delete puts the key at the end. *)
Delete(s, k) ==
  LET m == data[SessionOf[s]]
  IN  Has(m, k) /\ Mutate(s, Remove(m, k), Put(Remove(m, k), k, m.val[k]))

Clear(s) == Mutate(s, EmptyMap, data[SessionOf[s]])

-----------------------------------------------------------------------------
(* store_update: the callback runs on a copy, outside the mutex. *)

UpdateBegin(s, k, f) ==
  LET p == SessionOf[s]
  IN  /\ p \in open /\ owner[p] = None /\ s \notin updates
      /\ updates' = updates \cup {s}
      /\ job' = [job EXCEPT ![s] = [key |-> k, fn |-> f, base |-> data[p].val[k], conflicts |-> 0]]
      /\ UNCHANGED <<disk, lock, open, data, owner, snap, stale>>

EndUpdate(s) ==
  /\ updates' = updates \ {s}
  /\ job' = [job EXCEPT ![s] = NoJob]
  /\ UNCHANGED <<lock, open, owner, snap>>

Result(s) == job[s].fn[job[s].base]

(* A slip: the version is not compared before the value is written. *)
UpdateCommit_Blind(s) ==
  LET p == SessionOf[s]
  IN  /\ s \in updates
      /\ Flushed(p, Put(data[p], job[s].key, Result(s)))
      /\ stale' = Outdated(p) \ {s}
      /\ EndUpdate(s)

(* The version is the one the callback observed. *)
UpdateCommit(s) ==
  LET p == SessionOf[s]
  IN  /\ s \in updates \ stale
      /\ Flushed(p, Put(data[p], job[s].key, Result(s)))
      /\ stale' = Outdated(p) \ {s}
      /\ EndUpdate(s)

(* The same, and the flush fails. *)
UpdateUndone(s) ==
  LET p == SessionOf[s]
  IN  /\ s \in updates \ stale
      /\ data' = [data EXCEPT ![p] = Unset(@, job[s].key, Result(s))]
      /\ EndUpdate(s)
      /\ UNCHANGED <<disk, stale>>

(* A slip: the conflicts are not counted. *)
UpdateRetry_Forever(s) ==
  LET p == SessionOf[s]
  IN  /\ s \in stale
      /\ stale' = stale \ {s}
      /\ job' = [job EXCEPT ![s].base = data[p].val[job[s].key]]
      /\ UNCHANGED <<disk, lock, open, data, owner, snap, updates>>

(* Another mutation came first: the callback runs again on the new value. *)
UpdateRetry(s) ==
  LET p == SessionOf[s]
  IN  /\ s \in stale /\ job[s].conflicts + 1 < MaxRetries
      /\ stale' = stale \ {s}
      /\ job' = [job EXCEPT ![s] = [key |-> @.key, fn |-> @.fn, base |-> data[p].val[@.key],
                                    conflicts |-> @.conflicts + 1]]
      /\ UNCHANGED <<disk, lock, open, data, owner, snap, updates>>

UpdateBusy(s) ==
  /\ s \in stale /\ job[s].conflicts + 1 >= MaxRetries
  /\ stale' = stale \ {s}
  /\ EndUpdate(s)
  /\ UNCHANGED <<disk, data>>

(* The callback fails, exits, panics, or returns what cannot be stored. *)
UpdateAbort(s) ==
  /\ s \in updates
  /\ stale' = stale \ {s}
  /\ EndUpdate(s)
  /\ UNCHANGED <<disk, data>>

-----------------------------------------------------------------------------
(* with_store: the batch of one strand, between its two critical sections. *)

(* A slip: a batch starts although an update is in progress. *)
BatchBegin_Beside(s) ==
  LET p == SessionOf[s]
  IN  /\ p \in open /\ owner[p] = None
      /\ owner' = [owner EXCEPT ![p] = s]
      /\ snap' = [snap EXCEPT ![p] = data[p]]
      /\ UNCHANGED <<disk, lock, open, data, updates, stale, job>>

BatchBegin(s) ==
  LET p == SessionOf[s]
  IN  /\ p \in open /\ owner[p] = None /\ updates \cap Of(p) = {}
      /\ owner' = [owner EXCEPT ![p] = s]
      /\ snap' = [snap EXCEPT ![p] = data[p]]
      /\ UNCHANGED <<disk, lock, open, data, updates, stale, job>>

EndBatch(s) ==
  LET p == SessionOf[s]
  IN  /\ p \in open /\ owner[p] = s
      /\ owner' = [owner EXCEPT ![p] = None]
      /\ snap' = [snap EXCEPT ![p] = EmptyMap]
      /\ UNCHANGED <<lock, open, updates, job>>

BatchCommit(s) ==
  LET p == SessionOf[s]
  IN  /\ EndBatch(s)
      /\ Flushed(p, data[p])
      /\ stale' = Outdated(p)

(* A slip: the batch ends without going back to the snapshot. *)
BatchUndone_Kept(s) ==
  EndBatch(s) /\ UNCHANGED <<disk, data, stale>>

(* The callback or the flush fails. *)
BatchUndone(s) ==
  LET p == SessionOf[s]
  IN  /\ EndBatch(s)
      /\ data' = [data EXCEPT ![p] = snap[p]]
      /\ UNCHANGED <<disk, stale>>

-----------------------------------------------------------------------------
PlainStep(s) ==
  \/ \E k \in Keys : Delete(s, k) \/ \E v \in Vals : Set(s, k, v)
  \/ Clear(s)

UpdateStep(s) ==
  UpdateCommit(s) \/ UpdateUndone(s) \/ UpdateRetry(s) \/ UpdateBusy(s) \/ UpdateAbort(s)

BatchStep(s) == BatchBegin(s) \/ BatchCommit(s) \/ BatchUndone(s)

Next ==
  \/ \E p \in Sessions : Open(p) \/ Close(p) \/ Crash(p)
  \/ \E s \in Strands :
       \/ PlainStep(s) \/ UpdateStep(s) \/ BatchStep(s)
       \/ \E k \in Keys, f \in Transforms : UpdateBegin(s, k, f)

Spec == Init /\ [][Next]_vars

(* A callback returns, and the goroutine that runs it goes on. *)
Fairness == \A s \in Strands : WF_vars(UpdateStep(s))
FairSpec == Spec /\ Fairness
-----------------------------------------------------------------------------
(* Properties.                                                             *)

(* Outside a batch the handle's map is what the file holds, whatever wrote *)
(* or failed to write; inside one, that is the map the batch falls back    *)
(* to.  (The order of the keys may differ: see Delete.)                    *)
MemoryIsDisk ==
  \A p \in open : disk.val = IF owner[p] = None THEN data[p].val ELSE snap[p].val

(* Each key the map holds is listed exactly once, in memory and on disk:   *)
(* no sequence of sets, deletes, rollbacks and reloads loses or doubles a  *)
(* key (keys and vals of OrderedMap).                                      *)
Listed(m) ==
  /\ \A i, j \in 1..Len(m.order) : m.order[i] = m.order[j] => i = j
  /\ \A k \in Keys : Has(m, k) <=> \E i \in 1..Len(m.order) : m.order[i] = k

KeysListed == Listed(disk) /\ \A p \in Sessions : Listed(data[p]) /\ Listed(snap[p])

(* One process writes the file at a time; a batch and an update callback   *)
(* of another strand are never open together, and neither outlives the     *)
(* handle it started on.                                                   *)
Exclusive ==
  /\ \A p \in open : lock = p
  /\ \A p \in Sessions : owner[p] # None =>
       p \in open /\ SessionOf[owner[p]] = p /\ updates \cap Of(p) = {}
  /\ \A s \in updates : SessionOf[s] \in open

(* A callback whose observed version is current computes from the value    *)
(* the file holds (the base copied before the mutex was released).         *)
FreshBase ==
  \A s \in updates \ stale : job[s].base = disk.val[job[s].key]

(* An update ends: conflicts are counted, whatever the others write.       *)
UpdateEnds == \A s \in Strands : []<>(s \notin updates)

(* The store implements its promise AbsStore: no lost update, no half of a *)
(* batch, no effect of a call that failed, across processes and crashes.   *)
Promise == INSTANCE AbsStore WITH
  committed <- disk.val,
  draft <- IF lock # None /\ owner[lock] # None THEN data[lock].val ELSE None,
  pending <- [s \in Strands |->
                IF s \in updates THEN [key |-> job[s].key, fn |-> job[s].fn] ELSE None]

ImplementsStore == Promise!Spec

(* The inductive invariant behind these: each relies on the others. *)
IInv == TypeOK /\ KeysListed /\ MemoryIsDisk /\ Exclusive /\ FreshBase
=============================================================================
