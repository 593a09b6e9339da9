----------------------------- MODULE ServeProofs -----------------------------
(* Proofs about Serve, for any number of requests, of any kinds, and any     *)
(* limits of the watcher: that no update is lost and profiles go, and that   *)
(* handlers are counted exactly, never stuck and done in finitely many steps. *)
EXTENDS Serve, FiniteSetTheorems, TLAPS

Inside == {"called", "awaiting", "suspended", "evaluating", "updating", "leaving"}

Types ==
  /\ script \in [Requests -> Kinds]
  /\ request \in [Requests -> {"new", "arrived", "locking", "answered"} \cup Inside]
  /\ mu \in Requests \cup {Nobody}
  /\ cell \in Nat /\ seen \in [Requests -> Nat]

\* One handler at a time holds the lock, from before it reads until it has left;
\* what it read is still there when it writes; and what was updated is counted.
Serialized ==
  /\ \A r \in Requests : request[r] \in Inside => mu = r
  /\ \A r \in Requests : request[r] = "updating" => seen[r] = cell

\* A request that is no good, or whose handler takes no argument, is not evaluated.
Evaluated ==
  /\ \A r \in Requests : request[r] \in {"locking"} \cup Inside => script[r] # "badRequest"
  /\ \A r \in Requests :
       request[r] \in {"awaiting", "suspended", "evaluating", "updating"} => script[r] # "arity"

\* The watcher looks for the profile once the browser is gone, and counts.  Once
\* it was absent for longer than helpers linger, nobody makes it again.
Watched ==
  /\ absent \in 0..Stable /\ checks \in 0..MaxChecks /\ profile \in BOOLEAN
  /\ browser \notin {"closed", "failed", "shutdown"} => absent = 0
  /\ absent > 0 /\ absent >= Linger => ~profile
  /\ caller # "serving" => browser = "shutdown"
  /\ browser = "shutdown" => Cleaned

Updated == {r \in Requests : Updates(r)}

HandlersInv == Types /\ Serialized /\ Evaluated /\ NoLostUpdate

-----------------------------------------------------------------------------
(* The handlers.                                                             *)

LEMMA UpdatedFinite == IsFiniteSet(Updated) /\ Cardinality(Updated) \in Nat
<1>1. Updated \subseteq Requests
  BY DEF Updated
<1> QED
  BY <1>1, FS_Subset, FS_CardinalityType, ServeAssumption

\* A step of one request that does not change what was updated.
LEMMA OtherSteps ==
  ASSUME HandlersInv, NEW r \in Requests,
         Arrive(r) \/ Parse(r) \/ Lock(r) \/ Enter(r) \/ Await(r) \/ Awaited(r) \/ Read(r) \/ Unlock(r)
  PROVE  HandlersInv'
<1>1. UNCHANGED <<script, cell>> /\ request' = [request EXCEPT ![r] = request'[r]]
  BY DEF Arrive, Parse, Lock, Enter, Await, Awaited, Read, Unlock, Go, HandlersInv, Types
<1>2. Types'
  BY <1>1 DEF Arrive, Parse, Lock, Enter, Await, Awaited, Read, Unlock, Go, HandlersInv, Types, Inside, watching
<1>3. Serialized'
  <2>1. CASE Arrive(r) \/ Parse(r) \/ Enter(r) \/ Await(r) \/ Awaited(r)
    BY <2>1 DEF Arrive, Parse, Enter, Await, Awaited, Go, HandlersInv, Types, Serialized, Inside
  <2>2. CASE Lock(r)
    BY <2>2, ServeAssumption DEF Lock, Go, HandlersInv, Types, Serialized, Inside
  <2>3. CASE Read(r)
    BY <2>3 DEF Read, Go, HandlersInv, Types, Serialized, Inside
  <2>4. CASE Unlock(r)
    BY <2>4 DEF Unlock, Go, HandlersInv, Types, Serialized, Inside
  <2> QED
    BY <2>1, <2>2, <2>3, <2>4
<1>4. Evaluated'
  BY <1>1 DEF Arrive, Parse, Lock, Enter, Await, Awaited, Read, Unlock, Go, HandlersInv, Types, Evaluated, Inside
<1>5. Updated' = Updated
  <2> SUFFICES ASSUME NEW q \in Requests PROVE Updates(q)' <=> Updates(q)
    BY DEF Updated
  <2>1. CASE q # r
    BY <1>1, <2>1 DEF Updates, HandlersInv, Types
  <2>2. CASE q = r
    BY <1>1, <2>2 DEF Updates, Arrive, Parse, Lock, Enter, Await, Awaited, Read, Unlock, Go, HandlersInv, Types
  <2> QED
    BY <2>1, <2>2
<1>6. NoLostUpdate'
  BY <1>1, <1>5 DEF HandlersInv, NoLostUpdate, Updated
<1> QED
  BY <1>2, <1>3, <1>4, <1>6 DEF HandlersInv

\* The write: the handler is alone, so that it adds to what it read.
LEMMA WriteStep ==
  ASSUME HandlersInv, NEW r \in Requests, Write(r)
  PROVE  HandlersInv'
<1>1. /\ request[r] = "updating" /\ request' = [request EXCEPT ![r] = "leaving"]
      /\ cell' = (IF script[r] = "panic" THEN cell ELSE seen[r] + 1) /\ UNCHANGED <<script, mu, seen>>
  BY DEF Write, Go
<1>2. seen[r] = cell /\ cell \in Nat /\ mu = r /\ \A q \in Requests : request[q] \in Inside => q = r
  BY <1>1 DEF HandlersInv, Types, Serialized, Inside
<1>3. Types'
  BY <1>1, <1>2 DEF HandlersInv, Types, Inside
<1>4. Serialized'
  BY <1>1, <1>2 DEF HandlersInv, Types, Serialized, Inside
<1>5. Evaluated'
  BY <1>1 DEF HandlersInv, Types, Evaluated, Inside
<1>6. \A q \in Requests \ {r} : Updates(q)' <=> Updates(q)
  BY <1>1 DEF Updates, HandlersInv, Types
<1>7. ~Updates(r) /\ r \notin Updated
  BY <1>1 DEF Updates, Updated
<1>8. CASE script[r] = "panic"
  <2>1. ~Updates(r)'
    BY <1>1, <1>8 DEF Updates
  <2>2. Updated' = Updated
    BY <1>6, <1>7, <2>1 DEF Updated
  <2> QED
    BY <1>1, <1>3, <1>4, <1>5, <1>8, <2>2 DEF HandlersInv, NoLostUpdate, Updated
<1>9. CASE script[r] # "panic"
  <2>1. script[r] \in {"update", "wake", "await"}
    BY <1>1, <1>9 DEF HandlersInv, Types, Kinds, Evaluated, Inside
  <2>2. Updates(r)'
    BY <1>1, <2>1 DEF Updates, HandlersInv, Types
  <2>3. Updated' = Updated \cup {r}
    BY <1>6, <2>2 DEF Updated
  <2>4. Cardinality(Updated \cup {r}) = Cardinality(Updated) + 1
    BY <1>7, UpdatedFinite, FS_AddElement
  <2>5. cell' = cell + 1
    BY <1>1, <1>2, <1>9
  <2>6. cell = Cardinality(Updated)
    BY DEF HandlersInv, NoLostUpdate, Updated
  <2> QED
    BY <1>3, <1>4, <1>5, <2>3, <2>4, <2>5, <2>6 DEF HandlersInv, NoLostUpdate, Updated
<1> QED
  BY <1>8, <1>9

handlingVars == <<script, request, mu, cell, seen>>

LEMMA HandlersInductive == ServeSpec => []HandlersInv
<1>1. ServeInit => HandlersInv
  <2> SUFFICES ASSUME ServeInit PROVE HandlersInv
    OBVIOUS
  <2>1. Types
    BY ServeAssumption DEF ServeInit, Types
  <2>4. Serialized /\ Evaluated
    BY DEF ServeInit, Serialized, Evaluated, Inside
  <2>2. Updated = {}
    BY DEF ServeInit, Updated, Updates
  <2>3. cell = Cardinality(Updated)
    BY <2>2, FS_EmptySet DEF ServeInit
  <2> QED
    BY <2>1, <2>3, <2>4 DEF HandlersInv, NoLostUpdate, Updated
<1>2. HandlersInv /\ [ServeNext]_serveVars => HandlersInv'
  <2> SUFFICES ASSUME HandlersInv, [ServeNext]_serveVars PROVE HandlersInv'
    OBVIOUS
  <2>1. CASE UNCHANGED handlingVars
    BY <2>1 DEF handlingVars, HandlersInv, Types, Serialized, Evaluated, NoLostUpdate, Updates
  <2>2. ASSUME NEW r \in Requests, Arrive(r) \/ Handle(r) PROVE HandlersInv'
    BY <2>2, OtherSteps, WriteStep DEF Handle
  <2>3. HelperEnds \/ Watch \/ WindowCloses \/ Recreate \/ Continue \/ UNCHANGED serveVars =>
          UNCHANGED handlingVars
    BY DEF HelperEnds, Watch, OpenWindow, Check, Shutdown, WindowCloses, Recreate, Continue,
       serveVars, handling, handlingVars
  <2> QED
    BY <2>1, <2>2, <2>3 DEF ServeNext
<1> QED
  BY <1>1, <1>2, PTL DEF ServeSpec

\* For any number of requests: no update of a handler to the captured graph is
\* lost, whatever the others do (guiServer.runHandler, its mutex).
THEOREM UpdatesAreKept == ServeSpec => []NoLostUpdate
<1>1. HandlersInv => NoLostUpdate
  BY DEF HandlersInv
<1> QED
  BY <1>1, HandlersInductive, PTL

-----------------------------------------------------------------------------
(* The watcher.                                                              *)

watchVars == <<browser, profile, absent, checks, caller>>

LEMMA WatchedInductive == ServeSpec => []Watched
<1>1. ServeInit => Watched
  <2> SUFFICES ASSUME ServeInit PROVE Watched
    OBVIOUS
  <2>1. absent = 0 /\ checks = 0 /\ profile = FALSE /\ caller = "serving" /\ browser = "off"
    BY DEF ServeInit
  <2>2. absent \in 0..Stable /\ checks \in 0..MaxChecks
    BY <2>1, ServeAssumption
  <2> QED
    BY <2>1, <2>2 DEF Watched
<1>2. Watched /\ [ServeNext]_serveVars => Watched'
  <2> SUFFICES ASSUME Watched, [ServeNext]_serveVars PROVE Watched'
    OBVIOUS
  <2>1. CASE UNCHANGED watchVars
    BY <2>1 DEF watchVars, Watched, Cleaned
  <2>2. ASSUME NEW r \in Requests, Arrive(r) \/ Handle(r) PROVE UNCHANGED watchVars
    BY <2>2 DEF Arrive, Handle, Parse, Lock, Enter, Await, Awaited, Read, Write, Unlock,
       watching, watchVars
  <2>3. HelperEnds \/ UNCHANGED serveVars => UNCHANGED watchVars
    BY DEF HelperEnds, serveVars, watching, watchVars
  <2>4. CASE OpenWindow
    <3>1. absent = 0 /\ caller = "serving" /\ UNCHANGED <<caller, absent, checks>>
      BY <2>4 DEF OpenWindow, Watched
    <3>2. browser' \in {"open", "failed", "unwatched"} /\ profile' \in BOOLEAN
      BY <2>4 DEF OpenWindow, Watched
    <3>3. absent' \in 0..Stable /\ checks' \in 0..MaxChecks
      BY <3>1 DEF Watched
    <3> QED
      BY <3>1, <3>2, <3>3 DEF Watched
  <2>5. CASE WindowCloses
    <3>1. browser = "open" /\ browser' = "closed" /\ UNCHANGED <<caller, profile, absent, checks>>
      BY <2>5 DEF WindowCloses
    <3> QED
      BY <3>1 DEF Watched
  <2>6. CASE Check
    BY <2>6, ServeAssumption DEF Check, Removing, Watched, Cleaned
  <2>7. CASE Recreate
    <3>1. UNCHANGED <<browser, caller, absent, checks>> /\ profile' = TRUE /\ absent < Linger
      BY <2>7 DEF Recreate
    <3>2. ~(absent >= Linger)
      BY <3>1, ServeAssumption DEF Watched
    <3> QED
      BY <3>1, <3>2 DEF Watched, Cleaned
  <2>8. CASE Shutdown
    BY <2>8 DEF Shutdown, Watched, Cleaned
  <2>9. CASE Continue
    BY <2>9 DEF Continue, watching, Watched, Cleaned
  <2> QED
    BY <2>1, <2>2, <2>3, <2>4, <2>5, <2>6, <2>7, <2>8, <2>9 DEF ServeNext, Watch
<1> QED
  BY <1>1, <1>2, PTL DEF ServeSpec

\* Once serve has returned, the profile is gone for good, unless its removal gave
\* up: for any patience of the watcher that exceeds how long helpers linger
\* (openAndWatch, removeBrowserProfile).
THEOREM ProfilesAreRemoved == ServeSpec => []ProfileGone
<1>1. Watched => ProfileGone
  BY ServeAssumption DEF Watched, Cleaned, ProfileGone
<1> QED
  BY <1>1, WatchedInductive, PTL

-----------------------------------------------------------------------------
(* Every request is answered: the counts, and that nobody is stuck.          *)

\* What the scheduler counts: the caller of serve, the spawned strand, and the
\* handler that runs and does not wait.
Counted(r) == request[r] \in {"awaiting", "evaluating", "updating", "leaving"}
One(p) == IF p THEN 1 ELSE 0
ReadyIsExact ==
  ready = One(caller # "ended") + One(helper = "running") + One(\E r \in Requests : Counted(r))

Strands ==
  /\ helper \in {"running", "waiting", "ended"} /\ caller \in {"serving", "returned", "ended"}
  /\ mu # Nobody => request[mu] \in Inside

\* The guards of the steps of a request.
HandleCan(r) ==
  \/ request[r] \in {"arrived", "called", "awaiting", "evaluating", "updating", "leaving"}
  \/ request[r] = "locking" /\ mu = Nobody
  \/ request[r] = "suspended" /\ helper = "ended"

\* While a request is in flight, a handler can step or the strand that handlers
\* wait for can, unless these wait for each other.
NeverStuck ==
  (\E r \in Requests : request[r] \notin {"new", "answered"}) /\ ~Stuck =>
    helper = "running" \/ \E r \in Requests : HandleCan(r)

\* Where a step of a request leads.
LEMMA RequestSteps ==
  ASSUME HandlersInv, Strands, ReadyIsExact, NEW r \in Requests, Arrive(r) \/ Handle(r)
  PROVE  Strands' /\ ReadyIsExact'
<1>1. /\ UNCHANGED caller /\ request' = [request EXCEPT ![r] = request'[r]]
      /\ request \in [Requests -> {"new", "arrived", "locking", "answered"} \cup Inside]
  BY DEF Arrive, Handle, Parse, Lock, Enter, Await, Awaited, Read, Write, Unlock, Go, HandlersInv, Types
<1>2. \A q \in Requests : Counted(q) => mu = q
  BY DEF HandlersInv, Serialized, Inside, Counted
<1>3. \A q \in Requests \ {r} : Counted(q)' <=> Counted(q)
  BY <1>1 DEF Counted
<1>4. CASE Arrive(r) \/ Parse(r)
  <2>1. /\ UNCHANGED <<mu, helper, ready>> /\ ~Counted(r) /\ ~Counted(r)' /\ request[r] \notin Inside
    BY <1>1, <1>4 DEF Arrive, Parse, Go, Counted, Inside
  <2>2. Strands'
    <3>1. mu # Nobody => mu \in Requests \ {r}
      BY <2>1 DEF HandlersInv, Types, Strands
    <3>2. mu # Nobody => request'[mu] = request[mu]
      BY <1>1, <3>1
    <3> QED
      BY <1>1, <2>1, <3>2 DEF Strands
  <2>3. (\E q \in Requests : Counted(q)') <=> (\E q \in Requests : Counted(q))
    BY <1>3, <2>1
  <2> QED
    BY <1>1, <2>1, <2>2, <2>3 DEF ReadyIsExact
<1>5. CASE Lock(r)
  <2>1. /\ UNCHANGED <<helper, ready>> /\ ~Counted(r) /\ ~Counted(r)' /\ mu' = r /\ request'[r] = "called"
    BY <1>1, <1>5 DEF Lock, Go, Counted
  <2>2. Strands'
    BY <1>1, <2>1 DEF Strands, Inside
  <2>3. (\E q \in Requests : Counted(q)') <=> (\E q \in Requests : Counted(q))
    BY <1>3, <2>1
  <2> QED
    BY <1>1, <2>1, <2>2, <2>3 DEF ReadyIsExact
<1>6. CASE Enter(r) \/ Await(r) \/ Awaited(r) \/ Read(r) \/ Write(r)
  <2>1. /\ mu = r /\ mu' = mu /\ request[r] \in Inside
    BY <1>6 DEF Enter, Await, Awaited, Read, Write, HandlersInv, Serialized, Inside
  <2>2. request'[r] \in Inside
    BY <1>1, <1>6 DEF Enter, Await, Awaited, Read, Write, Go, Inside
  <2>3. helper' \in {"running", "waiting", "ended"}
    BY <1>6 DEF Enter, Await, Awaited, Read, Write, Strands
  <2>4. Strands'
    BY <1>1, <2>1, <2>2, <2>3 DEF Strands
  <2>5. \A q \in Requests : Counted(q) => q = r
    BY <1>2, <2>1
  <2>6. /\ (\E q \in Requests : Counted(q)) <=> Counted(r)
        /\ (\E q \in Requests : Counted(q)') <=> Counted(r)'
    BY <1>3, <2>5
  <2>7. ready \in Int
    BY DEF ReadyIsExact, One
  <2>8. ready' = ready + One(Counted(r)') - One(Counted(r)) + One(helper' = "running") - One(helper = "running")
    BY <1>1, <1>6, <2>7 DEF Enter, Await, Awaited, Read, Write, Go, Counted, One
  <2>9. ready' = One(caller # "ended") + One(helper' = "running") + One(Counted(r)')
    BY <2>6, <2>8 DEF ReadyIsExact, One
  <2>10. One(\E q \in Requests : Counted(q)') = One(Counted(r)')
    BY <2>6 DEF One
  <2>11. ready' = One(caller' # "ended") + One(helper' = "running") + One(\E q \in Requests : Counted(q)')
    BY <1>1, <2>9, <2>10
  <2>12. ReadyIsExact'
    BY <2>11 DEF ReadyIsExact, One
  <2> QED
    BY <2>4, <2>12
<1>7. CASE Unlock(r)
  <2>1. /\ UNCHANGED helper /\ mu = r /\ mu' = Nobody /\ Counted(r) /\ ~Counted(r)' /\ ready' = ready - 1
    BY <1>1, <1>7 DEF Unlock, Go, Counted, HandlersInv, Serialized, Inside
  <2>2. Strands'
    BY <1>1, <2>1 DEF Strands
  <2>3. \A q \in Requests : ~Counted(q)'
    BY <1>2, <1>3, <2>1
  <2> QED
    BY <1>1, <2>1, <2>2, <2>3 DEF ReadyIsExact, One
<1> QED
  BY <1>4, <1>5, <1>6, <1>7 DEF Handle

LEMMA StrandsInductive == ServeSpec => [](Strands /\ ReadyIsExact)
<1>1. ServeInit => Strands /\ ReadyIsExact
  BY DEF ServeInit, Strands, ReadyIsExact, Counted, One
<1>2. HandlersInv /\ Watched /\ Strands /\ ReadyIsExact /\ [ServeNext]_serveVars => Strands' /\ ReadyIsExact'
  <2> SUFFICES ASSUME HandlersInv, Watched, Strands, ReadyIsExact, [ServeNext]_serveVars
               PROVE  Strands' /\ ReadyIsExact'
    OBVIOUS
  <2>1. ASSUME NEW r \in Requests, Arrive(r) \/ Handle(r) PROVE Strands' /\ ReadyIsExact'
    BY <2>1, RequestSteps
  <2>2. ready \in Int
    BY DEF ReadyIsExact, One
  <2>3. CASE HelperEnds
    BY <2>2, <2>3 DEF HelperEnds, handling, Strands, ReadyIsExact, Counted, One
  <2>4. CASE Continue
    BY <2>2, <2>4 DEF Continue, handling, Strands, ReadyIsExact, Counted, One
  <2>5. CASE Shutdown
    <3>1. caller = "serving"
      BY <2>5 DEF Shutdown, Watched
    <3> QED
      BY <2>2, <2>5, <3>1 DEF Shutdown, handling, Strands, ReadyIsExact, Counted, One
  <2>6. CASE OpenWindow \/ Check \/ WindowCloses \/ Recreate \/ UNCHANGED serveVars
    BY <2>6 DEF OpenWindow, Check, WindowCloses, Recreate, serveVars, handling, Strands, ReadyIsExact, Counted
  <2> QED
    BY <2>1, <2>3, <2>4, <2>5, <2>6 DEF ServeNext, Watch
<1> QED
  BY <1>1, <1>2, HandlersInductive, WatchedInductive, PTL DEF ServeSpec

\* The scheduler's count is exact: the caller of serve until its strand ends, the
\* spawned strand while it runs, and the one handler that evaluates, which is not
\* counted while it waits (enterRunnable and its release in callHandlerSafely).
THEOREM CountIsExact == ServeSpec => []ReadyIsExact
BY StrandsInductive, PTL

\* "A handler that dies becomes a 500 response, never a crashed server": whatever
\* handlers panic, are refused or wait, while a request is in flight one of them
\* can step, or the strand they wait for can, unless that one waits for a
\* handler in turn.  Whoever holds the lock is inside, and can go on.
THEOREM ServeIsNeverStuck == ServeSpec => []NeverStuck
<1>1. HandlersInv /\ Strands => NeverStuck
  <2> SUFFICES ASSUME HandlersInv, Strands, ~Stuck, helper # "running",
                      NEW r \in Requests, request[r] \notin {"new", "answered"},
                      \A q \in Requests : ~HandleCan(q)
               PROVE  FALSE
    BY DEF NeverStuck
  <2>1. \A q \in Requests : request[q] \in {"new", "answered", "locking", "suspended"}
    BY DEF HandleCan, HandlersInv, Types, Inside
  <2>2. \A q \in Requests : request[q] # "suspended"
    BY DEF HandleCan, Strands, Stuck
  <2>3. request[r] = "locking" /\ mu # Nobody
    BY <2>1, <2>2 DEF HandleCan
  <2>4. mu \in Requests /\ request[mu] \in Inside
    BY <2>3 DEF HandlersInv, Types, Strands
  <2> QED
    BY <2>1, <2>2, <2>4 DEF Inside
<1> QED
  BY <1>1, HandlersInductive, StrandsInductive, PTL

\* How far a request is, and the steps it has left.
Stage(s) ==
  CASE s = "new" -> 0 [] s = "arrived" -> 1 [] s = "locking" -> 2 [] s = "called" -> 3
    [] s = "awaiting" -> 4 [] s = "suspended" -> 5 [] s = "evaluating" -> 6
    [] s = "updating" -> 7 [] s = "leaving" -> 8 [] s = "answered" -> 9
Ahead == {p \in Requests \X (1..9) : p[2] > Stage(request[p[1]])}

\* Every step of a request uses up one of the steps ahead; no step adds one.
StepsRunOut ==
  [][Ahead' \subseteq Ahead /\ ((\E r \in Requests : Arrive(r) \/ Handle(r)) => Ahead' # Ahead)]_serveVars

\* Requests are answered in finitely many steps: with ServeIsNeverStuck, handlers
\* that run bring every request to its answer.
THEOREM ServeRunsOut == ServeSpec => []IsFiniteSet(Ahead) /\ StepsRunOut
<1>1. IsFiniteSet(Ahead)
  <2>1. IsFiniteSet(1..9) /\ IsFiniteSet(Requests)
    <3>1. IsFiniteSet(1..9)
      <4>1. 1 \in Int /\ 9 \in Int
        OBVIOUS
      <4> QED
        BY <4>1, FS_Interval, Zenon
    <3> QED
      BY <3>1, ServeAssumption
  <2>2. IsFiniteSet(Requests \X (1..9))
    BY <2>1, FS_Product
  <2> QED
    BY <2>2, FS_Subset DEF Ahead
<1>2. ASSUME HandlersInv, NEW r \in Requests, Arrive(r) \/ Handle(r)
      PROVE  Ahead' \subseteq Ahead /\ Ahead' # Ahead
  <2>1. /\ Stage(request[r]) \in 0..8 /\ Stage(request'[r]) \in 1..9
        /\ Stage(request[r]) < Stage(request'[r])
        /\ request' = [request EXCEPT ![r] = request'[r]]
    <3>1. request' = [request EXCEPT ![r] = request'[r]] /\ r \in DOMAIN request
      BY <1>2 DEF Arrive, Handle, Parse, Lock, Enter, Await, Awaited, Read, Write, Unlock, Go, HandlersInv, Types
    <3>2. \/ request[r] = "new" /\ request'[r] = "arrived"
          \/ request[r] = "arrived" /\ request'[r] \in {"answered", "locking"}
          \/ request[r] = "locking" /\ request'[r] = "called"
          \/ request[r] = "called" /\ request'[r] \in {"awaiting", "leaving", "evaluating"}
          \/ request[r] = "awaiting" /\ request'[r] \in {"suspended", "evaluating"}
          \/ request[r] = "suspended" /\ request'[r] = "evaluating"
          \/ request[r] = "evaluating" /\ request'[r] = "updating"
          \/ request[r] = "updating" /\ request'[r] = "leaving"
          \/ request[r] = "leaving" /\ request'[r] = "answered"
      BY <1>2, <3>1 DEF Arrive, Handle, Parse, Lock, Enter, Await, Awaited, Read, Write, Unlock, Go
    <3> QED
      BY <3>1, <3>2 DEF Stage
  <2>2. ASSUME NEW p \in Requests \X (1..9), p[2] > Stage(request'[p[1]])
        PROVE  p[2] > Stage(request[p[1]])
    <3>1. CASE p[1] # r
      <4>1. p[1] \in Requests /\ DOMAIN request = Requests
        BY <1>2 DEF HandlersInv, Types
      <4>2. \A q \in Requests : q # r => request'[q] = request[q]
        BY <2>1, <4>1
      <4>3. request'[p[1]] = request[p[1]]
        BY <3>1, <4>1, <4>2
      <4> QED
        BY <2>2, <4>3
    <3>2. CASE p[1] = r
      BY <2>1, <2>2, <3>2
    <3> QED
      BY <3>1, <3>2
  <2>3. Ahead' \subseteq Ahead
    BY <2>2 DEF Ahead
  <2>4. PICK k \in 1..9 : k = Stage(request'[r])
    BY <2>1
  <2>5. <<r, k>> \in Ahead /\ <<r, k>> \notin Ahead'
    BY <2>1, <2>4 DEF Ahead
  <2> QED
    BY <2>3, <2>5
<1>3. HandlersInv /\ [ServeNext]_serveVars =>
        [Ahead' \subseteq Ahead /\ ((\E r \in Requests : Arrive(r) \/ Handle(r)) => Ahead' # Ahead)]_serveVars
  <2> SUFFICES ASSUME HandlersInv, ServeNext
               PROVE  Ahead' \subseteq Ahead /\ ((\E r \in Requests : Arrive(r) \/ Handle(r)) => Ahead' # Ahead)
    OBVIOUS
  <2>1. CASE \E r \in Requests : Arrive(r) \/ Handle(r)
    BY <1>2, <2>1
  <2>2. CASE ~ \E r \in Requests : Arrive(r) \/ Handle(r)
    <3>1. request' = request
      BY <2>2 DEF ServeNext, HelperEnds, Watch, OpenWindow, Check, Shutdown, WindowCloses, Recreate,
                  Continue, handling
    <3> QED
      BY <2>2, <3>1 DEF Ahead
  <2> QED
    BY <2>1, <2>2
<1> QED
  BY <1>1, <1>3, HandlersInductive, PTL DEF ServeSpec, StepsRunOut
=============================================================================
