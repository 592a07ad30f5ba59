------------------------ MODULE ModuleManager_proofs ------------------------
(***************************************************************************)
(* Proofs about ModuleManager, for any number of loaders, workers,         *)
(* observers, paths and images.                                            *)
(*                                                                         *)
(* HeldIsMapped is not inductive: that a library is still mapped follows   *)
(* from the two balances (use counts = shared_ptrs, opens = handles and    *)
(* modules), and those are kept only because each thread owns exactly what *)
(* its program counter says it owns.  IInv collects the three.             *)
(***************************************************************************)
EXTENDS ModuleManager, FiniteSetTheorems, TLAPS

\* What each thread owns at each point of its call.
LoaderOwns(l) ==
  LET result == ref[<<l, "result">>]
      old    == ref[<<l, "old">>]
  IN  /\ pc[l] \in {"idle", "opened", "checked", "built", "retire", "notify",
                    "deliver", "returned"}
      /\ pc[l] \in Loading => handle[l] # None
      /\ pc[l] \in {"retire", "deliver", "returned"} => handle[l] = None
      /\ pc[l] \in {"idle"} \cup Loading => result = None
      /\ pc[l] \in {"retire", "returned"} => result # None
      /\ pc[l] = "retire" <=> old # None
      /\ pc[l] \in {"checked", "built"} => image[handle[l]] \in ValidImages

WorkerOwns(r) ==
  /\ pc[r] \in {"idle", "holding", "applying"}
  /\ pc[r] = "idle" <=> ref[<<r, "snapshot">>] = None
  /\ pc[r] # "idle" => handle[r] = None

Ownership ==
  /\ \A l \in Loaders : LoaderOwns(l)
  /\ \A r \in Readers : WorkerOwns(r)
  /\ pc[Manager] \in {"up", "down"}
  /\ Up => handle[Manager] = None

\* Every library some module object refers to passed load's checks.
LiveAreValid == \A m \in Modules : object[m] # None => image[object[m]] \in ValidImages

IInv == TypeOK /\ CountsAreExact /\ OpensAreOwned /\ Ownership /\ LiveAreValid

-----------------------------------------------------------------------------
(* Counting *)

\* Count is the natural number of places that hold a value, as long as there
\* are finitely many places: it is 0 exactly when no place does.
LEMMA CountIsNat ==
  ASSUME NEW f, IsFiniteSet(DOMAIN f), NEW v
  PROVE  /\ Count(f, v) \in Nat
         /\ Count(f, v) = 0 <=> \A x \in DOMAIN f : f[x] # v
<1> DEFINE H == {x \in DOMAIN f : f[x] = v}
<1>1. IsFiniteSet(H)
  BY FS_Subset
<1>2. Cardinality(H) \in Nat /\ (Cardinality(H) = 0 <=> H = {})
  BY <1>1, FS_CardinalityType, FS_EmptySet
<1>3. QED
  BY <1>2 DEF Count

\* g is f with the place x overwritten.
ChangedAt(x, f, g) ==
  x \in DOMAIN f /\ DOMAIN g = DOMAIN f /\ \A y \in DOMAIN f \ {x} : g[y] = f[y]

\* Overwriting one place takes one from the count of what it held and adds one
\* to the count of what it holds now (a shared_ptr reassigned, a handle handed
\* over).
LEMMA CountAfterChange ==
  ASSUME NEW f, IsFiniteSet(DOMAIN f), NEW g, NEW x, ChangedAt(x, f, g), NEW v
  PROVE  /\ g[x] = v /\ f[x] # v => Count(g, v) = Count(f, v) + 1
         /\ g[x] # v /\ f[x] = v => Count(g, v) = Count(f, v) - 1
         /\ (g[x] = v <=> f[x] = v) => Count(g, v) = Count(f, v)
<1> DEFINE H == {y \in DOMAIN f : f[y] = v}
           G == {y \in DOMAIN g : g[y] = v}
<1>1. IsFiniteSet(H) /\ Cardinality(H) \in Nat
  BY FS_Subset, FS_CardinalityType
<1>2. CASE g[x] = v /\ f[x] # v
  <2>1. G = H \cup {x} /\ x \notin H
    BY <1>2 DEF ChangedAt
  <2>2. Cardinality(G) = Cardinality(H) + 1
    BY <1>1, <2>1, FS_AddElement
  <2>3. QED
    BY <1>2, <2>2 DEF Count
<1>3. CASE g[x] # v /\ f[x] = v
  <2>1. G = H \ {x} /\ x \in H
    BY <1>3 DEF ChangedAt
  <2>2. Cardinality(G) = Cardinality(H) - 1
    BY <1>1, <2>1, FS_RemoveElement
  <2>3. QED
    BY <1>3, <2>2 DEF Count
<1>4. CASE g[x] = v <=> f[x] = v
  <2>1. G = H
    BY <1>4 DEF ChangedAt
  <2>2. QED
    BY <1>4, <2>1 DEF Count
<1>5. QED
  BY <1>2, <1>3, <1>4

\* There are finitely many threads and finitely many shared_ptrs.
LEMMA FinitelyMany == IsFiniteSet(Threads) /\ IsFiniteSet(Holders)
<1>1. IsFiniteSet(Threads)
  BY ModuleManagerAssumption, FS_Union, FS_Singleton DEF Threads
<1>2. IsFiniteSet({"snapshot"}) /\ IsFiniteSet({"result", "old"})
  <2>1. {"result", "old"} = {"result"} \cup {"old"}
    OBVIOUS
  <2>2. IsFiniteSet({"result"}) /\ IsFiniteSet({"old"}) /\ IsFiniteSet({"snapshot"})
    BY FS_Singleton
  <2>3. IsFiniteSet({"result"} \cup {"old"})
    BY <2>2, FS_Union
  <2>4. QED
    BY <2>1, <2>2, <2>3
<1>3. IsFiniteSet(Readers \X {"snapshot"}) /\ IsFiniteSet(Loaders \X {"result", "old"})
  BY <1>2, ModuleManagerAssumption, FS_Product
<1>4. IsFiniteSet(Holders)
  BY <1>3, FS_Union, FS_Singleton DEF Holders
<1>5. QED
  BY <1>1, <1>4

\* What is counted over, the functions of the two balances have it as domain.
LEMMA FiniteDomains ==
  ASSUME TypeOK
  PROVE  /\ DOMAIN ref = Holders /\ IsFiniteSet(DOMAIN ref)
         /\ DOMAIN handle = Threads /\ IsFiniteSet(DOMAIN handle)
         /\ DOMAIN object = Modules /\ IsFiniteSet(DOMAIN object)
BY FinitelyMany, ModuleManagerAssumption DEF TypeOK

\* Both sides of the two balances are natural numbers.
LEMMA CountsAreNat ==
  ASSUME TypeOK, NEW v
  PROVE  Count(ref, v) \in Nat /\ Count(handle, v) \in Nat /\ Count(object, v) \in Nat
BY FiniteDomains, CountIsNat

\* Whoever holds a module or a handle is counted.
LEMMA HeldIsCounted ==
  ASSUME IInv
  PROVE  /\ \A h \in Holders : ref[h] # None =>
              ref[h] \in Modules /\ strong[ref[h]] > 0 /\ object[ref[h]] \in Paths
         /\ \A t \in Threads : handle[t] # None => handle[t] \in Paths /\ opens[handle[t]] > 0
         /\ \A m \in Modules : object[m] # None => object[m] \in Paths /\ opens[object[m]] > 0
<1> USE DEF IInv, TypeOK
<1>1. ASSUME NEW h \in Holders, ref[h] # None
      PROVE  ref[h] \in Modules /\ strong[ref[h]] > 0 /\ object[ref[h]] \in Paths
  <2>1. ref[h] \in Modules
    BY <1>1
  <2>2. Count(ref, ref[h]) \in Nat /\ Count(ref, ref[h]) # 0
    BY <1>1, FinitelyMany, CountIsNat
  <2>3. QED
    BY <2>1, <2>2 DEF CountsAreExact
<1>2. ASSUME NEW p \in Paths
      PROVE  /\ Count(handle, p) \in Nat /\ Count(object, p) \in Nat
             /\ \A t \in Threads : handle[t] = p => Count(handle, p) > 0
             /\ \A m \in Modules : object[m] = p => Count(object, p) > 0
  <2>1. /\ Count(handle, p) \in Nat
        /\ Count(handle, p) = 0 <=> \A t \in Threads : handle[t] # p
    BY FinitelyMany, CountIsNat
  <2>2. /\ Count(object, p) \in Nat
        /\ Count(object, p) = 0 <=> \A m \in Modules : object[m] # p
    BY ModuleManagerAssumption, CountIsNat
  <2>3. QED
    BY <2>1, <2>2
<1>3. ASSUME NEW t \in Threads, handle[t] # None
      PROVE  handle[t] \in Paths /\ opens[handle[t]] > 0
  BY <1>2, <1>3 DEF OpensAreOwned
<1>4. ASSUME NEW m \in Modules, object[m] # None
      PROVE  object[m] \in Paths /\ opens[object[m]] > 0
  BY <1>2, <1>4 DEF OpensAreOwned
<1>5. QED
  BY <1>1, <1>3, <1>4

-----------------------------------------------------------------------------
(* The invariant holds initially, and every action preserves it *)

\* Nothing is opened, published or held when the manager is constructed.
LEMMA InitIInv == Init => IInv
<1> SUFFICES ASSUME Init PROVE IInv
  OBVIOUS
<1>1. TypeOK
  BY ModuleManagerAssumption DEF Init, TypeOK, Threads
<1>2. CountsAreExact
  <2>1. ref \in [Holders -> {None}]
    BY DEF Init
  <2>2. \A m \in Modules : Count(ref, m) = 0
    BY <2>1, FinitelyMany, CountIsNat, ModuleManagerAssumption
  <2>3. QED
    BY <2>2 DEF CountsAreExact, Init
<1>3. OpensAreOwned
  <2>1. handle \in [Threads -> {None}] /\ object \in [Modules -> {None}]
    BY DEF Init
  <2>2. \A p \in Paths : Count(handle, p) = 0 /\ Count(object, p) = 0
    BY <2>1, FinitelyMany, CountIsNat, ModuleManagerAssumption
  <2>3. QED
    BY <2>2 DEF OpensAreOwned, Init
<1>4. Ownership
  BY ModuleManagerAssumption
  DEF Init, Ownership, LoaderOwns, WorkerOwns, Loading, Up, Threads, Holders
<1>5. LiveAreValid
  BY DEF Init, LiveAreValid
<1>6. QED
  BY <1>1, <1>2, <1>3, <1>4, <1>5 DEF IInv

\* A step of another thread leaves what this one owns alone.
LEMMA LoaderFrame ==
  ASSUME NEW l \in Loaders, LoaderOwns(l),
         pc'[l] = pc[l], handle'[l] = handle[l],
         ref'[<<l, "result">>] = ref[<<l, "result">>],
         ref'[<<l, "old">>] = ref[<<l, "old">>],
         handle[l] # None => image'[handle[l]] = image[handle[l]]
  PROVE  LoaderOwns(l)'
BY DEF LoaderOwns, Loading

\* The same for a worker.
LEMMA WorkerFrame ==
  ASSUME NEW r \in Readers, WorkerOwns(r),
         pc'[r] = pc[r], handle'[r] = handle[r],
         ref'[<<r, "snapshot">>] = ref[<<r, "snapshot">>]
  PROVE  WorkerOwns(r)'
BY DEF WorkerOwns

\* The shared_ptrs are all different.
LEMMA HoldersDiffer ==
  /\ Current \in Holders
  /\ \A l \in Loaders : /\ <<l, "result">> \in Holders \ {Current}
                       /\ <<l, "old">> \in Holders \ {Current}
                       /\ <<l, "result">> # <<l, "old">>
  /\ \A r \in Readers : <<r, "snapshot">> \in Holders \ {Current}
BY ModuleManagerAssumption DEF Holders, Current

\* Steps that touch no count, handle or mapping keep both balances.
LEMMA BalancesKept ==
  ASSUME IInv, UNCHANGED <<opens, image, object, strong, ref, handle>>
  PROVE  CountsAreExact' /\ OpensAreOwned' /\ LiveAreValid'
BY DEF IInv, CountsAreExact, OpensAreOwned, LiveAreValid, Count

\* The steps of load that neither open, publish nor release anything.
LEMMA QuietLoadIInv ==
  ASSUME IInv, NEW l \in Loaders,
         \/ \E p \in Paths : OpenFails(l, p)
         \/ Validate(l) \/ Reject(l) \/ ReadCurrent(l) \/ BeginNotify(l)
         \/ \E o \in Observers : Deliver(l, o)
         \/ Return(l)
  PROVE  IInv'
<1>0. l \in Threads /\ l # Manager /\ l \notin Readers
  BY ModuleManagerAssumption DEF Threads
<1>1. /\ UNCHANGED <<opens, image, object, strong, ref, handle>>
      /\ UNCHANGED disk
      /\ \A t \in Threads \ {l} : pc'[t] = pc[t]
  BY <1>0 DEF IInv, TypeOK, OpenFails, Validate, Reject, ReadCurrent, BeginNotify,
             Deliver, Return, Goto, counts, events, library
<1>2. TypeOK'
  <2>1. pc' \in [Threads -> {"up", "down", "idle", "opened", "checked", "built",
                            "retire", "notify", "deliver", "returned",
                            "holding", "applying"}]
    BY <1>0 DEF IInv, TypeOK, OpenFails, Validate, Reject, ReadCurrent, BeginNotify,
               Deliver, Return, Goto
  <2>2. reload' \in [Loaders -> BOOLEAN]
    BY DEF IInv, TypeOK, OpenFails, Validate, Reject, ReadCurrent, BeginNotify,
           Deliver, Return
  <2>3. observers' = observers /\ todo' \in [Loaders -> SUBSET Observers]
    BY DEF IInv, TypeOK, OpenFails, Validate, Reject, ReadCurrent, BeginNotify,
           Deliver, Return, events
  <2>4. view' \in [Observers -> Modules \cup {None}]
    <3>1. Current \in Holders
      BY DEF Holders
    <3>2. QED
      BY <3>1 DEF IInv, TypeOK, OpenFails, Validate, Reject, ReadCurrent, BeginNotify,
             Deliver, Return, events
  <2>5. QED
    BY <1>1, <2>1, <2>2, <2>3, <2>4 DEF IInv, TypeOK
<1>3. Ownership'
  <2>1. ASSUME NEW k \in Loaders, k # l PROVE LoaderOwns(k)'
    BY <1>1, <2>1 DEF IInv, Ownership, LoaderOwns, Threads
  <2>2. LoaderOwns(l)'
    BY <1>0, <1>1
    DEF IInv, TypeOK, Ownership, LoaderOwns, OpenFails, Validate, Reject, ReadCurrent,
        BeginNotify, Deliver, Return, Goto, Ready, Loading
  <2>3. QED
    BY <1>0, <1>1, <2>1, <2>2, ModuleManagerAssumption
    DEF IInv, Ownership, WorkerOwns, Up, Threads
<1>4. QED
  BY <1>1, <1>2, <1>3, BalancesKept DEF IInv

\* The file system, a worker inside apply, and registration.
LEMMA QuietRestIInv ==
  ASSUME IInv,
         \/ \E p \in Paths, i \in Images \cup {None} : WriteFile(p, i)
         \/ \E r \in Readers : BeginApply(r) \/ EndApply(r)
         \/ \E o \in Observers : Subscribe(o) \/ Unsubscribe(o)
  PROVE  IInv'
<1>1. UNCHANGED <<opens, image, object, strong, ref, handle>>
  BY DEF WriteFile, BeginApply, EndApply, Subscribe, Unsubscribe, counts, library
<1>2. CASE \E r \in Readers : BeginApply(r) \/ EndApply(r)
  <2> PICK r \in Readers : BeginApply(r) \/ EndApply(r)
    BY <1>2
  <2>0. r \in Threads /\ r # Manager /\ r \notin Loaders
    BY ModuleManagerAssumption DEF Threads
  <2>1. TypeOK'
    BY <1>1, <2>0 DEF IInv, TypeOK, BeginApply, EndApply, Goto, library, events
  <2>2. \A t \in Threads \ {r} : pc'[t] = pc[t]
    BY <2>0 DEF IInv, TypeOK, BeginApply, EndApply, Goto
  <2>3. pc[r] \in {"holding", "applying"} /\ pc'[r] \in {"holding", "applying"}
    BY <2>0 DEF IInv, TypeOK, BeginApply, EndApply, Goto
  <2>4. \A l \in Loaders : LoaderOwns(l)'
    BY <1>1, <2>0, <2>2 DEF IInv, Ownership, LoaderOwns, Threads
  <2>5. \A w \in Readers : WorkerOwns(w)'
    BY <1>1, <2>0, <2>2, <2>3 DEF IInv, Ownership, WorkerOwns, Threads
  <2>6. Ownership'
    BY <1>1, <2>0, <2>2, <2>4, <2>5 DEF IInv, Ownership, Up, Threads
  <2>7. QED
    BY <1>1, <2>1, <2>6, BalancesKept DEF IInv
<1>3. CASE ~ \E r \in Readers : BeginApply(r) \/ EndApply(r)
  <2>1. UNCHANGED pc
    BY <1>3 DEF WriteFile, Subscribe, Unsubscribe
  <2>2. TypeOK'
    <3>1. CASE \E p \in Paths, i \in Images \cup {None} : WriteFile(p, i)
      BY <1>1, <2>1, <3>1 DEF IInv, TypeOK, WriteFile, events
    <3>2. CASE \E o \in Observers : Subscribe(o) \/ Unsubscribe(o)
      BY <1>1, <2>1, <3>2 DEF IInv, TypeOK, Subscribe, Unsubscribe, library
    <3>3. QED
      BY <1>3, <3>1, <3>2
  <2>3. Ownership'
    BY <1>1, <2>1 DEF IInv, Ownership, LoaderOwns, WorkerOwns, Up
  <2>4. QED
    BY <1>1, <2>2, <2>3, BalancesKept DEF IInv
<1>4. QED
  BY <1>2, <1>3

\* The three ways a step moves a handle: a thread opens, hands over or closes.
LEMMA HandleCountChange ==
  ASSUME TypeOK, NEW t \in Threads, ChangedAt(t, handle, handle'), NEW p
  PROVE  /\ handle'[t] = p /\ handle[t] # p => Count(handle', p) = Count(handle, p) + 1
         /\ handle'[t] # p /\ handle[t] = p => Count(handle', p) = Count(handle, p) - 1
         /\ (handle'[t] = p <=> handle[t] = p) => Count(handle', p) = Count(handle, p)
BY FiniteDomains, CountAfterChange

\* The same for the shared_ptrs.
LEMMA RefCountChange ==
  ASSUME TypeOK, NEW h \in Holders, ChangedAt(h, ref, ref'), NEW m
  PROVE  /\ ref'[h] = m /\ ref[h] # m => Count(ref', m) = Count(ref, m) + 1
         /\ ref'[h] # m /\ ref[h] = m => Count(ref', m) = Count(ref, m) - 1
         /\ (ref'[h] = m <=> ref[h] = m) => Count(ref', m) = Count(ref, m)
BY FiniteDomains, CountAfterChange

\* And for the modules that own a path.
LEMMA ObjectCountChange ==
  ASSUME TypeOK, NEW m \in Modules, ChangedAt(m, object, object'), NEW p
  PROVE  /\ object'[m] = p /\ object[m] # p => Count(object', p) = Count(object, p) + 1
         /\ object'[m] # p /\ object[m] = p => Count(object', p) = Count(object, p) - 1
         /\ (object'[m] = p <=> object[m] = p) => Count(object', p) = Count(object, p)
BY FiniteDomains, CountAfterChange

\* dlopen: one more open, and the loader owns its handle.
LEMMA OpenIInv ==
  ASSUME IInv, NEW l \in Loaders, NEW p \in Paths, Open(l, p)
  PROVE  IInv'
<1>0. l \in Threads /\ l # Manager /\ l \notin Readers
  BY ModuleManagerAssumption DEF Threads
<1>1. TypeOK'
  <2>1. image'[p] \in Images \cup {None} /\ handle' \in [Threads -> Paths \cup {None}]
    BY DEF IInv, TypeOK, Open
  <2>2. QED
    BY <1>0, <2>1 DEF IInv, TypeOK, Open, Goto, counts, events
<1>2. CountsAreExact'
  BY DEF IInv, CountsAreExact, Count, Open, counts
<1>3. OpensAreOwned'
  <2> SUFFICES ASSUME NEW q \in Paths
               PROVE  opens'[q] = Count(handle', q) + Count(object', q)
    BY DEF OpensAreOwned
  <2>1. Count(handle, q) \in Nat /\ Count(object, q) \in Nat
    BY CountsAreNat DEF IInv
  <2>2. ChangedAt(l, handle, handle') /\ handle'[l] = p /\ handle[l] = None /\ object' = object
    BY <1>0 DEF IInv, TypeOK, Open, Ready, ChangedAt, counts
  <2>3. /\ p = q => Count(handle', q) = Count(handle, q) + 1
        /\ p # q => Count(handle', q) = Count(handle, q)
    <3>1. handle[l] # q
      BY <2>2, ModuleManagerAssumption
    <3>2. QED
      BY <1>0, <2>2, <3>1, HandleCountChange DEF IInv
  <2>4. opens[q] = Count(handle, q) + Count(object, q)
    BY DEF IInv, OpensAreOwned
  <2>5. /\ p = q => opens'[q] = opens[q] + 1
        /\ p # q => opens'[q] = opens[q]
    BY DEF IInv, TypeOK, Open
  <2>6. Count(object', q) = Count(object, q)
    BY <2>2
  <2>7. QED
    BY <2>1, <2>3, <2>4, <2>5, <2>6
<1>4. \A q \in Paths : opens[q] > 0 => image'[q] = image[q]
  BY DEF IInv, TypeOK, Open
<1>5. Ownership'
  <2>1. ASSUME NEW k \in Loaders, k # l PROVE LoaderOwns(k)'
    BY <1>0, <1>4, <2>1, HeldIsCounted
    DEF IInv, TypeOK, Ownership, LoaderOwns, Open, Goto, counts, Threads, Loading
  <2>2. LoaderOwns(l)'
    BY <1>0, ModuleManagerAssumption
    DEF IInv, TypeOK, Ownership, LoaderOwns, Open, Ready, Goto, counts, Threads, Loading
  <2>3. QED
    BY <1>0, <2>1, <2>2, ModuleManagerAssumption
    DEF IInv, TypeOK, Ownership, WorkerOwns, Up, Open, Goto, counts, Threads
<1>6. LiveAreValid'
  BY <1>4, HeldIsCounted DEF IInv, LiveAreValid, Open, counts
<1>7. QED
  BY <1>1, <1>2, <1>3, <1>5, <1>6 DEF IInv

\* current(): one more owner of a module that the cell keeps alive.
LEMMA SnapshotIInv ==
  ASSUME IInv, NEW r \in Readers, Snapshot(r)
  PROVE  IInv'
<1> DEFINE h == <<r, "snapshot">>
           c == ref[Current]
<1>0. /\ r \in Threads /\ r # Manager /\ r \notin Loaders
      /\ h \in Holders /\ Current \in Holders /\ c \in Modules
      /\ ref[h] = None
  BY ModuleManagerAssumption
  DEF Threads, Holders, Current, Snapshot, Ready, IInv, TypeOK, Ownership, WorkerOwns
<1>1. /\ UNCHANGED <<opens, image, object, handle>>
      /\ \A g \in Holders \ {h} : ref'[g] = ref[g]
      /\ \A t \in Threads \ {r} : pc'[t] = pc[t]
      /\ ref'[h] = c /\ pc'[r] = "holding" /\ handle[r] = None
  BY <1>0 DEF IInv, TypeOK, Snapshot, Ready, Goto, library
<1>2. TypeOK'
  BY <1>0, <1>1 DEF IInv, TypeOK, Snapshot, Goto, library, events
<1>3. CountsAreExact'
  <2> SUFFICES ASSUME NEW m \in Modules
               PROVE  strong'[m] = Count(ref', m) /\ (object'[m] = None <=> strong'[m] = 0)
    BY DEF CountsAreExact
  <2>1. ChangedAt(h, ref, ref')
    BY <1>0, <1>1, <1>2 DEF IInv, TypeOK, ChangedAt
  <2>2. /\ m = c => Count(ref', m) = Count(ref, m) + 1
        /\ m # c => Count(ref', m) = Count(ref, m)
    <3>1. ref'[h] = c /\ ref[h] # m
      BY <1>0, <1>1, ModuleManagerAssumption
    <3>2. QED
      BY <1>0, <2>1, <3>1, RefCountChange DEF IInv
  <2>3. strong[m] = Count(ref, m) /\ (object[m] = None <=> strong[m] = 0) /\ strong[m] \in Nat
    BY DEF IInv, TypeOK, CountsAreExact
  <2>4. object[c] # None
    BY <1>0, HeldIsCounted, ModuleManagerAssumption DEF Snapshot
  <2>5. strong'[m] = IF m = c THEN strong[m] + 1 ELSE strong[m]
    BY DEF IInv, TypeOK, Snapshot
  <2>6. QED
    BY <1>1, <2>2, <2>3, <2>4, <2>5
<1>4. OpensAreOwned' /\ LiveAreValid'
  BY <1>1 DEF IInv, OpensAreOwned, LiveAreValid, Count
<1>5. Ownership'
  <2>1. ASSUME NEW l \in Loaders PROVE LoaderOwns(l)'
    <3>1. l \in Threads \ {r} /\ <<l, "result">> # h /\ <<l, "old">> # h
      BY <1>0 DEF Threads
    <3>2. QED
      BY <1>1, <3>1, HoldersDiffer, LoaderFrame DEF IInv, Ownership
  <2>2. ASSUME NEW w \in Readers PROVE WorkerOwns(w)'
    <3>1. CASE w = r
      BY <1>0, <1>1, <3>1, ModuleManagerAssumption DEF WorkerOwns
    <3>2. CASE w # r
      <4>1. w \in Threads \ {r} /\ <<w, "snapshot">> # h
        BY <3>2 DEF Threads
      <4>2. QED
        BY <1>1, <4>1, HoldersDiffer, WorkerFrame DEF IInv, Ownership
    <3>3. QED
      BY <3>1, <3>2
  <2>3. QED
    BY <1>0, <1>1, <2>1, <2>2 DEF IInv, Ownership, Up, Threads
<1>6. QED
  BY <1>2, <1>3, <1>4, <1>5 DEF IInv

\* The destructor of a shared_ptr: either another owner is left, or the module
\* is deleted and its handle passes to the thread, which owns none so far.
LEMMA DropKeepsBalances ==
  ASSUME IInv, NEW h \in Holders, NEW t \in Threads, NEW after, Drop(h, t, after),
         ref[h] # None, handle[t] = None
  PROVE  CountsAreExact' /\ OpensAreOwned' /\ LiveAreValid'
<1> DEFINE d == ref[h]
<1>0. /\ d \in Modules /\ strong[d] > 0 /\ object[d] \in Paths
      /\ strong \in [Modules -> Nat]
      /\ UNCHANGED <<opens, image>>
  BY HeldIsCounted DEF IInv, TypeOK, Drop, library
<1>1. CountsAreExact'
  <2> SUFFICES ASSUME NEW m \in Modules
               PROVE  strong'[m] = Count(ref', m) /\ (object'[m] = None <=> strong'[m] = 0)
    BY DEF CountsAreExact
  <2>1. ChangedAt(h, ref, ref') /\ ref'[h] = None
    BY DEF IInv, TypeOK, Drop, ChangedAt
  <2>2. /\ m = d => Count(ref', m) = Count(ref, m) - 1
        /\ m # d => Count(ref', m) = Count(ref, m)
    <3>1. ref'[h] # m
      BY <2>1, ModuleManagerAssumption
    <3>2. QED
      BY <2>1, <3>1, RefCountChange DEF IInv
  <2>3. strong[m] = Count(ref, m) /\ (object[m] = None <=> strong[m] = 0)
    BY DEF IInv, CountsAreExact
  <2>4. strong'[m] = IF m = d THEN strong[m] - 1 ELSE strong[m]
    BY <1>0 DEF Drop
  <2>5. object'[m] = IF m = d /\ strong[d] = 1 THEN None ELSE object[m]
    BY DEF Drop, IInv, TypeOK
  <2>6. QED
    BY <1>0, <2>2, <2>3, <2>4, <2>5
<1>2. OpensAreOwned'
  <2>1. CASE strong[d] # 1
    <3>1. UNCHANGED <<object, handle>>
      BY <2>1 DEF Drop
    <3>2. QED
      BY <1>0, <3>1 DEF IInv, OpensAreOwned, Count
  <2>2. CASE strong[d] = 1
    <3> SUFFICES ASSUME NEW p \in Paths
                 PROVE  opens'[p] = Count(handle', p) + Count(object', p)
      BY DEF OpensAreOwned
    <3>1. ChangedAt(t, handle, handle') /\ handle'[t] = object[d]
      BY <2>2 DEF IInv, TypeOK, Drop, ChangedAt
    <3>2. ChangedAt(d, object, object') /\ object'[d] = None
      BY <1>0, <2>2 DEF IInv, TypeOK, Drop, ChangedAt
    <3>3. p # None
      BY ModuleManagerAssumption
    <3>4. /\ p = object[d] => Count(handle', p) = Count(handle, p) + 1
          /\ p # object[d] => Count(handle', p) = Count(handle, p)
      <4>1. handle'[t] = object[d] /\ handle[t] # p
        BY <3>1, <3>3
      <4>2. QED
        BY <3>1, <4>1, HandleCountChange DEF IInv
    <3>5. /\ p = object[d] => Count(object', p) = Count(object, p) - 1
          /\ p # object[d] => Count(object', p) = Count(object, p)
      <4>1. object'[d] # p
        BY <3>2, <3>3
      <4>2. QED
        BY <1>0, <3>2, <4>1, ObjectCountChange DEF IInv
    <3>6. Count(handle, p) \in Nat /\ Count(object, p) \in Nat
      BY CountsAreNat DEF IInv
    <3>7. opens'[p] = opens[p] /\ opens[p] = Count(handle, p) + Count(object, p)
      BY <1>0 DEF IInv, OpensAreOwned
    <3>8. QED
      BY <3>4, <3>5, <3>6, <3>7
  <2>3. QED
    BY <2>1, <2>2
<1>3. LiveAreValid'
  BY <1>0 DEF IInv, TypeOK, LiveAreValid, Drop
<1>4. QED
  BY <1>1, <1>2, <1>3

\* The four shared_ptrs a step may destroy: its owner is at the right point
\* and holds no handle, before and after.
LEMMA DropIInv ==
  ASSUME IInv, NEW h \in Holders, NEW t \in Threads, NEW after, Drop(h, t, after),
         ref[h] # None, handle[t] = None,
         \/ t \in Loaders /\ h = <<t, "old">> /\ pc[t] = "retire" /\ after = "notify"
         \/ t \in Loaders /\ h = <<t, "result">> /\ pc[t] = "returned" /\ after = "idle"
         \/ t \in Readers /\ h = <<t, "snapshot">> /\ pc[t] = "holding" /\ after = "idle"
         \/ t = Manager /\ h = Current /\ pc[t] = "up" /\ after = "down"
  PROVE  IInv'
<1>0. /\ Manager \notin Loaders \cup Readers
      /\ Loaders \cap Readers = {}
      /\ None \notin Modules \cup Paths
  BY ModuleManagerAssumption
<1>1. /\ UNCHANGED image
      /\ \A g \in Holders \ {h} : ref'[g] = ref[g]
      /\ \A u \in Threads \ {t} : pc'[u] = pc[u] /\ handle'[u] = handle[u]
      /\ ref'[h] = None /\ pc'[t] = after
  BY DEF IInv, TypeOK, Drop, Goto, library
<1>2. ref[h] \in Modules /\ strong[ref[h]] > 0 /\ object[ref[h]] \in Paths
  BY HeldIsCounted
<1>3. TypeOK'
  <2>1. after \in {"notify", "idle", "down"}
    OBVIOUS
  <2>2. ref' \in [Holders -> Modules \cup {None}] /\ strong' \in [Modules -> Nat]
    BY <1>2 DEF IInv, TypeOK, Drop
  <2>3. object' \in [Modules -> Paths \cup {None}] /\ handle' \in [Threads -> Paths \cup {None}]
    BY <1>2 DEF IInv, TypeOK, Drop
  <2>4. pc' \in [Threads -> {"up", "down", "idle", "opened", "checked", "built",
                            "retire", "notify", "deliver", "returned",
                            "holding", "applying"}]
    BY <2>1 DEF IInv, TypeOK, Drop, Goto
  <2>5. QED
    BY <2>2, <2>3, <2>4 DEF IInv, TypeOK, Drop, library, events
<1>4. ASSUME NEW l \in Loaders PROVE LoaderOwns(l)'
  <2>1. CASE l # t
    <3>1. l \in Threads \ {t}
      BY <2>1 DEF Threads
    <3>2. h \in {<<t, "old">>, <<t, "result">>, <<t, "snapshot">>, Current}
      OBVIOUS
    <3>3. <<l, "result">> # h /\ <<l, "old">> # h
      <4>1. CASE h = Current
        BY <4>1, HoldersDiffer
      <4>2. CASE h # Current
        <5>1. h[1] = t
          BY <3>2, <4>2
        <5>2. <<l, "result">>[1] = l /\ <<l, "old">>[1] = l
          OBVIOUS
        <5>3. QED
          BY <2>1, <5>1, <5>2
      <4>3. QED
        BY <4>1, <4>2
    <3>4. QED
      BY <1>1, <3>1, <3>3, HoldersDiffer, LoaderFrame DEF IInv, Ownership
  <2>2. CASE l = t
    <3>1. LoaderOwns(t)
      BY <2>2 DEF IInv, Ownership
    <3>2. CASE h = <<t, "old">>
      <4>1. /\ pc'[t] = "notify" /\ ref'[<<t, "old">>] = None
            /\ ref'[<<t, "result">>] = ref[<<t, "result">>]
        BY <1>0, <1>1, <2>2, <3>2, HoldersDiffer
      <4>2. QED
        BY <2>2, <4>1 DEF LoaderOwns, Loading
    <3>3. CASE h = <<t, "result">>
      <4>1. pc[t] = "returned" /\ pc'[t] = "idle" /\ ref'[<<t, "result">>] = None
        BY <1>0, <1>1, <2>2, <3>3, HoldersDiffer
      <4>2. ref'[<<t, "old">>] = None
        BY <1>1, <2>2, <3>1, <3>3, <4>1, HoldersDiffer DEF LoaderOwns
      <4>3. QED
        BY <2>2, <4>1, <4>2 DEF LoaderOwns, Loading
    <3>4. QED
      BY <1>0, <2>2, <3>2, <3>3, HoldersDiffer
  <2>3. QED
    BY <2>1, <2>2
<1>5. ASSUME NEW r \in Readers PROVE WorkerOwns(r)'
  <2>1. CASE r # t
    <3>1. r \in Threads \ {t} /\ <<r, "snapshot">> # h
      BY <1>0, <2>1, HoldersDiffer DEF Threads
    <3>2. QED
      BY <1>1, <3>1, HoldersDiffer, WorkerFrame DEF IInv, Ownership
  <2>2. CASE r = t
    <3>1. h = <<t, "snapshot">> /\ after = "idle"
      BY <1>0, <2>2
    <3>2. QED
      BY <1>1, <2>2, <3>1 DEF WorkerOwns
  <2>3. QED
    BY <2>1, <2>2
<1>6. pc'[Manager] \in {"up", "down"} /\ (Up' => handle'[Manager] = None)
  <2>1. CASE t = Manager
    BY <1>0, <1>1, <2>1 DEF Up
  <2>2. CASE t # Manager
    BY <1>1, <2>2 DEF IInv, Ownership, Up, Threads
  <2>3. QED
    BY <2>1, <2>2
<1>7. Ownership'
  BY <1>4, <1>5, <1>6 DEF Ownership, Up
<1>8. QED
  BY <1>3, <1>7, DropKeepsBalances DEF IInv

\* load's fail path and ~LoadedModule: the handle that goes was counted.
LEMMA DlcloseIInv ==
  ASSUME IInv, NEW t \in Threads, Dlclose(t)
  PROVE  IInv'
<1> DEFINE p == handle[t]
<1>0. p \in Paths /\ p # None /\ opens[p] > 0 /\ opens \in [Paths -> Nat]
  BY HeldIsCounted DEF IInv, TypeOK, Dlclose
<1>1. /\ UNCHANGED <<object, strong, ref, pc>>
      /\ \A u \in Threads \ {t} : handle'[u] = handle[u]
      /\ handle'[t] = None
      /\ \A q \in Paths \ {p} : image'[q] = image[q]
  BY DEF IInv, TypeOK, Dlclose, counts
<1>2. TypeOK'
  <2>1. opens' \in [Paths -> Nat]
    BY <1>0 DEF IInv, TypeOK, Dlclose
  <2>2. handle' \in [Threads -> Paths \cup {None}] /\ image' \in [Paths -> Images \cup {None}]
    BY DEF IInv, TypeOK, Dlclose
  <2>3. QED
    BY <1>1, <2>1, <2>2 DEF IInv, TypeOK, Dlclose, events
<1>3. CountsAreExact'
  BY <1>1 DEF IInv, CountsAreExact, Count
<1>4. OpensAreOwned'
  <2> SUFFICES ASSUME NEW q \in Paths
               PROVE  opens'[q] = Count(handle', q) + Count(object', q)
    BY DEF OpensAreOwned
  <2>1. ChangedAt(t, handle, handle')
    BY <1>1 DEF IInv, TypeOK, Dlclose, ChangedAt
  <2>2. /\ q = p => Count(handle', q) = Count(handle, q) - 1
        /\ q # p => Count(handle', q) = Count(handle, q)
    <3>1. handle'[t] # q
      BY <1>1, ModuleManagerAssumption
    <3>2. QED
      BY <2>1, <3>1, HandleCountChange DEF IInv
  <2>3. Count(handle, q) \in Nat /\ Count(object, q) \in Nat /\ Count(object', q) = Count(object, q)
    BY <1>1, CountsAreNat DEF IInv
  <2>4. opens[q] = Count(handle, q) + Count(object, q)
    BY DEF IInv, OpensAreOwned
  <2>5. opens'[q] = IF q = p THEN opens[q] - 1 ELSE opens[q]
    BY <1>0 DEF Dlclose
  <2>6. QED
    BY <2>2, <2>3, <2>4, <2>5
<1>5. \A q \in Paths : opens'[q] > 0 => image'[q] = image[q]
  <2>1. ASSUME opens'[p] > 0 PROVE image'[p] = image[p]
    <3>1. opens[p] # 1
      BY <1>0, <2>1 DEF Dlclose
    <3>2. QED
      BY <1>0, <3>1 DEF IInv, TypeOK, Dlclose
  <2>2. QED
    BY <1>1, <2>1
<1>6. \A u \in Threads : handle'[u] # None => opens'[handle'[u]] > 0
  <2> SUFFICES ASSUME NEW u \in Threads, handle'[u] # None
               PROVE  opens'[handle'[u]] > 0
    OBVIOUS
  <2>1. handle'[u] \in Paths
    BY <1>2 DEF TypeOK
  <2>2. Count(handle', handle'[u]) \in Nat /\ Count(handle', handle'[u]) # 0
    BY <1>2, FinitelyMany, CountIsNat DEF TypeOK
  <2>3. Count(object', handle'[u]) \in Nat
    BY <1>1, CountsAreNat DEF IInv
  <2>4. QED
    BY <1>4, <2>1, <2>2, <2>3 DEF OpensAreOwned
<1>7. \A m \in Modules : object'[m] # None => opens'[object'[m]] > 0
  <2> SUFFICES ASSUME NEW m \in Modules, object'[m] # None
               PROVE  opens'[object'[m]] > 0
    OBVIOUS
  <2>1. object'[m] \in Paths
    BY <1>2 DEF TypeOK
  <2>2. Count(object', object'[m]) \in Nat /\ Count(object', object'[m]) # 0
    BY <1>2, ModuleManagerAssumption, CountIsNat DEF TypeOK
  <2>3. Count(handle', object'[m]) \in Nat
    BY <1>2, FinitelyMany, CountIsNat DEF TypeOK
  <2>4. QED
    BY <1>4, <2>1, <2>2, <2>3 DEF OpensAreOwned
<1>8. Ownership'
  <2>1. ASSUME NEW l \in Loaders, l # t PROVE LoaderOwns(l)'
    <3>1. l \in Threads \ {t}
      BY <2>1 DEF Threads
    <3>2. handle[l] # None => handle[l] \in Paths /\ image'[handle[l]] = image[handle[l]]
      BY <1>1, <1>2, <1>5, <1>6, <3>1 DEF TypeOK
    <3>3. QED
      BY <1>1, <3>1, <3>2, LoaderFrame DEF IInv, Ownership
  <2>2. ASSUME t \in Loaders PROVE LoaderOwns(t)'
    <3>1. LoaderOwns(t) /\ handle[t] # None /\ pc[t] \notin Loading
      BY <1>0, <2>2 DEF IInv, Ownership, Dlclose
    <3>2. QED
      BY <1>1, <3>1 DEF LoaderOwns, Loading
  <2>3. \A r \in Readers : WorkerOwns(r)'
    BY <1>1 DEF IInv, Ownership, WorkerOwns, Threads
  <2>4. Up' => handle'[Manager] = None
    BY <1>1 DEF IInv, Ownership, Up, Threads
  <2>5. QED
    BY <1>1, <2>1, <2>2, <2>3, <2>4 DEF IInv, Ownership, Up
<1>9. LiveAreValid'
  <2>1. \A m \in Modules : object[m] # None => object[m] \in Paths /\ image'[object[m]] = image[object[m]]
    BY <1>1, <1>5, <1>7, HeldIsCounted
  <2>2. QED
    BY <1>1, <2>1 DEF IInv, LiveAreValid
<1>10. QED
  BY <1>2, <1>3, <1>4, <1>8, <1>9 DEF IInv

\* make_shared and the store: the new module starts with two owners, and the
\* loader's handle becomes the module's.
LEMMA PublishIInv ==
  ASSUME IInv, NEW l \in Loaders, Publish(l)
  PROVE  IInv'
<1> DEFINE result == <<l, "result">>
           old    == <<l, "old">>
           p      == handle[l]
<1> PICK n \in Modules :
      /\ object[n] = None
      /\ object' = [object EXCEPT ![n] = p]
      /\ strong' = [strong EXCEPT ![n] = 2]
      /\ ref' = [ref EXCEPT ![Current] = n, ![result] = n, ![old] = ref[Current]]
  BY DEF Publish
<1>0. /\ l \in Threads /\ l # Manager /\ l \notin Readers
      /\ None \notin Modules \cup Paths
      /\ Current \in Holders /\ result \in Holders /\ old \in Holders
      /\ result # Current /\ old # Current /\ result # old
  BY ModuleManagerAssumption, HoldersDiffer DEF Threads
<1>1. /\ pc[l] = "built" /\ p \in Paths /\ image[p] \in ValidImages
      /\ ref[result] = None /\ ref[old] = None
  BY <1>0, HeldIsCounted DEF Publish, IInv, Ownership, LoaderOwns, Loading
<1>2. /\ UNCHANGED <<disk, opens, image, reload, observers, todo, view>>
      /\ \A g \in Holders \ {Current, result, old} : ref'[g] = ref[g]
      /\ ref'[Current] = n /\ ref'[result] = n /\ ref'[old] = ref[Current]
      /\ \A t \in Threads \ {l} : pc'[t] = pc[t] /\ handle'[t] = handle[t]
      /\ handle'[l] = None
      /\ pc'[l] = IF ref[Current] = None THEN "notify" ELSE "retire"
  BY <1>0 DEF IInv, TypeOK, Publish, Goto, library, events
<1>3. TypeOK'
  <2>1. object' \in [Modules -> Paths \cup {None}] /\ strong' \in [Modules -> Nat]
    BY <1>1 DEF IInv, TypeOK
  <2>2. ref' \in [Holders -> Modules \cup {None}]
    BY <1>0 DEF IInv, TypeOK
  <2>3. handle' \in [Threads -> Paths \cup {None}]
    BY <1>0 DEF IInv, TypeOK, Publish
  <2>4. pc' \in [Threads -> {"up", "down", "idle", "opened", "checked", "built",
                            "retire", "notify", "deliver", "returned",
                            "holding", "applying"}]
    BY <1>0 DEF IInv, TypeOK, Publish, Goto
  <2>5. QED
    BY <1>2, <2>1, <2>2, <2>3, <2>4 DEF IInv, TypeOK
<1>4. \A g \in Holders : ref[g] # n
  BY <1>0, HeldIsCounted
<1>5. CountsAreExact'
  <2> SUFFICES ASSUME NEW m \in Modules
               PROVE  strong'[m] = Count(ref', m) /\ (object'[m] = None <=> strong'[m] = 0)
    BY DEF CountsAreExact
  <2> DEFINE kept == {g \in Holders \ {Current, result, old} : ref[g] = m}
  <2>0. DOMAIN ref = Holders /\ DOMAIN ref' = Holders
    BY <1>3 DEF IInv, TypeOK
  <2>1. IsFiniteSet(kept) /\ Cardinality(kept) \in Nat
    <3>1. kept \subseteq Holders
      OBVIOUS
    <3>2. QED
      BY <3>1, FinitelyMany, FS_Subset, FS_CardinalityType
  <2>2. strong[m] = Count(ref, m) /\ (object[m] = None <=> strong[m] = 0)
    BY DEF IInv, CountsAreExact
  <2>3. CASE m = n
    <3>1. {g \in DOMAIN ref' : ref'[g] = m} = {Current} \cup {result}
      BY <1>0, <1>2, <1>4, <2>0, <2>3
    <3>2. Cardinality({Current} \cup {result}) = 2
      <4>1. IsFiniteSet({Current}) /\ Cardinality({Current}) = 1
        BY FS_Singleton
      <4>2. result \notin {Current}
        BY <1>0
      <4>3. Cardinality({Current} \cup {result}) = Cardinality({Current}) + 1
        BY <4>1, <4>2, FS_AddElement
      <4>4. QED
        BY <4>1, <4>3
    <3>3. Count(ref', m) = 2
      BY <3>1, <3>2 DEF Count
    <3>4. strong'[m] = 2 /\ object'[m] = p /\ p # None
      BY <1>0, <1>1, <2>3 DEF IInv, TypeOK
    <3>5. QED
      BY <3>3, <3>4
  <2>4. CASE m # n
    <3>1. strong'[m] = strong[m] /\ object'[m] = object[m]
      BY <2>4 DEF IInv, TypeOK
    <3>2. CASE ref[Current] = m
      <4>1. {g \in DOMAIN ref : ref[g] = m} = kept \cup {Current}
        BY <1>0, <1>1, <2>0, <3>2
      <4>2. {g \in DOMAIN ref' : ref'[g] = m} = kept \cup {old}
        BY <1>0, <1>2, <2>0, <2>4, <3>2
      <4>3. Cardinality(kept \cup {Current}) = Cardinality(kept) + 1
        BY <2>1, FS_AddElement
      <4>4. Cardinality(kept \cup {old}) = Cardinality(kept) + 1
        BY <2>1, FS_AddElement
      <4>5. QED
        BY <2>2, <3>1, <4>1, <4>2, <4>3, <4>4 DEF Count
    <3>3. CASE ref[Current] # m
      <4>1. {g \in DOMAIN ref : ref[g] = m} = {g \in DOMAIN ref' : ref'[g] = m}
        BY <1>0, <1>1, <1>2, <2>0, <2>4, <3>3
      <4>2. QED
        BY <2>2, <3>1, <4>1 DEF Count
    <3>4. QED
      BY <3>2, <3>3
  <2>5. QED
    BY <2>3, <2>4
<1>6. OpensAreOwned'
  <2> SUFFICES ASSUME NEW q \in Paths
               PROVE  opens'[q] = Count(handle', q) + Count(object', q)
    BY DEF OpensAreOwned
  <2>1. ChangedAt(l, handle, handle') /\ handle'[l] = None
    BY <1>0, <1>2, <1>3 DEF IInv, TypeOK, ChangedAt
  <2>2. ChangedAt(n, object, object') /\ object'[n] = p
    BY <1>3 DEF IInv, TypeOK, ChangedAt
  <2>3. /\ q = p => Count(handle', q) = Count(handle, q) - 1
        /\ q # p => Count(handle', q) = Count(handle, q)
    <3>1. handle'[l] # q /\ handle[l] = p
      BY <1>0, <2>1
    <3>2. QED
      BY <1>0, <2>1, <3>1, HandleCountChange DEF IInv
  <2>4. /\ q = p => Count(object', q) = Count(object, q) + 1
        /\ q # p => Count(object', q) = Count(object, q)
    <3>1. object[n] # q
      BY <1>0
    <3>2. QED
      BY <2>2, <3>1, ObjectCountChange DEF IInv
  <2>5. Count(handle, q) \in Nat /\ Count(object, q) \in Nat
    BY CountsAreNat DEF IInv
  <2>6. opens'[q] = opens[q] /\ opens[q] = Count(handle, q) + Count(object, q)
    BY <1>2 DEF IInv, OpensAreOwned
  <2>7. QED
    BY <2>3, <2>4, <2>5, <2>6
<1>7. Ownership'
  <2>1. ASSUME NEW k \in Loaders, k # l PROVE LoaderOwns(k)'
    <3>1. k \in Threads \ {l}
      BY <2>1 DEF Threads
    <3>2. <<k, "result">> \notin {Current, result, old} /\ <<k, "old">> \notin {Current, result, old}
      <4>1. <<k, "result">>[1] = k /\ <<k, "old">>[1] = k /\ result[1] = l /\ old[1] = l
        OBVIOUS
      <4>2. QED
        BY <2>1, <4>1, HoldersDiffer
    <3>3. QED
      BY <1>2, <3>1, <3>2, HoldersDiffer, LoaderFrame DEF IInv, Ownership
  <2>2. LoaderOwns(l)'
    BY <1>0, <1>2 DEF LoaderOwns, Loading
  <2>3. ASSUME NEW r \in Readers PROVE WorkerOwns(r)'
    <3>1. r \in Threads \ {l}
      BY <1>0 DEF Threads
    <3>2. <<r, "snapshot">> \notin {Current, result, old}
      BY HoldersDiffer
    <3>3. QED
      BY <1>2, <3>1, <3>2, HoldersDiffer, WorkerFrame DEF IInv, Ownership
  <2>4. pc'[Manager] = pc[Manager] /\ handle'[Manager] = handle[Manager]
    BY <1>0, <1>2 DEF Threads
  <2>5. QED
    BY <2>1, <2>2, <2>3, <2>4 DEF IInv, Ownership, Up
<1>8. LiveAreValid'
  BY <1>1, <1>2 DEF IInv, TypeOK, LiveAreValid
<1>9. QED
  BY <1>3, <1>5, <1>6, <1>7, <1>8 DEF IInv

-----------------------------------------------------------------------------
(* Every step preserves the invariant *)

\* One step per action: the quiet ones together, the others by their lemmas.
LEMMA NextIInv == IInv /\ [Next]_vars => IInv'
<1> SUFFICES ASSUME IInv, [Next]_vars PROVE IInv'
  OBVIOUS
<1>1. ASSUME NEW l \in Loaders, Load(l) PROVE IInv'
  <2>0. l \in Threads /\ LoaderOwns(l)
    BY DEF Threads, IInv, Ownership
  <2>1. CASE \E p \in Paths : Open(l, p)
    BY <2>1, OpenIInv
  <2>2. CASE Publish(l)
    BY <2>2, PublishIInv
  <2>3. CASE RetireOld(l)
    <3>1. /\ pc[l] = "retire" /\ Drop(<<l, "old">>, l, "notify")
          /\ ref[<<l, "old">>] # None /\ handle[l] = None
      BY <2>0, <2>3 DEF RetireOld, LoaderOwns
    <3>2. QED
      BY <2>0, <3>1, DropIInv, HoldersDiffer
  <2>4. CASE DropResult(l)
    <3>1. /\ pc[l] = "returned" /\ Drop(<<l, "result">>, l, "idle")
          /\ ref[<<l, "result">>] # None /\ handle[l] = None
      BY <2>0, <2>4 DEF DropResult, LoaderOwns
    <3>2. QED
      BY <2>0, <3>1, DropIInv, HoldersDiffer
  <2>5. CASE \/ \E p \in Paths : OpenFails(l, p)
             \/ Validate(l) \/ Reject(l) \/ ReadCurrent(l) \/ BeginNotify(l)
             \/ \E o \in Observers : Deliver(l, o)
             \/ Return(l)
    BY <2>5, QuietLoadIInv
  <2>6. QED
    BY <1>1, <2>1, <2>2, <2>3, <2>4, <2>5 DEF Load
<1>2. ASSUME NEW r \in Readers, Work(r) PROVE IInv'
  <2>1. CASE Snapshot(r)
    BY <2>1, SnapshotIInv
  <2>2. CASE BeginApply(r) \/ EndApply(r)
    BY <2>2, QuietRestIInv
  <2>3. CASE Release(r)
    <3>1. /\ pc[r] = "holding" /\ Drop(<<r, "snapshot">>, r, "idle")
          /\ ref[<<r, "snapshot">>] # None /\ handle[r] = None /\ r \in Threads
      BY <2>3 DEF Release, IInv, Ownership, WorkerOwns, Threads
    <3>2. QED
      BY <3>1, DropIInv, HoldersDiffer
  <2>4. QED
    BY <1>2, <2>1, <2>2, <2>3 DEF Work
<1>3. CASE Destroy
  <2>1. CASE ref[Current] = None
    <3>1. /\ UNCHANGED <<opens, image, object, strong, ref, handle>>
          /\ UNCHANGED <<disk, reload, observers, todo, view>>
          /\ pc' = [pc EXCEPT ![Manager] = "down"] /\ Manager \in Threads
      BY <1>3, <2>1 DEF Destroy, Goto, library, counts, events, Threads
    <3>2. TypeOK'
      BY <3>1 DEF IInv, TypeOK
    <3>3. \A t \in Loaders \cup Readers : t \in Threads \ {Manager} /\ pc'[t] = pc[t]
      BY <3>1, ModuleManagerAssumption DEF IInv, TypeOK, Threads
    <3>4. (\A l \in Loaders : LoaderOwns(l)') /\ (\A r \in Readers : WorkerOwns(r)')
      BY <3>1, <3>3 DEF IInv, Ownership, LoaderOwns, WorkerOwns
    <3>5. Ownership'
      BY <3>1, <3>4 DEF IInv, TypeOK, Ownership, Up
    <3>6. QED
      BY <3>1, <3>2, <3>5, BalancesKept DEF IInv
  <2>2. CASE ref[Current] # None
    <3>1. /\ pc[Manager] = "up" /\ handle[Manager] = None /\ Manager \in Threads
          /\ Drop(Current, Manager, "down")
      BY <1>3, <2>2 DEF Destroy, IInv, Ownership, Up, Threads
    <3>2. QED
      BY <2>2, <3>1, DropIInv, HoldersDiffer
  <2>3. QED
    BY <2>1, <2>2
<1>4. CASE UNCHANGED vars
  <2>1. /\ UNCHANGED <<opens, image, object, strong, ref, handle>>
        /\ UNCHANGED <<disk, pc, reload, observers, todo, view>>
    BY <1>4 DEF vars
  <2>2. TypeOK' /\ Ownership'
    BY <2>1 DEF IInv, TypeOK, Ownership, LoaderOwns, WorkerOwns, Up
  <2>3. QED
    BY <2>1, <2>2, BalancesKept DEF IInv
<1>5. QED
  BY <1>1, <1>2, <1>3, <1>4, QuietRestIInv, DlcloseIInv DEF Next

\* The inductive invariant holds of every reachable state.
THEOREM InvariantHolds == Spec => []IInv
BY InitIInv, NextIInv, PTL DEF Spec

\* Every variable keeps its type: use counts and opens never go below zero.
THEOREM TypeCorrect == Spec => []TypeOK
<1>1. IInv => TypeOK
  BY DEF IInv
<1>2. QED
  BY <1>1, InvariantHolds, PTL

\* dlopen and dlclose are paired on every path of load, success or failure.
THEOREM HandlesBalance == Spec => []OpensAreOwned
<1>1. IInv => OpensAreOwned
  BY DEF IInv
<1>2. QED
  BY <1>1, InvariantHolds, PTL

\* A module is deleted exactly when its last shared_ptr goes.
THEOREM OwnersAreCounted == Spec => []CountsAreExact
<1>1. IInv => CountsAreExact
  BY DEF IInv
<1>2. QED
  BY <1>1, InvariantHolds, PTL

\* No snapshot, nor current(), ever leads into an unmapped library
\* (module_manager.hpp:12-13).
LEMMA HeldIsMappedInv == IInv => HeldIsMapped
<1> SUFFICES ASSUME IInv, NEW h \in Holders, ref[h] # None
             PROVE  /\ object[ref[h]] # None /\ opens[object[ref[h]]] > 0
                    /\ image[object[ref[h]]] \in ValidImages
  BY DEF HeldIsMapped, CodeOf
<1>1. ref[h] \in Modules /\ object[ref[h]] \in Paths /\ object[ref[h]] # None
  BY HeldIsCounted, ModuleManagerAssumption
<1>2. opens[object[ref[h]]] > 0 /\ image[object[ref[h]]] \in ValidImages
  BY <1>1, HeldIsCounted DEF IInv, LiveAreValid
<1>3. QED
  BY <1>1, <1>2

\* What HeldIsMapped says, of every reachable state.
THEOREM SnapshotsStayMapped == Spec => []HeldIsMapped
BY HeldIsMappedInv, InvariantHolds, PTL

-----------------------------------------------------------------------------
(* What a step may never do *)

\* Only the dlclose that takes the count of opens to zero, or the dlopen that
\* leaves it, changes what is mapped for a path; neither happens to a library
\* of a module alive before and after (recompiling a file does not either).
LEMMA MappedCodeStays ==
  ASSUME IInv, IInv', [Next]_vars, NEW m \in Modules,
         object[m] # None, object'[m] = object[m]
  PROVE  image'[object[m]] = image[object[m]]
<1> DEFINE p == object[m]
<1>0. p \in Paths /\ opens[p] > 0 /\ opens'[p] > 0
  <2>1. p \in Paths /\ opens[p] > 0
    BY HeldIsCounted
  <2>2. Count(object', p) \in Nat /\ Count(object', p) # 0 /\ Count(handle', p) \in Nat
    BY FinitelyMany, ModuleManagerAssumption, CountIsNat DEF IInv, TypeOK
  <2>3. opens'[p] = Count(handle', p) + Count(object', p)
    BY <2>1 DEF IInv, OpensAreOwned
  <2>4. QED
    BY <2>1, <2>2, <2>3
<1>1. CASE \E l \in Loaders, q \in Paths : Open(l, q)
  BY <1>0, <1>1 DEF Open, IInv, TypeOK
<1>2. CASE \E t \in Threads : Dlclose(t)
  <2> PICK t \in Threads : Dlclose(t)
    BY <1>2
  <2>1. CASE handle[t] = p
    <3>1. opens[p] # 1
      BY <1>0, <2>1 DEF Dlclose, IInv, TypeOK
    <3>2. QED
      BY <1>0, <2>1, <3>1 DEF Dlclose, IInv, TypeOK
  <2>2. CASE handle[t] # p
    BY <1>0, <2>2 DEF Dlclose, IInv, TypeOK
  <2>3. QED
    BY <2>1, <2>2
<1>3. CASE ~ (\E l \in Loaders, q \in Paths : Open(l, q)) /\ ~ (\E t \in Threads : Dlclose(t))
  BY <1>3 DEF Next, vars, Load, Work, WriteFile, OpenFails, Validate, Reject, ReadCurrent,
              Publish, RetireOld, BeginNotify, Deliver, Return, DropResult, Drop, Snapshot,
              BeginApply, EndApply, Release, Subscribe, Unsubscribe, Destroy, library
<1>4. QED
  BY <1>1, <1>2, <1>3

\* A step that does not move a shared_ptr does not change the code under it.
LEMMA CodeStays ==
  ASSUME IInv, IInv', [Next]_vars, NEW h \in Holders, ref[h] # None, ref'[h] = ref[h]
  PROVE  CodeOf(h)' = CodeOf(h)
<1> DEFINE m == ref[h]
<1>1. m \in Modules /\ object[m] \in Paths /\ object'[m] \in Paths
  <2>1. m \in Modules /\ object[m] \in Paths
    BY HeldIsCounted
  <2>2. Count(ref', m) \in Nat /\ Count(ref', m) # 0
    BY FinitelyMany, CountIsNat DEF IInv, TypeOK
  <2>3. object'[m] # None
    BY <2>1, <2>2 DEF IInv, CountsAreExact
  <2>4. QED
    BY <2>1, <2>3 DEF IInv, TypeOK
<1>2. object'[m] = object[m]
  <2>1. object[m] # None /\ object'[m] # None
    BY <1>1, ModuleManagerAssumption
  <2>2. CASE \E l \in Loaders : Publish(l)
    BY <1>1, <2>1, <2>2 DEF Publish, IInv, TypeOK
  <2>3. CASE \E g, t, after : Drop(g, t, after)
    BY <1>1, <2>1, <2>3 DEF Drop, IInv, TypeOK
  <2>4. CASE UNCHANGED object
    BY <2>4
  <2>5. QED
    BY <2>2, <2>3, <2>4
    DEF Next, vars, Load, Work, WriteFile, Open, OpenFails, Validate, Reject, ReadCurrent,
        RetireOld, Dlclose, BeginNotify, Deliver, Return, DropResult, Snapshot,
        BeginApply, EndApply, Release, Subscribe, Unsubscribe, Destroy, counts
<1>3. image'[object[m]] = image[object[m]]
  BY <1>1, <1>2, MappedCodeStays, ModuleManagerAssumption
<1>4. QED
  BY <1>2, <1>3 DEF CodeOf

\* A worker runs the code it took the snapshot of for as long as it holds it.
THEOREM CodeIsStable == Spec => SnapshotsKeepTheirCode
<1>1. IInv /\ IInv' /\ [Next]_vars =>
        [\A h \in Holders : ref[h] # None /\ ref'[h] = ref[h] => CodeOf(h)' = CodeOf(h)]_vars
  BY CodeStays
<1>2. QED
  BY <1>1, InvariantHolds, PTL DEF Spec, SnapshotsKeepTheirCode

-----------------------------------------------------------------------------
(* The manager implements the hot-swap contract *)

\* The abstract state, under names of its own.
Using == [u \in Readers \cup Loaders |-> ref[Slot(u)]]
Alive == {m \in Modules : object[m] # None}

\* Whatever a shared_ptr points to is alive.
HeldAlive == \A h \in Holders : ref[h] # None => ref[h] \in Alive

\* current(), snapshots, results and displaced modules are all undeleted.
LEMMA HeldIsAlive == IInv => HeldAlive
BY HeldIsCounted, ModuleManagerAssumption DEF HeldAlive, Alive

\* Every user of the contract has a shared_ptr of its own, none of them current_.
LEMMA SlotsDiffer ==
  \A u \in Readers \cup Loaders :
    /\ Slot(u) \in Holders \ {Current}
    /\ \A w \in Readers \cup Loaders : w # u => Slot(w) # Slot(u)
<1> SUFFICES ASSUME NEW u \in Readers \cup Loaders
             PROVE  /\ Slot(u) \in Holders \ {Current}
                    /\ \A w \in Readers \cup Loaders : w # u => Slot(w) # Slot(u)
  OBVIOUS
<1>1. Slot(u) \in Holders \ {Current}
  BY HoldersDiffer DEF Slot
<1>2. \A w : Slot(w)[1] = w
  BY DEF Slot
<1>3. QED
  BY <1>1, <1>2

\* A step that only lets shared_ptrs go keeps what is still wanted.
LEMMA DropReclaims ==
  ASSUME IInv, IInv', NEW h, NEW t, NEW after, Drop(h, t, after)
  PROVE  Contract!Reclaim
<1>1. Alive' \subseteq Alive
  BY DEF Drop, Alive, IInv, TypeOK
<1>2. \A g \in Holders : ref'[g] # None => ref'[g] \in Alive'
  <2>1. HeldAlive'
    BY HeldIsAlive, PTL
  <2>2. QED
    BY <2>1 DEF HeldAlive
<1>3. \A u \in Readers \cup Loaders : ref'[Slot(u)] # None => ref'[Slot(u)] \in Alive'
  BY <1>2, SlotsDiffer
<1>4. None \notin Alive
  BY ModuleManagerAssumption DEF Alive
<1>5. Contract!Wanted' \cap Alive \subseteq Alive'
  BY <1>2, <1>3, <1>4, HoldersDiffer DEF Contract!Wanted
<1>6. QED
  BY <1>1, <1>5 DEF Contract!Reclaim, Alive

\* Dropping the shared_ptr of user u is the contract's Release(u).
LEMMA DropIsRelease ==
  ASSUME IInv, IInv', NEW u \in Readers \cup Loaders, NEW t, NEW after,
         Drop(Slot(u), t, after)
  PROVE  Contract!Release(u)
<1>1. UNCHANGED ref[Current]
  BY SlotsDiffer DEF Drop
<1>2. Using' = [Using EXCEPT ![u] = None]
  <2>1. \A w \in Readers \cup Loaders : ref'[Slot(w)] = IF w = u THEN None ELSE ref[Slot(w)]
    BY SlotsDiffer DEF Drop, IInv, TypeOK
  <2>2. QED
    BY <2>1 DEF Using
<1>3. QED
  BY <1>1, <1>2, DropReclaims DEF Contract!Release, Using

\* Every step of a thread is a step of the contract, or none that it shows.
LEMMA NextImplements ==
  ASSUME IInv, IInv', [Next]_vars
  PROVE  [Contract!Next]_(Contract!vars)
<1>1. ASSUME NEW l \in Loaders, Publish(l) PROVE Contract!Next
  <2> PICK n \in Modules :
        /\ object[n] = None
        /\ object' = [object EXCEPT ![n] = handle[l]]
        /\ ref' = [ref EXCEPT ![Current] = n, ![<<l, "result">>] = n,
                              ![<<l, "old">>] = ref[Current]]
    BY <1>1 DEF Publish
  <2>1. /\ ref'[Current] = n
        /\ \A g \in Holders \ {Current, <<l, "result">>, <<l, "old">>} : ref'[g] = ref[g]
        /\ ref'[<<l, "result">>] = n
    BY HoldersDiffer DEF IInv, TypeOK
  <2>2. Slot(l) = <<l, "result">> /\ \A u \in Readers \cup Loaders : Slot(u) # <<l, "old">>
    BY ModuleManagerAssumption DEF Slot
  <2>3. Using' = [Using EXCEPT ![l] = n]
    <3>1. \A u \in Readers \cup Loaders : ref'[Slot(u)] = IF u = l THEN n ELSE ref[Slot(u)]
      BY <2>1, <2>2, SlotsDiffer
    <3>2. QED
      BY <3>1 DEF Using
  <2>4. Alive' = Alive \cup {n} /\ n \notin Alive
    <3>1. handle[l] # None
      BY <1>1 DEF Publish, IInv, Ownership, LoaderOwns, Loading
    <3>2. QED
      BY <3>1 DEF Alive, IInv, TypeOK
  <2>5. Contract!Install(l, n)
    BY <2>1, <2>3, <2>4 DEF Contract!Install, Using, Alive
  <2>6. QED
    BY <2>5 DEF Contract!Next
<1>2. ASSUME NEW r \in Readers, Snapshot(r) PROVE Contract!Next
  <2>1. Slot(r) = <<r, "snapshot">>
    BY DEF Slot
  <2>2. Using' = [Using EXCEPT ![r] = ref[Current]]
    <3>1. \A u \in Readers \cup Loaders :
            ref'[Slot(u)] = IF u = r THEN ref[Current] ELSE ref[Slot(u)]
      BY <1>2, <2>1, SlotsDiffer DEF Snapshot, IInv, TypeOK
    <3>2. QED
      BY <3>1 DEF Using
  <2>3. UNCHANGED <<ref[Current], Alive>>
    BY <1>2, HoldersDiffer DEF Snapshot, Alive
  <2>4. Contract!Acquire(r)
    BY <1>2, <2>2, <2>3 DEF Contract!Acquire, Snapshot, Using, Alive
  <2>5. QED
    BY <2>4 DEF Contract!Next
<1>3. ASSUME NEW l \in Loaders, RetireOld(l) PROVE Contract!Next
  <2>1. Drop(<<l, "old">>, l, "notify")
    BY <1>3 DEF RetireOld
  <2>2. UNCHANGED <<ref[Current], Using>>
    <3>1. \A u \in Readers \cup Loaders : Slot(u) # <<l, "old">>
      BY ModuleManagerAssumption DEF Slot
    <3>2. QED
      BY <2>1, <3>1, SlotsDiffer, HoldersDiffer DEF Drop, Using, IInv, TypeOK
  <2>3. Contract!Collect
    BY <2>1, <2>2, DropReclaims DEF Contract!Collect, Using
  <2>4. QED
    BY <2>3 DEF Contract!Next
<1>4. ASSUME NEW l \in Loaders, DropResult(l) PROVE Contract!Next
  <2>1. Drop(Slot(l), l, "idle")
    BY <1>4, ModuleManagerAssumption DEF DropResult, Slot
  <2>2. QED
    BY <2>1, DropIsRelease DEF Contract!Next
<1>5. ASSUME NEW r \in Readers, Release(r) PROVE Contract!Next
  <2>1. Drop(Slot(r), r, "idle")
    BY <1>5 DEF Release, Slot
  <2>2. QED
    BY <2>1, DropIsRelease DEF Contract!Next
<1>6. ASSUME Destroy, ref[Current] # None PROVE Contract!Next
  <2>1. Drop(Current, Manager, "down")
    BY <1>6 DEF Destroy
  <2>2. ref'[Current] = None /\ UNCHANGED Using
    BY <2>1, SlotsDiffer, HoldersDiffer DEF Drop, Using, IInv, TypeOK
  <2>3. Contract!Shutdown
    BY <2>1, <2>2, DropReclaims DEF Contract!Shutdown, Using
  <2>4. QED
    BY <2>3 DEF Contract!Next
<1>7. CASE UNCHANGED <<ref, object>>
  BY <1>7 DEF Contract!vars
<1>8. QED
  BY <1>1, <1>2, <1>3, <1>4, <1>5, <1>6, <1>7
  DEF Next, vars, Load, Work, WriteFile, Open, OpenFails, Validate, Reject, ReadCurrent,
      Dlclose, BeginNotify, Deliver, Return, BeginApply, EndApply, Subscribe, Unsubscribe,
      Destroy, counts

\* Hidden behind handles, use counts and threads, the manager only ever
\* replaces the active module, hands it out, and reclaims what nobody wants.
THEOREM ManagerRefinesHotSwap == Spec => ImplementsHotSwap
<1>1. Init => Contract!Init
  BY SlotsDiffer, HoldersDiffer DEF Init, Contract!Init
<1>2. IInv /\ IInv' /\ [Next]_vars => [Contract!Next]_(Contract!vars)
  BY NextImplements
<1>3. QED
  BY <1>1, <1>2, InvariantHolds, PTL DEF Spec, ImplementsHotSwap, Contract!Spec

-----------------------------------------------------------------------------
(* Observers *)

\* Load l has published a module of which it has still to tell o.
NotTold(l, o) ==
  /\ ref[<<l, "result">>] # None
  /\ pc[l] \in {"retire", "notify"} \/ (pc[l] = "deliver" /\ o \in todo[l])

\* What o was shown when it was last told is still current, or some load is
\* going to tell it.
Informed(o) == view[o] \in {None, ref[Current]} \/ \E l \in Loaders : NotTold(l, o)

\* Loads take place while the manager exists, and all observers are Informed.
AllInformed ==
  /\ \A l \in Loaders : pc[l] \notin {"idle", "returned"} => Up
  /\ Up => \A o \in observers : Informed(o)

LEMMA InitInformed == Init => AllInformed
<1>1. ASSUME Init PROVE \A l \in Loaders : pc[l] = "idle"
  BY <1>1, ModuleManagerAssumption DEF Init, Threads
<1>2. QED
  BY <1>1 DEF Init, AllInformed

\* A shared_ptr is released: every other one stays as it is.
LEMMA DropFrame ==
  ASSUME IInv, NEW h \in Holders, NEW t \in Threads, NEW at, Drop(h, t, at)
  PROVE  /\ ref'[h] = None /\ \A k \in Holders \ {h} : ref'[k] = ref[k]
         /\ pc'[t] = at /\ \A u \in Threads \ {t} : pc'[u] = pc[u]
         /\ UNCHANGED <<reload, observers, todo, view>>
<1>1. ref' = [ref EXCEPT ![h] = None] /\ pc' = [pc EXCEPT ![t] = at]
      /\ UNCHANGED <<reload, observers, todo, view>>
  BY DEF Drop, Goto, events
<1>2. QED
  BY <1>1 DEF IInv, TypeOK

\* A step keeps observers informed that neither replaces the current module nor
\* lets a load that had to tell somebody forget it, and after which whoever is
\* registered was, or has been told of nothing yet.
LEMMA InformedFrame ==
  ASSUME AllInformed, Up, Up', ref'[Current] = ref[Current],
         \A o \in observers' : view'[o] = None \/ view'[o] = ref[Current]
                                 \/ (o \in observers /\ view'[o] = view[o]),
         \A l \in Loaders, o \in observers \cap observers' :
           NotTold(l, o) => NotTold(l, o)' \/ view'[o] = ref[Current]
  PROVE  \A o \in observers' : Informed(o)'
BY DEF AllInformed, Informed, Current

LEMMA LoadInforms ==
  ASSUME IInv, NEW l \in Loaders, AllInformed, Load(l)
  PROVE  AllInformed'
<1> DEFINE res(k) == <<k, "result">>
<1>1. /\ l \in Threads /\ Manager \in Threads /\ l # Manager
      /\ Current \in Holders /\ <<l, "old">> \in Holders /\ <<l, "old">> # Current
      /\ \A k \in Loaders : /\ k \in Threads /\ res(k) \in Holders
                            /\ res(k) \notin {Current, <<l, "old">>} /\ (k # l => res(k) # res(l))
  BY ModuleManagerAssumption, HoldersDiffer DEF Threads
<1>2. LoaderOwns(l) /\ TypeOK
  BY DEF IInv, Ownership
<1>3. ASSUME NEW at, Goto(l, at)
      PROVE  pc'[l] = at /\ Up' = Up /\ \A k \in Loaders \ {l} : pc'[k] = pc[k]
  BY <1>1, <1>2, <1>3 DEF Goto, TypeOK, Up
<1>4. CASE (\E p \in Paths : Open(l, p)) \/ (\E p \in Paths : OpenFails(l, p))
             \/ Validate(l) \/ Reject(l) \/ ReadCurrent(l)
  <2>1. /\ pc[l] \in {"idle", "opened", "checked"} /\ Up
        /\ UNCHANGED <<ref, observers, todo, view>>
        /\ Up' = Up /\ \A k \in Loaders \ {l} : pc'[k] = pc[k]
    BY <1>2, <1>3, <1>4
    DEF Open, OpenFails, Validate, Reject, ReadCurrent, Ready, counts, events, AllInformed
  <2>2. \A k \in Loaders, o \in observers : NotTold(k, o) => NotTold(k, o)'
    BY <2>1 DEF NotTold
  <2>3. QED
    BY <2>1, <2>2, InformedFrame DEF AllInformed
<1>5. CASE Publish(l)
  <2>1. PICK m \in Modules :
          ref' = [ref EXCEPT ![Current] = m, ![res(l)] = m, ![<<l, "old">>] = ref[Current]]
    BY <1>5 DEF Publish
  <2>2. ref'[res(l)] = m /\ m # None
    BY <1>1, <1>2, <2>1, ModuleManagerAssumption DEF TypeOK
  <2>3. Up /\ Up' /\ pc'[l] \in {"retire", "notify"}
    BY <1>3, <1>5 DEF Publish, AllInformed
  <2>4. \A o \in observers' : NotTold(l, o)'
    BY <2>2, <2>3 DEF NotTold
  <2>5. QED
    BY <2>3, <2>4 DEF AllInformed, Informed
<1>6. CASE RetireOld(l)
  <2>1. /\ pc[l] = "retire" /\ pc'[l] = "notify"
        /\ \A k \in Holders \ {<<l, "old">>} : ref'[k] = ref[k]
        /\ \A u \in Threads \ {l} : pc'[u] = pc[u]
        /\ UNCHANGED <<observers, todo, view>>
    BY <1>1, <1>6, DropFrame DEF RetireOld
  <2>2. Up /\ Up' /\ ref'[Current] = ref[Current] /\ \A k \in Loaders : ref'[res(k)] = ref[res(k)]
    BY <1>1, <2>1 DEF Up, AllInformed
  <2>3. \A k \in Loaders, o \in observers : NotTold(k, o) => NotTold(k, o)'
    BY <1>1, <2>1, <2>2 DEF NotTold
  <2>4. QED
    BY <2>1, <2>2, <2>3, InformedFrame DEF AllInformed
<1>7. CASE BeginNotify(l)
  <2>1. /\ pc[l] = "notify" /\ pc'[l] = "deliver" /\ Up' = Up
        /\ todo'[l] = observers /\ \A k \in Loaders \ {l} : todo'[k] = todo[k] /\ pc'[k] = pc[k]
        /\ UNCHANGED <<ref, observers, view>>
    BY <1>2, <1>3, <1>7 DEF BeginNotify, Ready, counts, TypeOK
  <2>2. Up
    BY <2>1 DEF AllInformed
  <2>3. \A k \in Loaders, o \in observers : NotTold(k, o) => NotTold(k, o)'
    BY <2>1 DEF NotTold
  <2>4. QED
    BY <2>1, <2>2, <2>3, InformedFrame DEF AllInformed
<1>8. ASSUME NEW o \in Observers, Deliver(l, o) PROVE AllInformed'
  <2>1. /\ pc[l] = "deliver" /\ UNCHANGED <<pc, ref, observers>>
        /\ todo'[l] = todo[l] \ {o} /\ \A k \in Loaders \ {l} : todo'[k] = todo[k]
    BY <1>2, <1>8 DEF Deliver, counts, TypeOK
  <2>2. Up /\ Up' /\ ref'[Current] = ref[Current]
    BY <2>1 DEF AllInformed, Up
  <2>3. /\ observers \subseteq Observers
        /\ \A x \in Observers \ {o} : view'[x] = view[x]
        /\ IF ref[res(l)] = None THEN view'[o] = view[o] ELSE view'[o] = ref[Current]
    BY <1>2, <1>8 DEF Deliver, EventKind, TypeOK
  <2>4. \A k \in Loaders, x \in observers : NotTold(k, x) => NotTold(k, x)' \/ view'[x] = ref[Current]
    BY <2>1, <2>3 DEF NotTold
  <2>5. QED
    BY <2>1, <2>2, <2>3, <2>4, InformedFrame DEF AllInformed
<1>9. CASE Return(l)
  <2>1. /\ pc[l] = "deliver" /\ todo[l] = {} /\ pc'[l] \in {"idle", "returned"} /\ Up' = Up
        /\ UNCHANGED <<ref, observers, todo, view>> /\ \A k \in Loaders \ {l} : pc'[k] = pc[k]
    BY <1>2, <1>3, <1>9 DEF Return, counts, events
  <2>2. Up
    BY <2>1 DEF AllInformed
  <2>3. \A k \in Loaders, o \in observers : NotTold(k, o) => NotTold(k, o)'
    BY <2>1 DEF NotTold
  <2>4. QED
    BY <2>1, <2>2, <2>3, InformedFrame DEF AllInformed
<1>10. CASE DropResult(l)
  <2>1. /\ pc[l] = "returned" /\ pc'[l] = "idle"
        /\ \A k \in Holders \ {res(l)} : ref'[k] = ref[k]
        /\ \A u \in Threads \ {l} : pc'[u] = pc[u]
        /\ UNCHANGED <<observers, todo, view>>
    BY <1>1, <1>10, DropFrame DEF DropResult
  <2>2. Up' = Up /\ ref'[Current] = ref[Current]
        /\ \A k \in Loaders \ {l} : ref'[res(k)] = ref[res(k)]
    BY <1>1, <2>1 DEF Up
  <2>3. \A k \in Loaders, o \in observers : NotTold(k, o) => NotTold(k, o)'
    BY <1>1, <2>1, <2>2 DEF NotTold
  <2>4. CASE Up
    BY <1>1, <2>1, <2>2, <2>3, <2>4, InformedFrame DEF AllInformed
  <2>5. CASE ~Up
    BY <1>1, <2>1, <2>2, <2>5 DEF AllInformed
  <2>6. QED
    BY <2>4, <2>5
<1>11. QED
  BY <1>4, <1>5, <1>6, <1>7, <1>8, <1>9, <1>10 DEF Load

LEMMA NextInforms == IInv /\ AllInformed /\ [Next]_vars => AllInformed'
<1> SUFFICES ASSUME IInv, AllInformed, [Next]_vars PROVE AllInformed'
  OBVIOUS
<1>1. /\ Manager \in Threads /\ Current \in Holders
      /\ \A l \in Loaders : l \in Threads \ {Manager} /\ <<l, "result">> \in Holders \ {Current}
      /\ \A r \in Readers : /\ r \in Threads \ {Manager} /\ r \notin Loaders
                            /\ <<r, "snapshot">> \in Holders \ {Current}
                            /\ \A l \in Loaders : <<r, "snapshot">> # <<l, "result">>
  BY ModuleManagerAssumption, HoldersDiffer DEF Threads, Holders
<1>2. TypeOK
  BY DEF IInv
\* The workers, the files and dlclose leave loads, observers and current_ alone.
<1>3. ASSUME /\ \A l \in Loaders : pc'[l] = pc[l] /\ ref'[<<l, "result">>] = ref[<<l, "result">>]
             /\ Up' = Up /\ ref'[Current] = ref[Current] /\ UNCHANGED <<observers, todo, view>>
      PROVE  AllInformed'
  <2>1. \A l \in Loaders, o \in observers : NotTold(l, o) => NotTold(l, o)'
    BY <1>3 DEF NotTold
  <2>2. CASE Up
    BY <1>3, <2>1, <2>2, InformedFrame DEF AllInformed
  <2>3. CASE ~Up
    BY <1>3, <2>3 DEF AllInformed
  <2>4. QED
    BY <2>2, <2>3
<1>4. ASSUME NEW r \in Readers, Work(r) PROVE AllInformed'
  <2>1. CASE Release(r)
    <3>1. /\ \A k \in Holders \ {<<r, "snapshot">>} : ref'[k] = ref[k]
          /\ \A u \in Threads \ {r} : pc'[u] = pc[u]
          /\ UNCHANGED <<observers, todo, view>>
      BY <1>1, <2>1, DropFrame DEF Release
    <3>2. QED
      BY <1>1, <1>3, <3>1 DEF Up
  <2>2. CASE Snapshot(r)
    <3>1. /\ ref' = [ref EXCEPT ![<<r, "snapshot">>] = ref[Current]]
          /\ pc' = [pc EXCEPT ![r] = "holding"]
          /\ UNCHANGED <<observers, todo, view>>
      BY <2>2 DEF Snapshot, Goto, events
    <3>2. /\ \A l \in Loaders : pc'[l] = pc[l] /\ ref'[<<l, "result">>] = ref[<<l, "result">>]
          /\ ref'[Current] = ref[Current] /\ pc'[Manager] = pc[Manager]
      BY <1>1, <1>2, <3>1 DEF TypeOK
    <3>3. QED
      BY <1>3, <3>1, <3>2 DEF Up
  <2>3. CASE BeginApply(r) \/ EndApply(r)
    <3>1. /\ \E at : pc' = [pc EXCEPT ![r] = at]
          /\ UNCHANGED <<ref, observers, todo, view>>
      BY <2>3 DEF BeginApply, EndApply, Goto, counts, events
    <3>2. pc'[Manager] = pc[Manager] /\ \A l \in Loaders : pc'[l] = pc[l]
      BY <1>1, <1>2, <3>1 DEF TypeOK
    <3>3. QED
      BY <1>3, <3>1, <3>2 DEF Up, Current
  <2>4. QED
    BY <1>4, <2>1, <2>2, <2>3 DEF Work
<1>5. ASSUME NEW o \in Observers, Subscribe(o) \/ Unsubscribe(o) PROVE AllInformed'
  <2>1. UNCHANGED <<ref, pc, todo>> /\ Up /\ Up'
    BY <1>5 DEF Subscribe, Unsubscribe, counts, Up
  <2>2. \A x \in observers' : view'[x] = None \/ (x \in observers /\ view'[x] = view[x])
    <3>1. observers \subseteq Observers /\ view \in [Observers -> Modules \cup {None}]
      BY <1>2 DEF TypeOK
    <3>2. CASE Subscribe(o)
      <4>1. observers' = observers \cup {o} /\ view' = [view EXCEPT ![o] = None]
        BY <3>2 DEF Subscribe
      <4>2. view'[o] = None /\ \A x \in Observers \ {o} : view'[x] = view[x]
        BY <3>1, <4>1
      <4>3. QED
        BY <3>1, <4>1, <4>2
    <3>3. CASE Unsubscribe(o)
      BY <3>3 DEF Unsubscribe
    <3>4. QED
      BY <1>5, <3>2, <3>3
  <2>3. \A l \in Loaders, x \in observers : NotTold(l, x) => NotTold(l, x)'
    BY <2>1 DEF NotTold
  <2>4. QED
    BY <2>1, <2>2, <2>3, InformedFrame DEF AllInformed, Current
<1>6. CASE Destroy
  <2>1. \A l \in Loaders : pc[l] \in {"idle", "returned"}
    BY <1>6 DEF Destroy
  <2>2. pc'[Manager] = "down" /\ \A l \in Loaders : pc'[l] = pc[l]
    <3>1. CASE ref[Current] = None
      BY <1>1, <1>2, <1>6, <3>1 DEF Destroy, Goto, TypeOK
    <3>2. CASE ref[Current] # None
      <4>1. Drop(Current, Manager, "down")
        BY <1>6, <3>2 DEF Destroy
      <4>2. QED
        BY <1>1, <4>1, DropFrame
    <3>3. QED
      BY <3>1, <3>2
  <2>3. QED
    BY <2>1, <2>2 DEF AllInformed, Up
<1>7. CASE (\E p \in Paths, i \in Images \cup {None} : WriteFile(p, i)) \/ (\E t \in Threads : Dlclose(t))
  <2>1. UNCHANGED <<ref, pc, observers, todo, view>>
    BY <1>7 DEF WriteFile, Dlclose, counts, events
  <2>2. QED
    BY <1>3, <2>1 DEF Up, Current
<1>8. CASE UNCHANGED vars
  BY <1>3, <1>8 DEF vars, Up, Current
<1>9. QED
  BY <1>4, <1>5, <1>6, <1>7, <1>8, LoadInforms DEF Next

\* For any number of loaders and observers, whichever load stores, takes the
\* list of observers or tells them last: once no load is running, current() has
\* not changed since an observer was last told (load and notify).
THEOREM NoSwapIsMissed == Spec => []ObserversSeeEverySwap
<1>1. Init => AllInformed
  BY InitInformed
<1>2. IInv /\ AllInformed /\ [Next]_vars => AllInformed'
  BY NextInforms
<1>3. AllInformed => ObserversSeeEverySwap
  BY DEF AllInformed, Informed, NotTold, ObserversSeeEverySwap
<1>4. QED
  BY <1>1, <1>2, <1>3, InvariantHolds, PTL DEF Spec
=============================================================================
