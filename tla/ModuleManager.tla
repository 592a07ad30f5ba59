--------------------------- MODULE ModuleManager ---------------------------
(***************************************************************************)
(* The module manager (src/src/module/module_manager.cpp and its header):  *)
(* loader threads dlopen, validate and publish rulesets through one        *)
(* std::atomic<std::shared_ptr<const LoadedModule>>, worker threads take   *)
(* shared_ptr snapshots of it and apply packets, and the destructor of the *)
(* last shared_ptr dlcloses the library.                                   *)
(*                                                                         *)
(* One action per step another thread can observe: a dlopen, a dlclose, an *)
(* atomic load or store of the cell, a reference count reaching zero, a    *)
(* callback.  What the dynamic loader and shared_ptr do is external code,  *)
(* modelled from their contracts: dlopen of a path that is already mapped  *)
(* returns the mapped library and counts one more open.                    *)
(***************************************************************************)
EXTENDS Naturals, FiniteSets

CONSTANTS
  Loaders,      \* threads that call ModuleManager::load
  Readers,      \* worker threads that call current() and apply packets
  Manager,      \* the thread that owns the manager object
  Observers,    \* ModuleObserver objects
  Modules,      \* addresses a LoadedModule can live at; reused after delete
  Paths,        \* file names given to load
  Images,       \* contents a .so file can have
  ValidImages,  \* those with both exports and the host's ABI version
  None          \* nullptr, no file, no handle

ASSUME ModuleManagerAssumption ==
  /\ IsFiniteSet(Loaders) /\ IsFiniteSet(Readers) /\ IsFiniteSet(Modules)
  /\ Loaders \cap Readers = {} /\ Manager \notin Loaders \cup Readers
  /\ ValidImages \subseteq Images
  /\ None \notin Modules \cup Paths \cup Images

VARIABLES
  disk,      \* file system: the image at each path, None when there is no file
  opens,     \* dynamic loader: outstanding dlopen calls per path
  image,     \* dynamic loader: the image mapped for a path with opens > 0
  object,    \* LoadedModule at each address: its library's path, None if free
  strong,    \* shared_ptr use count of each LoadedModule
  ref,       \* the module each shared_ptr points to
  handle,    \* a raw dlopen handle a thread must still hand over or dlclose
  pc,        \* where each thread is
  reload,    \* load's local is_reload
  observers, \* ModuleManager::observers_
  todo,      \* the rest of the snapshot a loader's notify is walking
  view       \* history: what current() was when an observer was last called
             \* about a successful load, None if not since it registered

library == <<disk, opens, image>>
counts  == <<object, strong, ref>>
events  == <<observers, todo, view>>
vars    == <<disk, opens, image, object, strong, ref, handle, pc, reload,
             observers, todo, view>>

Threads == Loaders \cup Readers \cup {Manager}
Current == <<Manager, "current">>   \* ModuleManager::current_
Holders == {Current} \cup (Readers \X {"snapshot"})
                     \cup (Loaders \X {"result", "old"})

\* The three local phases of load in which it owns the handle it opened.
Loading == {"opened", "checked", "built"}

Goto(t, at) == pc' = [pc EXCEPT ![t] = at]

\* A thread with no destructor (dlclose) left to finish stands at this point.
Ready(t, at) == pc[t] = at /\ handle[t] = None

Up == pc[Manager] = "up"

\* What observers are told of the load that thread l is finishing.
EventKind(l) ==
  IF ref[<<l, "result">>] = None THEN "LoadFailed"
  ELSE IF reload[l] THEN "Reloaded" ELSE "Loaded"

Init ==
  /\ disk \in [Paths -> Images \cup {None}]
  /\ opens = [p \in Paths |-> 0]
  /\ image = [p \in Paths |-> None]
  /\ object = [m \in Modules |-> None]
  /\ strong = [m \in Modules |-> 0]
  /\ ref = [h \in Holders |-> None]
  /\ handle = [t \in Threads |-> None]
  /\ pc = [t \in Threads |-> IF t = Manager THEN "up" ELSE "idle"]
  /\ reload = [l \in Loaders |-> FALSE]
  /\ observers = {}
  /\ todo = [l \in Loaders |-> {}]
  /\ view = [o \in Observers |-> None]

-----------------------------------------------------------------------------
(* The file system: a ruleset is compiled to a path, or the file removed.  *)

WriteFile(p, i) ==
  /\ disk[p] # i
  /\ disk' = [disk EXCEPT ![p] = i]
  /\ UNCHANGED <<opens, image, counts, handle, pc, reload, events>>

-----------------------------------------------------------------------------
(* ModuleManager::load                                                     *)

\* dlopen finds the library mapped already, or maps the file.
Open(l, p) ==
  /\ Up /\ Ready(l, "idle")
  /\ opens[p] > 0 \/ disk[p] # None
  /\ opens' = [opens EXCEPT ![p] = @ + 1]
  /\ image' = [image EXCEPT ![p] = IF opens[p] > 0 THEN @ ELSE disk[p]]
  /\ handle' = [handle EXCEPT ![l] = p]
  /\ Goto(l, "opened")
  /\ UNCHANGED <<disk, counts, reload, events>>

OpenFails(l, p) ==
  /\ Up /\ Ready(l, "idle")
  /\ opens[p] = 0 /\ disk[p] = None
  /\ Goto(l, "notify")
  /\ UNCHANGED <<library, counts, handle, reload, events>>

\* hmr_apply and hmr_module_info resolve and the ABI version is the host's.
Validate(l) ==
  /\ pc[l] = "opened"
  /\ image[handle[l]] \in ValidImages
  /\ Goto(l, "checked")
  /\ UNCHANGED <<library, counts, handle, reload, events>>

\* Mutant: the fail lambda forgets its dlclose.
Reject_Leaks(l) ==
  /\ pc[l] = "opened"
  /\ image[handle[l]] \notin ValidImages
  /\ handle' = [handle EXCEPT ![l] = None]
  /\ Goto(l, "notify")
  /\ UNCHANGED <<library, counts, reload, events>>

\* The fail lambda: it still holds the handle, so it dlcloses before notify.
Reject(l) ==
  /\ pc[l] = "opened"
  /\ image[handle[l]] \notin ValidImages
  /\ Goto(l, "notify")
  /\ UNCHANGED <<library, counts, handle, reload, events>>

ReadCurrent(l) ==
  /\ pc[l] = "checked"
  /\ reload' = [reload EXCEPT ![l] = ref[Current] # None]
  /\ Goto(l, "built")
  /\ UNCHANGED <<library, counts, handle, events>>

\* Mutant: the new LoadedModule does not take over the handle, so that load's
\* clean-up dlcloses it as well.
Publish_KeepsHandle(l) ==
  /\ pc[l] = "built"
  /\ \E m \in Modules :
       /\ object[m] = None
       /\ object' = [object EXCEPT ![m] = handle[l]]
       /\ strong' = [strong EXCEPT ![m] = 2]
       /\ ref' = [ref EXCEPT ![Current] = m,
                             ![<<l, "result">>] = m,
                             ![<<l, "old">>] = ref[Current]]
  /\ Goto(l, IF ref[Current] = None THEN "notify" ELSE "retire")
  /\ UNCHANGED <<library, handle, reload, events>>

\* make_shared, then the atomic store: the displaced shared_ptr is released
\* by the storing thread afterwards.
Publish(l) ==
  /\ pc[l] = "built"
  /\ \E m \in Modules :
       /\ object[m] = None
       /\ object' = [object EXCEPT ![m] = handle[l]]
       /\ strong' = [strong EXCEPT ![m] = 2]
       /\ ref' = [ref EXCEPT ![Current] = m,
                             ![<<l, "result">>] = m,
                             ![<<l, "old">>] = ref[Current]]
  /\ handle' = [handle EXCEPT ![l] = None]
  /\ Goto(l, IF ref[Current] = None THEN "notify" ELSE "retire")
  /\ UNCHANGED <<library, reload, events>>

\* Thread t destroys the shared_ptr h and goes on at `after'; the last owner
\* deletes the module, whose destructor still has to dlclose its handle.
Drop(h, t, after) ==
  LET m == ref[h]
  IN  /\ ref' = [ref EXCEPT ![h] = None]
      /\ strong' = [strong EXCEPT ![m] = @ - 1]
      /\ IF strong[m] = 1
         THEN /\ object' = [object EXCEPT ![m] = None]
              /\ handle' = [handle EXCEPT ![t] = object[m]]
         ELSE UNCHANGED <<object, handle>>
      /\ Goto(t, after)
      /\ UNCHANGED <<library, reload, events>>

\* Mutant: the displaced shared_ptr is never released.
RetireOld_Leaks(l) ==
  /\ pc[l] = "retire"
  /\ Goto(l, "notify")
  /\ UNCHANGED <<library, counts, handle, reload, events>>

RetireOld(l) == pc[l] = "retire" /\ Drop(<<l, "old">>, l, "notify")

\* LoadedModule::~LoadedModule, and the dlclose of load's fail lambda.
Dlclose(t) ==
  LET p == handle[t]
  IN  /\ p # None /\ pc[t] \notin Loading
      /\ opens' = [opens EXCEPT ![p] = @ - 1]
      /\ image' = [image EXCEPT ![p] = IF opens[p] = 1 THEN None ELSE @]
      /\ handle' = [handle EXCEPT ![t] = None]
      /\ UNCHANGED <<disk, counts, pc, reload, events>>

\* Mutant: a load leaves its news to a notify that is under way.
BeginNotify_Coalesced(l) ==
  /\ Ready(l, "notify")
  /\ todo' = [todo EXCEPT ![l] = IF \E k \in Loaders : pc[k] = "deliver"
                                 THEN {} ELSE observers]
  /\ Goto(l, "deliver")
  /\ UNCHANGED <<library, counts, handle, reload, observers, view>>

\* notify copies the observer list under observer_mtx_ ...
BeginNotify(l) ==
  /\ Ready(l, "notify")
  /\ todo' = [todo EXCEPT ![l] = observers]
  /\ Goto(l, "deliver")
  /\ UNCHANGED <<library, counts, handle, reload, observers, view>>

\* ... and calls on_module_event outside it, one observer after another.
Deliver(l, o) ==
  /\ pc[l] = "deliver" /\ o \in todo[l]
  /\ todo' = [todo EXCEPT ![l] = @ \ {o}]
  /\ view' = IF EventKind(l) = "LoadFailed"
             THEN view
             ELSE [view EXCEPT ![o] = ref[Current]]
  /\ UNCHANGED <<library, counts, handle, pc, reload, observers>>

Return(l) ==
  /\ pc[l] = "deliver" /\ todo[l] = {}
  /\ Goto(l, IF ref[<<l, "result">>] = None THEN "idle" ELSE "returned")
  /\ reload' = [reload EXCEPT ![l] = FALSE]
  /\ UNCHANGED <<library, counts, handle, events>>

\* The caller lets go of the shared_ptr load returned to it.
DropResult(l) == pc[l] = "returned" /\ Drop(<<l, "result">>, l, "idle")

-----------------------------------------------------------------------------
(* Workers: current(), LoadedModule::apply, end of the snapshot            *)

\* Mutant: current() hands out the raw pointer, without a use count.
Snapshot_Raw(r) ==
  /\ Up /\ Ready(r, "idle")
  /\ ref[Current] # None
  /\ ref' = [ref EXCEPT ![<<r, "snapshot">>] = ref[Current]]
  /\ Goto(r, "holding")
  /\ UNCHANGED <<library, object, strong, handle, reload, events>>

Snapshot(r) ==
  /\ Up /\ Ready(r, "idle")
  /\ ref[Current] # None
  /\ ref' = [ref EXCEPT ![<<r, "snapshot">>] = ref[Current]]
  /\ strong' = [strong EXCEPT ![ref[Current]] = @ + 1]
  /\ Goto(r, "holding")
  /\ UNCHANGED <<library, object, handle, reload, events>>

BeginApply(r) ==
  /\ pc[r] = "holding"
  /\ Goto(r, "applying")
  /\ UNCHANGED <<library, counts, handle, reload, events>>

EndApply(r) ==
  /\ pc[r] = "applying"
  /\ Goto(r, "holding")
  /\ UNCHANGED <<library, counts, handle, reload, events>>

Release(r) == pc[r] = "holding" /\ Drop(<<r, "snapshot">>, r, "idle")

-----------------------------------------------------------------------------
(* Registration, and the destructor of the manager                         *)

Subscribe(o) ==
  /\ Up /\ o \notin observers
  /\ observers' = observers \cup {o}
  /\ view' = [view EXCEPT ![o] = None]
  /\ UNCHANGED <<library, counts, handle, pc, reload, todo>>

Unsubscribe(o) ==
  /\ Up /\ o \in observers
  /\ observers' = observers \ {o}
  /\ UNCHANGED <<library, counts, handle, pc, reload, todo, view>>

\* ~ModuleManager destroys current_; no load may be inside the object.
Destroy ==
  /\ Up /\ \A l \in Loaders : pc[l] \in {"idle", "returned"}
  /\ IF ref[Current] = None
     THEN Goto(Manager, "down")
          /\ UNCHANGED <<library, counts, handle, reload, events>>
     ELSE Drop(Current, Manager, "down")

-----------------------------------------------------------------------------
Load(l) ==
  \/ \E p \in Paths : Open(l, p) \/ OpenFails(l, p)
  \/ Validate(l) \/ Reject(l) \/ ReadCurrent(l) \/ Publish(l) \/ RetireOld(l)
  \/ BeginNotify(l) \/ (\E o \in Observers : Deliver(l, o)) \/ Return(l)
  \/ DropResult(l)

Work(r) == Snapshot(r) \/ BeginApply(r) \/ EndApply(r) \/ Release(r)

Next ==
  \/ \E p \in Paths, i \in Images \cup {None} : WriteFile(p, i)
  \/ \E l \in Loaders : Load(l)
  \/ \E r \in Readers : Work(r)
  \/ \E t \in Threads : Dlclose(t)
  \/ \E o \in Observers : Subscribe(o) \/ Unsubscribe(o)
  \/ Destroy

Spec == Init /\ [][Next]_vars

\* The steps of a load that has begun.  The caller drops the result.
LoadStep(l) ==
  \/ Validate(l) \/ Reject(l) \/ ReadCurrent(l) \/ Publish(l) \/ RetireOld(l)
  \/ BeginNotify(l) \/ (\E o \in Observers : Deliver(l, o)) \/ Return(l)
  \/ DropResult(l)

(***************************************************************************)
(* A load that has begun goes on to its return, a packet ends, and whoever *)
(* deleted a module dlcloses it.  A worker does not filter with one        *)
(* snapshot for ever: the grace period of module_manager.hpp:15-17 counts  *)
(* on readers that release, and the example takes a snapshot per packet.   *)
(* It may apply again and again before, so its release is strongly fair.   *)
(* No load, snapshot or packet has to begin.                               *)
(***************************************************************************)
Fairness ==
  /\ \A l \in Loaders : WF_vars(LoadStep(l))
  /\ \A t \in Threads : WF_vars(Dlclose(t))
  /\ \A r \in Readers : WF_vars(EndApply(r)) /\ SF_vars(Release(r))

-----------------------------------------------------------------------------
(* Properties *)

TypeOK ==
  /\ disk \in [Paths -> Images \cup {None}]
  /\ opens \in [Paths -> Nat]
  /\ image \in [Paths -> Images \cup {None}]
  /\ object \in [Modules -> Paths \cup {None}]
  /\ strong \in [Modules -> Nat]
  /\ ref \in [Holders -> Modules \cup {None}]
  /\ handle \in [Threads -> Paths \cup {None}]
  /\ pc \in [Threads -> {"up", "down", "idle", "opened", "checked", "built",
                         "retire", "notify", "deliver", "returned",
                         "holding", "applying"}]
  /\ reload \in [Loaders -> BOOLEAN]
  /\ observers \in SUBSET Observers
  /\ todo \in [Loaders -> SUBSET Observers]
  /\ view \in [Observers -> Modules \cup {None}]

\* The code a shared_ptr leads to: none once its module is deleted.
CodeOf(h) == image[object[ref[h]]]

\* "The module cannot be unloaded while any snapshot is alive"
\* (module_manager.hpp:12-13): whatever a shared_ptr still points to, be it the
\* cell, a worker's snapshot or load's result, is an undeleted module whose
\* library is mapped and passed load's three checks.
HeldIsMapped ==
  \A h \in Holders : ref[h] # None =>
    /\ object[ref[h]] # None
    /\ opens[object[ref[h]]] > 0
    /\ CodeOf(h) \in ValidImages

\* The code under a snapshot never changes: neither recompiling the file, nor
\* loads and failed loads of the same path, nor other owners' releases touch
\* what a worker is running (the RCU read side, module_manager.hpp:11-18).
SnapshotsKeepTheirCode ==
  [][\A h \in Holders :
       ref[h] # None /\ ref'[h] = ref[h] => CodeOf(h)' = CodeOf(h)]_vars

\* How many places hold v.
Count(f, v) == Cardinality({x \in DOMAIN f : f[x] = v})

\* Every dlopen is paired with one dlclose still to come: the loader counts
\* exactly the handles threads own and the modules alive (a missing dlclose in
\* the fail lambda leaks a mapping, an extra one unmaps code in use).
OpensAreOwned ==
  \A p \in Paths : opens[p] = Count(handle, p) + Count(object, p)

\* Use counts are the owners, and a module lives exactly as long as it has one.
CountsAreExact ==
  \A m \in Modules :
    /\ strong[m] = Count(ref, m)
    /\ object[m] = None <=> strong[m] = 0

\* "Observers are notified of load / reload / failure events so a host can log
\* or re-prepare per-thread contexts on a swap" (module_manager.hpp:19-20): with
\* no load running, no swap has happened since an observer was last called, so
\* what current() gave it in that call is what workers get.  Of loads that
\* overlap each must store before it takes the list and must tell the whole
\* list, whichever stores, takes the list or tells last.
ObserversSeeEverySwap ==
  Up /\ (\A l \in Loaders : pc[l] \in {"idle", "returned"}) =>
    \A o \in observers : view[o] \in {None, ref[Current]}

\* The manager implements the hot-swap contract: the code its threads touch is
\* replaced in one step and deleted only when nobody wants it.
Slot(u) == <<u, IF u \in Readers THEN "snapshot" ELSE "result">>

Contract == INSTANCE HotSwap
  WITH Users  <- Readers \cup Loaders,
       active <- ref[Current],
       using  <- [u \in Readers \cup Loaders |-> ref[Slot(u)]],
       alive  <- {m \in Modules : object[m] # None}

ImplementsHotSwap == Contract!Spec

\* The grace period ends: a module that is no longer current is deleted
\* although workers keep taking snapshots (module_manager.hpp:15-17).
RetiredAreDeleted ==
  \A m \in Modules :
    (object[m] # None /\ ref[Current] # m) ~> object[m] = None

\* No leak: after the manager is destroyed every library is unmapped in the end.
AllUnmappedInTheEnd == ~Up ~> \A p \in Paths : opens[p] = 0
=============================================================================
