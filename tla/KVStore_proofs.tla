--------------------------- MODULE KVStore_proofs ---------------------------
(***************************************************************************)
(* Checkpoints and blobs stay together, for every number of processes,     *)
(* sessions, steps and models, whatever crashes or fails between two       *)
(* system calls: a warm start restores the session's own cache, every      *)
(* branch has its own blob, and where one process uses the store no        *)
(* checkpoint is left without its blob.                                    *)
(***************************************************************************)
EXTENDS KVStore, TLAPS

-----------------------------------------------------------------------------
(* The inductive invariant.                                                *)

Writing == {"guard", "sweep", "save", "confirm", "commit"}

\* What each call knows of its session and its files.
CallOK(p, t) ==
    \/ /\ t.op = "save" /\ t.at \in Writing \cup {"delete"}
       /\ session[p] # None /\ session[p].id = t.id
       /\ t.id \in Ids /\ t.file \in Blobs
       /\ t.at = "commit" => t.model \in Models
    \/ /\ t.op = "load" /\ t.at = "restore"
       /\ session[p] # None /\ session[p].id = t.id
       /\ t.id \in Ids /\ t.file \in Blobs /\ t.file = File(t.id)
       /\ session[p].history = manifest[t.id].history
    \/ /\ t.op = "fork" /\ t.at \in {"copy", "clone"}
       /\ t.id \in Ids /\ t.old \in Blobs /\ t.old = File(t.id)
       /\ t.at = "clone" => t.file \in Blobs
       /\ t.at = "copy" => t.file = None
    \/ /\ t.op = "gc" /\ t.at = "sweep"
       /\ t.id = None /\ t.file = None

CallsOK == \A p \in Processes : task[p] # None => CallOK(p, task[p])

\* The fork of session id is under way.
ForkedBy(p, id) == task[p] # None /\ task[p].op = "fork" /\ task[p].id = id

\* One process at a time works on a session.
OneUser ==
    /\ \A p, q \in Processes :
          /\ session[p] # None /\ session[q] # None
          /\ session[p].id = session[q].id
          => p = q
    /\ \A p, q \in Processes :
          session[p] # None => ~ ForkedBy(q, session[p].id)
    /\ \A p, q \in Processes : \A id \in Ids :
          ForkedBy(p, id) /\ ForkedBy(q, id) => p = q

\* A call that makes a blob, which nothing else mentions.
Makes(p) ==
    /\ task[p] # None
    /\ \/ task[p].op = "save" /\ task[p].at \in Writing
       \/ task[p].at = "clone"

NewBlobs ==
    \A p \in Processes : Makes(p) =>
        /\ \A id \in Ids : File(id) # task[p].file
        /\ \A q \in Processes, id \in Ids : consumed[q][id] # task[p].file
        /\ \A q \in Processes \ {p} :
              task[q] # None => task[q].file # task[p].file

StoreInv == TypeOK /\ CallsOK /\ OneUser /\ NewBlobs

\* Two checkpoints share a blob only while a fork of one is under way.
BranchInv ==
    \A id, other \in Ids :
        id # other /\ File(id) # None /\ File(id) = File(other) =>
            \E p \in Processes : ForkedBy(p, id) \/ ForkedBy(p, other)

\* Blobs and slots hold what they are thought to hold.
Cache(history, model) == [history |-> history, model |-> model]

BlobsOwn ==
    \A id \in Ids : File(id) # None /\ blob[File(id)] # None =>
        blob[File(id)] = Cache(manifest[id].history, manifest[id].kv.model)

SlotsLive == \A p \in Processes : slot[p] # None => slot[p].model = server

CallCache(p, t) ==
    /\ t.op = "save" /\ t.at \in {"guard", "sweep", "save"} =>
          slot[p] = Cache(session[p].history, server)
    /\ t.at \in {"confirm", "commit"} /\ blob[t.file] # None =>
          blob[t.file] = Cache(session[p].history, server)
    /\ t.at = "commit" => t.model = server
    /\ t.at = "restore" => manifest[t.id].kv.model = server
    /\ t.at = "clone" /\ blob[t.file] # None =>
          blob[t.file] = Cache(manifest[t.id].history, manifest[t.id].kv.model)

CallsCache == \A p \in Processes : task[p] # None => CallCache(p, task[p])

CacheInv == BlobsOwn /\ SlotsLive /\ CallsCache

-----------------------------------------------------------------------------
(* What holds besides where one process uses the store.                    *)

Alone == \A p, q \in Processes : p = q

CallAlone(p, t) ==
    /\ t.op = "save" /\ t.at \in Writing => t.old = File(t.id)
    /\ t.at = "sweep" => t.kept = Referenced
    /\ t.at \in {"commit", "clone"} => blob[t.file] # None
    /\ t.at = "delete" => t.old \notin Referenced

CallsAlone == \A p \in Processes : task[p] # None => CallAlone(p, task[p])

\* A restored blob is the restored session's.
ConsumedOwn ==
    \A p \in Processes, id, other \in Ids :
        consumed[p][id] # None /\ id # other =>
            /\ consumed[p][other] # consumed[p][id]
            /\ File(other) = consumed[p][id] =>
                  \E q \in Processes : ForkedBy(q, other)

AloneInv == CallsAlone /\ ConsumedOwn

-----------------------------------------------------------------------------
(* Steps of a call.                                                        *)

\* The task of p is t from now on; the others' stay.
TaskIs(p, t) ==
    /\ task' \in [Processes -> Tasks \cup {None}]
    /\ task'[p] = t
    /\ \A q \in Processes \ {p} : task'[q] = task[q]

\* A call that goes on to its next step.
LEMMA GoToTask ==
  ASSUME TypeOK, NEW p \in Processes, task[p] # None,
         NEW place \in Places, GoTo(p, place)
  PROVE  /\ TaskIs(p, [task[p] EXCEPT !.at = place])
         /\ task'[p] # None /\ task'[p].at = place
         /\ task'[p].op = task[p].op /\ task'[p].id = task[p].id
         /\ task'[p].file = task[p].file /\ task'[p].old = task[p].old
         /\ task'[p].model = task[p].model /\ task'[p].kept = task[p].kept
<1>1. task \in [Processes -> Tasks \cup {None}] /\ task[p] \in Tasks
  BY DEF TypeOK
<1> DEFINE t == [task[p] EXCEPT !.at = place]
<1>2. /\ t \in Tasks /\ t.at = place
      /\ t.op = task[p].op /\ t.id = task[p].id /\ t.file = task[p].file
      /\ t.old = task[p].old /\ t.model = task[p].model
      /\ t.kept = task[p].kept
  BY <1>1 DEF Tasks
<1>3. task' = [task EXCEPT ![p] = t]
  BY <1>1 DEF GoTo
<1>4. t # None
  BY <1>2, NoneAssumption
<1> HIDE DEF t
<1>5. TaskIs(p, t)
  BY <1>1, <1>2, <1>3 DEF TaskIs
<1>6. task'[p] = t
  BY <1>5 DEF TaskIs
<1> QED BY <1>2, <1>4, <1>5, <1>6 DEF t

\* A call that ends.
LEMMA ReturnTask ==
  ASSUME TypeOK, NEW p \in Processes, Return(p)
  PROVE  TaskIs(p, None)
BY DEF TypeOK, Return, TaskIs

\* A call that begins.
LEMMA BeginTask ==
  ASSUME TypeOK, NEW p \in Processes,
         NEW op \in {"save", "load", "fork", "gc"}, NEW place \in Places,
         NEW id \in Ids \cup {None},
         NEW f \in Blobs \cup {None}, NEW o \in Blobs \cup {None},
         Begin(p, op, place, id, f, o)
  PROVE  /\ task[p] = None /\ task'[p] # None
         /\ TaskIs(p, task'[p])
         /\ task'[p].op = op /\ task'[p].at = place /\ task'[p].id = id
         /\ task'[p].file = f /\ task'[p].old = o
<1> DEFINE t == [op |-> op, at |-> place, id |-> id, file |-> f, old |-> o,
                 model |-> None, kept |-> {}]
<1>1. t \in Tasks
  BY DEF Tasks
<1>2. task[p] = None /\ task' = [task EXCEPT ![p] = t]
  BY DEF Begin
<1>3. task'[p] = t
  BY <1>2 DEF TypeOK
<1>4. t # None
  BY <1>1, NoneAssumption
<1>5. TaskIs(p, t)
  <2> HIDE DEF t
  <2> QED BY <1>1, <1>2 DEF TaskIs, TypeOK
<1> QED BY <1>2, <1>3, <1>4, <1>5

\* A save begins with a new name and the name it replaces.
LEMMA BeginSave ==
  ASSUME TypeOK, NEW p \in Processes, NEW id \in Ids, NEW f \in Blobs \cup {None}, NEW o \in Blobs \cup {None},
         Begin(p, "save", "guard", id, f, o)
  PROVE  /\ task[p] = None /\ task'[p] # None
         /\ TaskIs(p, task'[p])
         /\ task'[p].op = "save" /\ task'[p].at = "guard"
         /\ task'[p].id = id /\ task'[p].file = f /\ task'[p].old = o
<1>1. /\ "save" \in {"save", "load", "fork", "gc"} /\ "guard" \in Places
      /\ id \in Ids \cup {None} /\ None \in Blobs \cup {None}
  BY DEF Places
<1> QED BY <1>1, BeginTask

\* A restoration begins with the checkpoint's blob.
LEMMA BeginLoad ==
  ASSUME TypeOK, NEW p \in Processes, NEW id \in Ids, NEW f \in Blobs \cup {None},
         Begin(p, "load", "restore", id, f, None)
  PROVE  /\ task[p] = None /\ task'[p] # None
         /\ TaskIs(p, task'[p])
         /\ task'[p].op = "load" /\ task'[p].at = "restore"
         /\ task'[p].id = id /\ task'[p].file = f /\ task'[p].old = None
<1>1. /\ "load" \in {"save", "load", "fork", "gc"} /\ "restore" \in Places
      /\ id \in Ids \cup {None} /\ None \in Blobs \cup {None}
  BY DEF Places
<1> QED BY <1>1, BeginTask

\* The second half of a fork begins with the parent's blob.
LEMMA BeginFork ==
  ASSUME TypeOK, NEW p \in Processes, NEW id \in Ids, NEW o \in Blobs \cup {None},
         Begin(p, "fork", "copy", id, None, o)
  PROVE  /\ task[p] = None /\ task'[p] # None
         /\ TaskIs(p, task'[p])
         /\ task'[p].op = "fork" /\ task'[p].at = "copy"
         /\ task'[p].id = id /\ task'[p].file = None /\ task'[p].old = o
<1>1. /\ "fork" \in {"save", "load", "fork", "gc"} /\ "copy" \in Places
      /\ id \in Ids \cup {None} /\ None \in Blobs \cup {None}
  BY DEF Places
<1> QED BY <1>1, BeginTask

\* Blobs that are deleted.
LEMMA WithoutType ==
  ASSUME TypeOK, NEW files
  PROVE  /\ Without(files) \in [Blobs -> Caches \cup {None}]
         /\ \A b \in Blobs : Without(files)[b] \in {blob[b], None}
         /\ \A b \in Blobs : b \notin files => Without(files)[b] = blob[b]
BY DEF TypeOK, Without

\* The file of a checkpoint is a blob's name.
LEMMA FileType ==
  ASSUME TypeOK, NEW id \in Ids
  PROVE  /\ File(id) \in Blobs \cup {None}
         /\ File(id) # None => /\ manifest[id] # None /\ manifest[id].kv # None
                               /\ manifest[id] \in Checkpoints
                               /\ manifest[id].kv \in KV
                               /\ File(id) = manifest[id].kv.file
BY NoneAssumption DEF TypeOK, File, Checkpoints, KV

\* What is known of a call by where it stands.
LEMMA CallFacts ==
  ASSUME TypeOK, CallsOK, NEW p \in Processes, task[p] # None
  PROVE  /\ task[p] \in Tasks
         /\ task[p].at \in {"guard", "save", "confirm", "commit", "delete"} =>
               /\ task[p].op = "save"
               /\ session[p] # None /\ session[p].id = task[p].id
               /\ task[p].id \in Ids /\ task[p].file \in Blobs
         /\ task[p].at = "commit" => task[p].model \in Models
         /\ task[p].at = "sweep" /\ task[p].op # "save" =>
               task[p].op = "gc" /\ task[p].id = None /\ task[p].file = None
         /\ task[p].at = "sweep" /\ task[p].op = "save" =>
               /\ session[p] # None /\ session[p].id = task[p].id
               /\ task[p].id \in Ids /\ task[p].file \in Blobs
         /\ task[p].at = "restore" =>
               /\ task[p].op = "load"
               /\ session[p] # None /\ session[p].id = task[p].id
               /\ task[p].id \in Ids /\ task[p].file \in Blobs
               /\ task[p].file = File(task[p].id)
               /\ session[p].history = manifest[task[p].id].history
         /\ task[p].at \in {"copy", "clone"} =>
               /\ task[p].op = "fork"
               /\ task[p].id \in Ids /\ task[p].old \in Blobs
               /\ task[p].old = File(task[p].id)
         /\ task[p].at = "clone" => task[p].file \in Blobs
         /\ task[p].at = "copy" => task[p].file = None
<1>1. task[p] \in Tasks
  BY DEF TypeOK
<1>2. CallOK(p, task[p])
  BY DEF CallsOK
<1> QED BY <1>1, <1>2 DEF CallOK, Writing

\* A sweep deletes what was not referenced or was consumed, and nothing else.
LEMMA SweepDoes ==
  ASSUME TypeOK, NEW p \in Processes, Sweep(p)
  PROVE  /\ blob' \in [Blobs -> Caches \cup {None}]
         /\ \A b \in Blobs : blob'[b] \in {blob[b], None}
         /\ \A b \in task[p].kept :
               \/ b \in Blobs => blob'[b] = blob[b]
               \/ /\ task[p].op = "save"
                  /\ \E id \in Ids : consumed[p][id] = b
         /\ consumed' \in [Processes -> [Ids -> Blobs \cup {None}]]
         /\ \A q \in Processes, id \in Ids :
               consumed'[q][id] \in {consumed[q][id], None}
         /\ task[p].op = "save" => \A id \in Ids : consumed'[p][id] = None
         /\ stepped' \in [Processes -> SUBSET Ids]
         /\ GoTo(p, "save") \/ Return(p)
         /\ task[p].op # "save" => Return(p)
<1> DEFINE tracked == IF task[p].op = "save"
                        THEN {consumed[p][id] : id \in Ids} \ {None} ELSE {}
           left == task[p].kept \ tracked
<1>1. blob' = Without(Blobs \ left)
  BY DEF Sweep
<1>2. /\ blob' \in [Blobs -> Caches \cup {None}]
      /\ \A b \in Blobs : blob'[b] \in {blob[b], None}
      /\ \A b \in Blobs : b \notin Blobs \ left => blob'[b] = blob[b]
  <2> HIDE DEF left
  <2> QED BY <1>1, WithoutType
<1>3. ASSUME NEW b \in task[p].kept
      PROVE  \/ b \in Blobs => blob'[b] = blob[b]
             \/ /\ task[p].op = "save"
                /\ \E id \in Ids : consumed[p][id] = b
  BY <1>2
<1>4. /\ task[p].op = "save" =>
            /\ consumed' = [consumed EXCEPT ![p] = [id \in Ids |-> None]]
            /\ stepped' = [stepped EXCEPT ![p] = {}]
      /\ task[p].op # "save" => UNCHANGED <<consumed, stepped>>
  BY DEF Sweep
<1>5. /\ consumed \in [Processes -> [Ids -> Blobs \cup {None}]]
      /\ stepped \in [Processes -> SUBSET Ids]
  BY DEF TypeOK
<1>6. CASE task[p].op = "save"
  <2>1. consumed' \in [Processes -> [Ids -> Blobs \cup {None}]]
    BY <1>4, <1>5, <1>6
  <2>2. \A id \in Ids : consumed'[p][id] = None
    BY <1>4, <1>5, <1>6
  <2>3. \A q \in Processes \ {p} : consumed'[q] = consumed[q]
    BY <1>4, <1>5, <1>6
  <2>4. stepped' \in [Processes -> SUBSET Ids]
    BY <1>4, <1>5, <1>6
  <2>5. GoTo(p, "save") \/ Return(p)
    BY DEF Sweep
  <2> QED BY <1>2, <1>3, <1>6, <2>1, <2>2, <2>3, <2>4, <2>5
<1>7. CASE task[p].op # "save"
  <2>1. Return(p)
    BY <1>7 DEF Sweep
  <2> QED BY <1>2, <1>3, <1>4, <1>5, <1>7, <2>1
<1> QED BY <1>6, <1>7

\* The copy is made, whole or in part, under a new name, or there is nothing
\* to copy and the clone starts cold.
LEMMA CopyDoes ==
  ASSUME TypeOK, CallsOK, NEW p \in Processes, Copy(p)
  PROVE  /\ manifest' \in [Ids -> Checkpoints \cup {None}]
         /\ blob' \in [Blobs -> Caches \cup {None}]
         /\ task' \in [Processes -> Tasks \cup {None}]
         /\ \/ /\ blob' = blob /\ TaskIs(p, None)
               /\ \A id \in Ids \ {task[p].id} : manifest'[id] = manifest[id]
               /\ manifest'[task[p].id] # None
               /\ manifest'[task[p].id].kv = None
            \/ \E b \in New :
                 /\ manifest' = manifest
                 /\ blob[task[p].old] # None
                 /\ \A c \in Blobs \ {b} : blob'[c] = blob[c]
                 /\ \/ /\ blob'[b] = blob[task[p].old]
                       /\ task'[p] # None /\ TaskIs(p, task'[p])
                       /\ task'[p].op = "fork" /\ task'[p].at = "clone"
                       /\ task'[p].id = task[p].id
                       /\ task'[p].old = task[p].old /\ task'[p].file = b
                    \/ ~ ForkWhole /\ TaskIs(p, None)
<1>1. /\ task[p] # None /\ task[p] \in Tasks /\ task[p].at = "copy"
      /\ task[p].op = "fork" /\ task[p].id \in Ids /\ task[p].old \in Blobs
      /\ task[p].old = File(task[p].id)
  BY CallFacts DEF Copy, At
<1>2. /\ manifest[task[p].id] \in Checkpoints
      /\ manifest[task[p].id] # None
  BY <1>1, FileType, KVStoreAssumption
<1>3. CASE blob[task[p].old] = None
  <2>1. /\ manifest' = [manifest EXCEPT ![task[p].id].kv = None]
        /\ Return(p) /\ blob' = blob
    BY <1>3 DEF Copy
  <2> DEFINE m == [manifest[task[p].id] EXCEPT !.kv = None]
  <2>2. m \in Checkpoints /\ m.kv = None
    BY <1>2 DEF Checkpoints
  <2>3. manifest' = [manifest EXCEPT ![task[p].id] = m]
    BY <2>1
  <2> HIDE DEF m
  <2>4. /\ manifest' \in [Ids -> Checkpoints \cup {None}]
        /\ \A id \in Ids \ {task[p].id} : manifest'[id] = manifest[id]
        /\ manifest'[task[p].id] = m
    BY <1>1, <2>2, <2>3 DEF TypeOK
  <2>5. TaskIs(p, None)
    BY <2>1, ReturnTask
  <2>6. task' \in [Processes -> Tasks \cup {None}]
    BY <2>5 DEF TaskIs
  <2> QED BY <2>1, <2>2, <2>4, <2>5, <2>6, NoneAssumption DEF TypeOK
<1>4. CASE blob[task[p].old] # None
  <2>1. PICK b \in New :
          /\ \/ /\ blob' = [blob EXCEPT ![b] = blob[task[p].old]]
                /\ task' = [task EXCEPT ![p].at = "clone", ![p].file = b]
             \/ /\ ~ForkWhole
                /\ blob' = [blob EXCEPT ![b] =
                              [blob[task[p].old] EXCEPT !.history = None]]
                /\ Return(p)
          /\ manifest' = manifest
    BY <1>4 DEF Copy
  <2>2. blob[task[p].old] \in Caches /\ b \in Blobs
    BY <1>1, <1>4 DEF TypeOK, New
  <2>3. CASE /\ blob' = [blob EXCEPT ![b] = blob[task[p].old]]
             /\ task' = [task EXCEPT ![p].at = "clone", ![p].file = b]
    <3> DEFINE t == [task[p] EXCEPT !.at = "clone", !.file = b]
    <3>1. /\ t \in Tasks /\ t.op = "fork" /\ t.at = "clone"
          /\ t.id = task[p].id /\ t.old = task[p].old /\ t.file = b
      BY <1>1, <2>2 DEF Tasks, Places
    <3>2. task' = [task EXCEPT ![p] = t]
      BY <1>1, <2>3 DEF TypeOK
    <3> HIDE DEF t
    <3>3. TaskIs(p, t) /\ task'[p] = t /\ t # None
      BY <3>1, <3>2, NoneAssumption DEF TaskIs, TypeOK
    <3>4. /\ blob' \in [Blobs -> Caches \cup {None}]
          /\ \A c \in Blobs \ {b} : blob'[c] = blob[c]
          /\ blob'[b] = blob[task[p].old]
      BY <2>2, <2>3 DEF TypeOK
    <3>5. task' \in [Processes -> Tasks \cup {None}]
      BY <3>3 DEF TaskIs
    <3> QED BY <1>4, <2>1, <3>1, <3>3, <3>4, <3>5 DEF TypeOK
  <2>4. CASE /\ ~ForkWhole
             /\ blob' = [blob EXCEPT ![b] =
                           [blob[task[p].old] EXCEPT !.history = None]]
             /\ Return(p)
    <3> DEFINE c0 == [blob[task[p].old] EXCEPT !.history = None]
    <3>1. c0 \in Caches
      BY <2>2 DEF Caches
    <3>2. blob' = [blob EXCEPT ![b] = c0]
      BY <2>4
    <3> HIDE DEF c0
    <3>3. /\ blob' \in [Blobs -> Caches \cup {None}]
          /\ \A c \in Blobs \ {b} : blob'[c] = blob[c]
      BY <2>2, <3>1, <3>2 DEF TypeOK
    <3>4. TaskIs(p, None)
      BY <2>4, ReturnTask
    <3>5. task' \in [Processes -> Tasks \cup {None}]
      BY <3>4 DEF TaskIs
    <3> QED BY <1>4, <2>1, <2>4, <3>3, <3>4, <3>5 DEF TypeOK
  <2> QED BY <2>1, <2>3, <2>4
<1> QED BY <1>3, <1>4

\* The clone's checkpoint points at the copy.
LEMMA CloneDoes ==
  ASSUME TypeOK, CallsOK, NEW p \in Processes, Clone(p)
  PROVE  /\ manifest' \in [Ids -> Checkpoints \cup {None}]
         /\ task[p] # None /\ task[p].op = "fork" /\ task[p].at = "clone"
         /\ task[p].id \in Ids /\ task[p].file \in Blobs
         /\ \A id \in Ids \ {task[p].id} : manifest'[id] = manifest[id]
         /\ manifest'[task[p].id] # None /\ manifest'[task[p].id].kv # None
         /\ manifest'[task[p].id].kv.file = task[p].file
         /\ manifest'[task[p].id].kv.model = manifest[task[p].id].kv.model
         /\ manifest'[task[p].id].history = manifest[task[p].id].history
<1>1. /\ task[p] # None /\ task[p].at = "clone" /\ task[p].op = "fork"
      /\ task[p].id \in Ids /\ task[p].old \in Blobs /\ task[p].file \in Blobs
      /\ task[p].old = File(task[p].id)
  BY CallFacts DEF Clone, At
<1>2. /\ manifest[task[p].id] \in Checkpoints
      /\ manifest[task[p].id].kv \in KV
  BY <1>1, FileType, KVStoreAssumption
<1> DEFINE kv == [manifest[task[p].id].kv EXCEPT !.file = task[p].file]
           m == [manifest[task[p].id] EXCEPT !.kv = kv]
<1>3. /\ kv \in KV /\ kv.file = task[p].file
      /\ kv.model = manifest[task[p].id].kv.model
  BY <1>1, <1>2 DEF KV
<1>4. manifest' = [manifest EXCEPT ![task[p].id] = m]
  BY DEF Clone
<1> HIDE DEF kv
<1>5. /\ m \in Checkpoints /\ m.kv = kv
      /\ m.history = manifest[task[p].id].history
  BY <1>2, <1>3 DEF Checkpoints
<1> HIDE DEF m
<1>6. /\ manifest' \in [Ids -> Checkpoints \cup {None}]
      /\ \A id \in Ids \ {task[p].id} : manifest'[id] = manifest[id]
      /\ manifest'[task[p].id] = m
  BY <1>1, <1>4, <1>5 DEF TypeOK
<1> QED BY <1>1, <1>3, <1>5, <1>6, NoneAssumption

\* A blob is restored and remembered, or nothing is.
LEMMA RestoreDoes ==
  ASSUME TypeOK, CallsOK, NEW p \in Processes, Restore(p)
  PROVE  /\ task[p] # None /\ task[p].at = "restore"
         /\ consumed' \in [Processes -> [Ids -> Blobs \cup {None}]]
         /\ \/ consumed' = consumed /\ slot' = slot
            \/ /\ \A q \in Processes \ {p} :
                     consumed'[q] = consumed[q] /\ slot'[q] = slot[q]
               /\ \A id \in Ids \ {task[p].id} :
                     consumed'[p][id] = consumed[p][id]
               /\ consumed'[p][task[p].id] = task[p].file
               /\ slot'[p] = blob[task[p].file] /\ slot'[p] # None
<1>1. /\ task[p] # None /\ task[p].at = "restore"
      /\ task[p].file \in Blobs /\ task[p].id \in Ids
  BY CallFacts DEF Restore, At
<1>2. CASE consumed' = consumed /\ slot' = slot
  BY <1>1, <1>2 DEF TypeOK
<1>3. CASE /\ blob[task[p].file] # None
           /\ slot' = [slot EXCEPT ![p] = blob[task[p].file]]
           /\ consumed' = [consumed EXCEPT ![p][task[p].id] = task[p].file]
  <2> DEFINE c == [consumed[p] EXCEPT ![task[p].id] = task[p].file]
  <2>1. consumed[p] \in [Ids -> Blobs \cup {None}]
    BY DEF TypeOK
  <2>2. /\ c \in [Ids -> Blobs \cup {None}] /\ c[task[p].id] = task[p].file
        /\ \A id \in Ids \ {task[p].id} : c[id] = consumed[p][id]
    BY <1>1, <2>1
  <2>3. consumed' = [consumed EXCEPT ![p] = c]
    BY <1>3
  <2> HIDE DEF c
  <2>4. /\ consumed' \in [Processes -> [Ids -> Blobs \cup {None}]]
        /\ consumed'[p] = c
        /\ \A q \in Processes \ {p} : consumed'[q] = consumed[q]
    BY <2>2, <2>3 DEF TypeOK
  <2>5. /\ slot'[p] = blob[task[p].file]
        /\ \A q \in Processes \ {p} : slot'[q] = slot[q]
    BY <1>3 DEF TypeOK
  <2> QED BY <1>1, <1>3, <2>2, <2>4, <2>5
<1> QED BY <1>2, <1>3 DEF Restore

\* Every variable keeps its type.
LEMMA TypeStep ==
  ASSUME TypeOK, CallsOK, [Next]_vars
  PROVE  TypeOK'
<1> USE DEF disk
<1>1. ASSUME Restart
      PROVE  TypeOK'
  BY <1>1 DEF Restart, TypeOK
<1>2. ASSUME NEW p \in Processes, Decode(p)
      PROVE  TypeOK'
  <2> DEFINE history == [by   |-> session[p].id,
                         step |-> session[p].history.step + 1]
  <2>1. session[p] \in Sessions
    BY <1>2 DEF Decode, TypeOK
  <2>2. history \in Histories
    BY <1>2, <2>1, KVStoreAssumption DEF Decode, Sessions, Histories
  <2>3. /\ session' = [session EXCEPT ![p].history = history]
        /\ slot' = [slot EXCEPT ![p] = [history |-> history, model |-> server]]
    BY <1>2 DEF Decode
  <2> HIDE DEF history
  <2>4. [session[p] EXCEPT !.history = history] \in Sessions
    BY <2>1, <2>2 DEF Sessions
  <2>5. session' \in [Processes -> Sessions \cup {None}]
    BY <2>3, <2>4 DEF TypeOK
  <2>6. slot' \in [Processes -> Caches \cup {None}]
    BY <2>2, <2>3 DEF TypeOK, Caches
  <2>7. stepped' \in [Processes -> SUBSET Ids]
    BY <1>2, <2>1 DEF Decode, TypeOK, Sessions
  <2> QED BY <1>2, <2>5, <2>6, <2>7 DEF Decode, TypeOK
<1>3. ASSUME NEW p \in Processes, Leave(p)
      PROVE  TypeOK'
  BY <1>3 DEF Leave, TypeOK
<1>4. ASSUME NEW p \in Processes, save_with_kv(p)
      PROVE  TypeOK'
  <2>1. PICK b \in New :
            Begin(p, "save", "guard", session[p].id, b, File(session[p].id))
    BY <1>4 DEF save_with_kv
  <2>2. session[p].id \in Ids /\ b \in Blobs
    BY <1>4 DEF save_with_kv, TypeOK, Sessions, New
  <2>3. task' \in [Processes -> Tasks \cup {None}]
    BY <2>1, <2>2, FileType, BeginSave DEF TaskIs
  <2> QED BY <1>4, <2>3 DEF save_with_kv, TypeOK
<1>5. ASSUME NEW p \in Processes, Guard(p)
      PROVE  TypeOK'
  <2>1. Referenced \in SUBSET Blobs
    BY FileType DEF Referenced
  <2>2. task[p] \in Tasks
    BY <1>5 DEF Guard, At, TypeOK
  <2>3. [task[p] EXCEPT !.at = "sweep", !.kept = Referenced] \in Tasks
    BY <2>1, <2>2 DEF Tasks, Places
  <2>4. CASE GoTo(p, "save")
    BY <1>5, <2>4, GoToTask DEF Guard, At, TaskIs, Places, TypeOK
  <2>5. CASE Return(p)
    BY <1>5, <2>5, ReturnTask DEF Guard, TaskIs, TypeOK
  <2>6. CASE task' = [task EXCEPT ![p].at = "sweep", ![p].kept = Referenced]
    <3>1. task' = [task EXCEPT ![p] =
                     [task[p] EXCEPT !.at = "sweep", !.kept = Referenced]]
      BY <2>2, <2>6 DEF TypeOK
    <3> QED BY <1>5, <2>3, <3>1 DEF Guard, TypeOK
  <2> QED BY <1>5, <2>4, <2>5, <2>6 DEF Guard
<1>6. ASSUME NEW p \in Processes, Sweep(p)
      PROVE  TypeOK'
  <2>1. /\ consumed' \in [Processes -> [Ids -> Blobs \cup {None}]]
        /\ stepped' \in [Processes -> SUBSET Ids]
        /\ blob' \in [Blobs -> Caches \cup {None}]
    BY <1>6, SweepDoes
  <2>3. GoTo(p, "save") \/ Return(p)
    BY <1>6, SweepDoes
  <2>4. task' \in [Processes -> Tasks \cup {None}]
    BY <1>6, <2>3, GoToTask, ReturnTask DEF Sweep, At, TaskIs, Places
  <2> QED BY <1>6, <2>1, <2>4 DEF Sweep, TypeOK
<1>7. ASSUME NEW p \in Processes, Save(p)
      PROVE  TypeOK'
  <2>1. GoTo(p, "confirm") \/ Return(p)
    BY <1>7 DEF Save
  <2>2. task' \in [Processes -> Tasks \cup {None}]
    BY <1>7, <2>1, GoToTask, ReturnTask DEF Save, At, TaskIs, Places
  <2>3. blob' \in [Blobs -> Caches \cup {None}]
    BY <1>7 DEF Save, TypeOK
  <2> QED BY <1>7, <2>2, <2>3 DEF Save, TypeOK
<1>8. ASSUME NEW p \in Processes, Confirm(p)
      PROVE  TypeOK'
  <2>1. task[p] \in Tasks
    BY <1>8 DEF Confirm, At, TypeOK
  <2>2. [task[p] EXCEPT !.at = "commit", !.model = server] \in Tasks
    BY <2>1 DEF Tasks, Places, TypeOK
  <2>3. CASE Return(p)
    BY <1>8, <2>3, ReturnTask DEF Confirm, TaskIs, TypeOK
  <2>4. CASE task' = [task EXCEPT ![p].at = "commit", ![p].model = server]
    <3>1. task' = [task EXCEPT ![p] =
                     [task[p] EXCEPT !.at = "commit", !.model = server]]
      BY <2>1, <2>4 DEF TypeOK
    <3> QED BY <1>8, <2>2, <3>1 DEF Confirm, TypeOK
  <2> QED BY <1>8, <2>3, <2>4 DEF Confirm
<1>9. ASSUME NEW p \in Processes, Commit(p)
      PROVE  TypeOK'
  <2>1. task' \in [Processes -> Tasks \cup {None}]
    BY <1>9, GoToTask DEF Commit, At, TaskIs, Places
  <2>2. /\ task[p].file \in Blobs /\ session[p] \in Sessions
        /\ task[p].model \in Models
    BY <1>9, CallFacts DEF Commit, At, TypeOK, Tasks
  <2>3. [history |-> session[p].history,
         kv |-> [file |-> task[p].file, model |-> task[p].model]]
           \in Checkpoints
    BY <2>2 DEF Checkpoints, KV, Sessions
  <2>4. manifest' \in [Ids -> Checkpoints \cup {None}]
    BY <1>9, <2>3 DEF Commit, TypeOK
  <2> QED BY <1>9, <2>1, <2>4 DEF Commit, TypeOK
<1>10. ASSUME NEW p \in Processes, DeletePrevious(p)
       PROVE  TypeOK'
  <2>1. task' \in [Processes -> Tasks \cup {None}]
    BY <1>10, ReturnTask DEF DeletePrevious, TaskIs
  <2>2. blob' \in [Blobs -> Caches \cup {None}]
    BY <1>10, WithoutType DEF DeletePrevious
  <2> QED BY <1>10, <2>1, <2>2 DEF DeletePrevious, TypeOK
<1>11. ASSUME NEW p \in Processes, NEW id \in Ids, load_with_kv(p, id)
       PROVE  TypeOK'
  <2>1. PICK h \in Histories : Run(p, id, h)
    <3>1. [by |-> id, step |-> 0] \in Histories
      BY KVStoreAssumption DEF Histories
    <3>2. manifest[id] # None => manifest[id].history \in Histories
      BY DEF TypeOK, Checkpoints
    <3>3. File(id) # None => manifest[id] # None
      BY DEF File
    <3> QED BY <1>11, <3>1, <3>2, <3>3 DEF load_with_kv
  <2>2. session' \in [Processes -> Sessions \cup {None}]
    BY <2>1 DEF Run, Sessions, TypeOK
  <2>3. blob' \in [Blobs -> Caches \cup {None}]
    <3>1. blob' = blob \/ blob' = Without({File(id)})
      BY <1>11 DEF load_with_kv
    <3> QED BY <3>1, WithoutType DEF TypeOK
  <2>4. task' \in [Processes -> Tasks \cup {None}]
    <3>1. \/ task' = task
          \/ Begin(p, "load", "restore", id, File(id), None)
      BY <1>11 DEF load_with_kv
    <3>2. CASE Begin(p, "load", "restore", id, File(id), None)
      BY <3>2, FileType, BeginLoad DEF TaskIs
    <3> QED BY <3>1, <3>2 DEF TypeOK
  <2> QED BY <1>11, <2>2, <2>3, <2>4 DEF load_with_kv, TypeOK
<1>12. ASSUME NEW p \in Processes, Restore(p)
       PROVE  TypeOK'
  <2>1. task' \in [Processes -> Tasks \cup {None}]
    BY <1>12, ReturnTask DEF Restore, TaskIs
  <2>2. task[p].file \in Blobs /\ task[p].id \in Ids
    BY <1>12, CallFacts DEF Restore, At
  <2>3. slot' \in [Processes -> Caches \cup {None}]
    BY <1>12, <2>2 DEF Restore, TypeOK
  <2>4. consumed' \in [Processes -> [Ids -> Blobs \cup {None}]]
    BY <1>12, RestoreDoes
  <2>5. stepped' \in [Processes -> SUBSET Ids]
    BY <1>12, <2>2 DEF Restore, TypeOK
  <2> QED BY <1>12, <2>1, <2>3, <2>4, <2>5 DEF Restore, TypeOK
<1>13. ASSUME NEW p \in Processes, NEW id \in Ids, NEW new_id \in Ids,
              fork_with_kv(p, id, new_id)
       PROVE  TypeOK'
  <2>1. task' \in [Processes -> Tasks \cup {None}]
    <3>1. CASE Begin(p, "fork", "copy", new_id, None, File(id))
      BY <3>1, FileType, BeginFork DEF TaskIs
    <3>2. CASE task' = task
      BY <3>2 DEF TypeOK
    <3> QED BY <1>13, <3>1, <3>2 DEF fork_with_kv
  <2>2. manifest' \in [Ids -> Checkpoints \cup {None}]
    BY <1>13 DEF fork_with_kv, TypeOK
  <2> QED BY <1>13, <2>1, <2>2 DEF fork_with_kv, TypeOK
<1>14. ASSUME NEW p \in Processes, Copy(p)
       PROVE  TypeOK'
  BY <1>14, CopyDoes DEF Copy, TypeOK
<1>15. ASSUME NEW p \in Processes, Clone(p)
       PROVE  TypeOK'
  <2>1. task' \in [Processes -> Tasks \cup {None}]
    BY <1>15, ReturnTask DEF Clone, TaskIs
  <2>2. manifest' \in [Ids -> Checkpoints \cup {None}]
    BY <1>15, CloneDoes
  <2> QED BY <1>15, <2>1, <2>2 DEF Clone, TypeOK
<1>16. ASSUME NEW p \in Processes, NEW id \in Ids, gc_consumed(p, id)
       PROVE  TypeOK'
  <2>1. blob' \in [Blobs -> Caches \cup {None}]
    BY <1>16, WithoutType DEF gc_consumed
  <2>2. consumed' \in [Processes -> [Ids -> Blobs \cup {None}]]
    BY <1>16 DEF gc_consumed, TypeOK
  <2>3. stepped' \in [Processes -> SUBSET Ids]
    BY <1>16 DEF gc_consumed, TypeOK
  <2> QED BY <1>16, <2>1, <2>2, <2>3 DEF gc_consumed, TypeOK
<1>17. ASSUME NEW p \in Processes, gc_orphans(p)
       PROVE  TypeOK'
  <2>1. Referenced \in SUBSET Blobs
    BY FileType DEF Referenced
  <2>2. [op |-> "gc", at |-> "sweep", id |-> None, file |-> None,
         old |-> None, model |-> None, kept |-> Referenced] \in Tasks
    BY <2>1 DEF Tasks, Places
  <2> QED BY <1>17, <2>2 DEF gc_orphans, TypeOK
<1>18. ASSUME NEW p \in Processes, Crash(p)
       PROVE  TypeOK'
  <2>1. task' \in [Processes -> Tasks \cup {None}]
    BY <1>18, ReturnTask DEF Crash, TaskIs
  <2> QED BY <1>18, <2>1 DEF Crash, TypeOK
<1>19. CASE UNCHANGED vars
  BY <1>19 DEF vars, TypeOK
<1> QED BY <1>1, <1>2, <1>3, <1>4, <1>5, <1>6, <1>7, <1>8, <1>9, <1>10, <1>11,
           <1>12, <1>13, <1>14, <1>15, <1>16, <1>17, <1>18, <1>19 DEF Next

-----------------------------------------------------------------------------
(* What a step of one process must leave alone for the others' sake.       *)

\* The others' calls, their sessions and the checkpoints they work on.
LEMMA CallsLocal ==
  ASSUME CallsOK, NEW p \in Processes,
         \A q \in Processes \ {p} :
            /\ task'[q] = task[q] /\ session'[q] = session[q]
            /\ task[q] # None /\ task[q].id \in Ids =>
                  manifest'[task[q].id] = manifest[task[q].id],
         task'[p] # None => CallOK(p, task[p])'
  PROVE  CallsOK'
<1> SUFFICES ASSUME NEW q \in Processes \ {p}, task'[q] # None
             PROVE  CallOK(q, task[q])'
  BY DEF CallsOK
<1>1. /\ task'[q] = task[q] /\ session'[q] = session[q]
      /\ CallOK(q, task[q])
  BY DEF CallsOK
<1>2. task[q].id \in Ids => manifest'[task[q].id] = manifest[task[q].id]
  BY <1>1
<1>3. task[q].id \in Ids => File(task[q].id)' = File(task[q].id)
  BY <1>1, <1>2 DEF File
<1> QED BY <1>1, <1>2, <1>3 DEF CallOK

\* A call's session is its process's own.
LEMMA CallsApart ==
  ASSUME TypeOK, CallsOK, OneUser,
         NEW p \in Processes, NEW q \in Processes \ {p}, NEW id \in Ids,
         (session[p] # None /\ session[p].id = id) \/ ForkedBy(p, id)
  PROVE  /\ task[q] # None => task[q].id # id
         /\ session[q] # None => session[q].id # id
         /\ ~ ForkedBy(q, id)
<1>1. session[q] # None => session[q].id # id
  BY DEF OneUser
<1>2. ~ ForkedBy(q, id)
  BY DEF OneUser
<1>3. task[q] # None => task[q].id # id
  <2> SUFFICES ASSUME task[q] # None, task[q].id = id
               PROVE  FALSE
    OBVIOUS
  <2>1. CallOK(q, task[q]) /\ id # None
    BY KVStoreAssumption DEF CallsOK
  <2> QED BY <1>1, <1>2, <2>1 DEF CallOK, ForkedBy
<1> QED BY <1>1, <1>2, <1>3

\* A process takes up a session or a branch nobody works on.
LEMMA UserLocal ==
  ASSUME TypeOK, OneUser, NEW p \in Processes,
         \A q \in Processes \ {p} :
            task'[q] = task[q] /\ session'[q] = session[q],
         session'[p] # None =>
            \/ session[p] # None /\ session'[p].id = session[p].id
            \/ Free(session'[p].id),
         \A id \in Ids : ForkedBy(p, id)' => ForkedBy(p, id) \/ Free(id),
         session'[p] # None => session'[p].id \in Ids
                               /\ ~ ForkedBy(p, session[p].id)'
  PROVE  OneUser'
<1>1. \A q \in Processes \ {p} : \A id :
         /\ ForkedBy(q, id)' <=> ForkedBy(q, id)
         /\ Free(id) => ~ ForkedBy(q, id)
         /\ Free(id) /\ session[q] # None => session[q].id # id
  BY DEF ForkedBy, Free
<1>2. ASSUME NEW q \in Processes, NEW r \in Processes,
             session'[q] # None /\ session'[r] # None,
             session'[q].id = session'[r].id
      PROVE  q = r
  BY <1>1, <1>2 DEF OneUser
<1>3. ASSUME NEW q \in Processes, NEW r \in Processes, session'[q] # None
      PROVE  ~ ForkedBy(r, session[q].id)'
  <2>1. CASE q = p
    BY <1>1, <1>3, <2>1 DEF OneUser, ForkedBy
  <2>2. CASE q # p /\ r # p
    BY <1>1, <1>3, <2>2 DEF OneUser, ForkedBy
  <2>3. CASE q # p /\ r = p
    <3>1. session'[q] = session[q] /\ session[q] # None
      BY <1>3, <2>3
    <3>2. ForkedBy(p, session[q].id)' =>
             task'[p] # None /\ task'[p].op = "fork"
               /\ task'[p].id = session[q].id
      BY <3>1 DEF ForkedBy
    <3>3. ~ ForkedBy(p, session[q].id)
      BY <3>1 DEF OneUser
    <3>4. session[q].id \in Ids
      BY <3>1 DEF TypeOK, Sessions
    <3>5. \A id : task'[p] # None /\ task'[p].op = "fork" /\ task'[p].id = id
                   <=> ForkedBy(p, id)'
      BY DEF ForkedBy
    <3>6. ~ Free(session[q].id)
      BY <3>1, <2>3 DEF Free
    <3> QED BY <2>3, <3>2, <3>3, <3>4, <3>5, <3>6
  <2> QED BY <2>1, <2>2, <2>3
<1>4. ASSUME NEW q \in Processes, NEW r \in Processes, NEW id \in Ids,
             ForkedBy(q, id)', ForkedBy(r, id)'
      PROVE  q = r
  BY <1>1, <1>4 DEF OneUser
<1> QED BY <1>2, <1>3, <1>4 DEF OneUser

\* A new name is one nothing mentions.
LEMMA NewIsNew ==
  ASSUME NEW b \in New
  PROVE  /\ b \in Blobs /\ blob[b] = None /\ b # None
         /\ \A id \in Ids : File(id) # b
         /\ \A q \in Processes, id \in Ids : consumed[q][id] # b
         /\ \A q \in Processes : task[q] # None =>
               task[q].file # b /\ task[q].old # b /\ b \notin task[q].kept
<1>1. b \in Blobs /\ b \notin Mentioned
  BY DEF New
<1>2. b # None
  BY <1>1, KVStoreAssumption
<1>3. /\ b \notin OnDisk /\ b \notin Referenced
      /\ b \notin {consumed[q][id] : q \in Processes, id \in Ids}
      /\ b \notin UNION {{task[q].file, task[q].old} \cup task[q].kept :
                           q \in {r \in Processes : task[r] # None}}
  BY <1>1 DEF Mentioned
<1>4. ASSUME NEW q \in Processes, task[q] # None
      PROVE  task[q].file # b /\ task[q].old # b /\ b \notin task[q].kept
  BY <1>3, <1>4
<1> QED BY <1>1, <1>2, <1>3, <1>4 DEF OnDisk, Referenced

\* A process makes blobs under new names, and lets others see a name only when
\* it has made the blob.
LEMMA NewLocal ==
  ASSUME TypeOK, CallsOK, NewBlobs, NEW p \in Processes,
         \A q \in Processes \ {p} : task'[q] = task[q],
         Makes(p)' => \/ Makes(p) /\ task'[p].file = task[p].file
                      \/ task'[p].file \in New,
         \A id \in Ids :
            \/ File(id)' = None
            \/ \E other \in Ids : File(id)' = File(other)
            \/ Makes(p) /\ ~ Makes(p)' /\ File(id)' = task[p].file,
         \A q \in Processes, id \in Ids :
            \/ consumed'[q][id] \in {consumed[q][id], None}
            \/ /\ task[p] # None /\ ~ Makes(p)'
               /\ consumed'[q][id] = task[p].file,
         task'[p] # None /\ ~ Makes(p)' =>
            \/ task'[p].file = None
            \/ \E other \in Ids : task'[p].file = File(other)
            \/ task[p] # None /\ task'[p].file = task[p].file
  PROVE  NewBlobs'
<1> SUFFICES ASSUME NEW r \in Processes, Makes(r)'
             PROVE  /\ \A id \in Ids : File(id)' # task'[r].file
                    /\ \A q \in Processes, id \in Ids :
                          consumed'[q][id] # task'[r].file
                    /\ \A q \in Processes \ {r} :
                          task'[q] # None => task'[q].file # task'[r].file
  BY DEF NewBlobs
<1>1. \A q \in Processes : Makes(q) =>
         task[q] # None /\ task[q].file \in Blobs /\ task[q].file # None
  BY CallFacts, KVStoreAssumption DEF Makes, Writing
<1>2. CASE r = p /\ task'[p].file \in New
  <2>1. \A q \in Processes \ {p} :
            task'[q] # None => task'[q].file # task'[p].file
    BY <1>2, NewIsNew
  <2>2. \A q \in Processes, id \in Ids : consumed'[q][id] # task'[p].file
    BY <1>2, NewIsNew
  <2>3. \A id \in Ids : File(id)' # task'[p].file
    BY <1>2, NewIsNew
  <2> QED BY <1>2, <2>1, <2>2, <2>3
<1>3. CASE r = p /\ Makes(p) /\ task'[p].file = task[p].file
  <2>1. \A q \in Processes \ {p} :
            task'[q] # None => task'[q].file # task'[p].file
    BY <1>3 DEF NewBlobs
  <2>2. \A q \in Processes, id \in Ids : consumed'[q][id] # task'[p].file
    BY <1>1, <1>3 DEF NewBlobs
  <2>3. \A id \in Ids : File(id)' # task'[p].file
    BY <1>1, <1>3 DEF NewBlobs
  <2> QED BY <1>3, <2>1, <2>2, <2>3
<1>4. CASE r # p
  <2>1. task'[r] = task[r] /\ Makes(r)
    BY <1>4 DEF Makes
  <2>2. \A id \in Ids : File(id)' # task'[r].file
    BY <1>1, <1>4, <2>1 DEF NewBlobs, Makes
  <2>3. \A q \in Processes, id \in Ids : consumed'[q][id] # task'[r].file
    BY <1>1, <1>4, <2>1 DEF NewBlobs
  <2>4. ASSUME task'[p] # None PROVE task'[p].file # task'[r].file
    BY <1>1, <1>4, <2>1, <2>4, NewIsNew DEF NewBlobs, Makes
  <2>5. \A q \in Processes \ {r} :
            task'[q] # None => task'[q].file # task'[r].file
    BY <2>1, <2>4 DEF NewBlobs
  <2> QED BY <2>2, <2>3, <2>5
<1> QED BY <1>2, <1>3, <1>4

-----------------------------------------------------------------------------
(* The invariant of the store, one step per action.                        *)

\* Calls know what they are about.
LEMMA CallsStep ==
  ASSUME StoreInv, TypeOK', [Next]_vars
  PROVE  CallsOK'
<1> USE DEF StoreInv, disk
<1> DEFINE Others(p) ==
             \A q \in Processes \ {p} :
                /\ task'[q] = task[q] /\ session'[q] = session[q]
                /\ task[q] # None /\ task[q].id \in Ids =>
                      manifest'[task[q].id] = manifest[task[q].id]
<1>1. ASSUME Restart
      PROVE  CallsOK'
  BY <1>1 DEF Restart, CallsOK, CallOK, File
<1>2. ASSUME NEW p \in Processes, Decode(p) \/ Leave(p)
      PROVE  CallsOK'
  <2>1. task'[p] = None /\ Others(p)
    BY <1>2 DEF Decode, Leave, TypeOK
  <2> QED BY <2>1, CallsLocal
<1>3. ASSUME NEW p \in Processes, save_with_kv(p)
      PROVE  CallsOK'
  <2>1. PICK b \in New :
            Begin(p, "save", "guard", session[p].id, b, File(session[p].id))
    BY <1>3 DEF save_with_kv
  <2>2. session[p].id \in Ids /\ b \in Blobs
    BY <1>3, NewIsNew DEF save_with_kv, TypeOK, Sessions
  <2>3. /\ TaskIs(p, task'[p])
        /\ task'[p].op = "save" /\ task'[p].at = "guard"
        /\ task'[p].id = session[p].id /\ task'[p].file = b
    BY <2>1, <2>2, FileType, BeginSave
  <2>4. session' = session /\ manifest' = manifest /\ session[p] # None
    BY <1>3 DEF save_with_kv
  <2>5. Others(p)
    BY <2>3, <2>4 DEF TaskIs
  <2>6. CallOK(p, task[p])'
    BY <2>2, <2>3, <2>4 DEF CallOK, Writing
  <2> QED BY <2>5, <2>6, CallsLocal
<1>4. ASSUME NEW p \in Processes, At(p, "guard"), Guard(p)
      PROVE  CallsOK'
  <2>1. /\ task[p] # None /\ task[p].op = "save"
        /\ session[p] # None /\ session[p].id = task[p].id
        /\ task[p].id \in Ids /\ task[p].file \in Blobs
        /\ task[p] \in Tasks
    BY <1>4, CallFacts DEF At
  <2>2. session' = session /\ manifest' = manifest
    BY <1>4 DEF Guard
  <2>3. \/ task'[p] = None
        \/ /\ task'[p].op = "save" /\ task'[p].at \in {"save", "sweep"}
           /\ task'[p].id = task[p].id /\ task'[p].file = task[p].file
    BY <1>4, <2>1 DEF Guard, GoTo, Return, TypeOK, Tasks
  <2>4. Others(p)
    BY <1>4, <2>2 DEF Guard, GoTo, Return, TypeOK
  <2>5. task'[p] # None => CallOK(p, task[p])'
    BY <2>1, <2>2, <2>3 DEF CallOK, Writing
  <2> QED BY <2>4, <2>5, CallsLocal
<1>5. ASSUME NEW p \in Processes, Sweep(p) \/ Save(p) \/ DeletePrevious(p)
      PROVE  CallsOK'
  <2>1. /\ task[p] # None /\ task[p] \in Tasks
        /\ task[p].at \in {"sweep", "save", "delete"}
    BY <1>5, CallFacts DEF Sweep, Save, DeletePrevious, At
  <2>2. session' = session /\ manifest' = manifest
    BY <1>5 DEF Sweep, Save, DeletePrevious
  <2>3. \/ Return(p)
        \/ /\ task[p].op = "save"
           /\ GoTo(p, "save") \/ GoTo(p, "confirm")
    BY <1>5, <2>1, SweepDoes, CallFacts DEF Save, DeletePrevious, At
  <2>4. Others(p)
    BY <2>2, <2>3 DEF GoTo, Return, TypeOK
  <2>5. \/ task'[p] = None
        \/ /\ task[p].op = "save" /\ task'[p].op = "save"
           /\ task'[p].at \in {"save", "confirm"}
           /\ task'[p].id = task[p].id /\ task'[p].file = task[p].file
    <3>1. CASE Return(p)
      BY <3>1 DEF Return, TypeOK
    <3>2. CASE task[p].op = "save" /\ (GoTo(p, "save") \/ GoTo(p, "confirm"))
      BY <2>1, <3>2, GoToTask DEF Places
    <3> QED BY <2>3, <3>1, <3>2
  <2>6. task[p].op = "save" =>
           /\ session[p] # None /\ session[p].id = task[p].id
           /\ task[p].id \in Ids /\ task[p].file \in Blobs
    BY <2>1, CallFacts
  <2>7. task'[p] # None => CallOK(p, task[p])'
    BY <2>2, <2>5, <2>6 DEF CallOK, Writing
  <2> QED BY <2>4, <2>7, CallsLocal
<1>6. ASSUME NEW p \in Processes, Confirm(p)
      PROVE  CallsOK'
  <2>1. /\ task[p] # None /\ task[p] \in Tasks /\ task[p].op = "save"
        /\ session[p] # None /\ session[p].id = task[p].id
        /\ task[p].id \in Ids /\ task[p].file \in Blobs
    BY <1>6, CallFacts DEF Confirm, At
  <2>2. session' = session /\ manifest' = manifest /\ server \in Models
    BY <1>6 DEF Confirm, TypeOK
  <2>3. \/ task'[p] = None
        \/ /\ task'[p].op = "save" /\ task'[p].at = "commit"
           /\ task'[p].id = task[p].id /\ task'[p].file = task[p].file
           /\ task'[p].model = server
    BY <1>6, <2>1 DEF Confirm, Return, TypeOK, Tasks
  <2>4. Others(p)
    BY <1>6, <2>2 DEF Confirm, Return, TypeOK
  <2>5. task'[p] # None => CallOK(p, task[p])'
    BY <2>1, <2>2, <2>3 DEF CallOK, Writing
  <2> QED BY <2>4, <2>5, CallsLocal
<1>7. ASSUME NEW p \in Processes, Commit(p)
      PROVE  CallsOK'
  <2>1. /\ task[p] # None /\ task[p] \in Tasks /\ task[p].op = "save"
        /\ session[p] # None /\ session[p].id = task[p].id
        /\ task[p].id \in Ids /\ task[p].file \in Blobs
    BY <1>7, CallFacts DEF Commit, At
  <2>2. /\ session' = session /\ GoTo(p, "delete")
        /\ \A id \in Ids \ {task[p].id} : manifest'[id] = manifest[id]
    BY <1>7 DEF Commit, TypeOK
  <2>3. /\ TaskIs(p, task'[p])
        /\ task'[p].op = "save" /\ task'[p].at = "delete"
        /\ task'[p].id = task[p].id /\ task'[p].file = task[p].file
    BY <2>1, <2>2, GoToTask DEF TaskIs, Places
  <2>4. \A q \in Processes \ {p} : task[q] # None => task[q].id # task[p].id
    BY <2>1, CallsApart
  <2>5. Others(p)
    BY <2>2, <2>3, <2>4 DEF TaskIs
  <2>6. CallOK(p, task[p])'
    BY <2>1, <2>2, <2>3 DEF CallOK, Writing
  <2> QED BY <2>5, <2>6, CallsLocal
<1>8. ASSUME NEW p \in Processes, NEW id \in Ids, load_with_kv(p, id)
      PROVE  CallsOK'
  <2>1. /\ task[p] = None /\ manifest' = manifest
        /\ \A q \in Processes \ {p} : session'[q] = session[q]
    BY <1>8 DEF load_with_kv, Run, TypeOK
  <2>2. CASE task' = task
    <3>1. Others(p) /\ task'[p] = None
      BY <2>1, <2>2
    <3> QED BY <3>1, CallsLocal
  <2>3. CASE /\ File(id) # None /\ Run(p, id, manifest[id].history)
             /\ Begin(p, "load", "restore", id, File(id), None)
    <3>1. /\ TaskIs(p, task'[p])
          /\ task'[p].op = "load" /\ task'[p].at = "restore"
          /\ task'[p].id = id /\ task'[p].file = File(id)
      BY <2>3, FileType, BeginLoad
    <3>2. File(id) \in Blobs /\ File(id)' = File(id)
      BY <2>1, <2>3, FileType DEF File
    <3>3. /\ session'[p] # None /\ session'[p].id = id
          /\ session'[p].history = manifest[id].history
      <4>1. session'[p] = [id |-> id, history |-> manifest[id].history]
        BY <2>3 DEF Run, TypeOK
      <4>2. manifest[id].history \in Histories
        BY <2>3, FileType DEF Checkpoints
      <4>3. session'[p] \in Sessions
        BY <4>1, <4>2 DEF Sessions
      <4> QED BY <4>1, <4>3, NoneAssumption
    <3>4. Others(p)
      BY <2>1, <3>1 DEF TaskIs
    <3>5. CallOK(p, task[p])'
      BY <2>1, <3>1, <3>2, <3>3 DEF CallOK
    <3> QED BY <3>4, <3>5, CallsLocal
  <2> QED BY <1>8, <2>2, <2>3 DEF load_with_kv
<1>9. ASSUME NEW p \in Processes, Restore(p) \/ Crash(p)
      PROVE  CallsOK'
  <2>1. task'[p] = None /\ Others(p)
    BY <1>9 DEF Restore, Crash, Return, TypeOK
  <2> QED BY <2>1, CallsLocal
<1>10. ASSUME NEW p \in Processes, NEW id \in Ids, NEW new_id \in Ids,
              fork_with_kv(p, id, new_id)
       PROVE  CallsOK'
  <2>1. /\ Free(new_id) /\ session' = session
        /\ \A i \in Ids \ {new_id} : manifest'[i] = manifest[i]
        /\ manifest'[new_id] = manifest[id] /\ task[p] = None
    BY <1>10 DEF fork_with_kv, Begin, TypeOK
  <2>2. \A q \in Processes : task[q] # None => task[q].id # new_id
    BY <2>1 DEF Free
  <2>3. CASE task' = task
    <3>1. Others(p) /\ task'[p] = None
      BY <2>1, <2>2, <2>3
    <3> QED BY <3>1, CallsLocal
  <2>4. CASE File(id) # None /\ Begin(p, "fork", "copy", new_id, None, File(id))
    <3>1. /\ TaskIs(p, task'[p])
          /\ task'[p].op = "fork" /\ task'[p].at = "copy"
          /\ task'[p].id = new_id /\ task'[p].file = None
          /\ task'[p].old = File(id)
      BY <2>4, FileType, BeginFork
    <3>2. Others(p)
      BY <2>1, <2>2, <3>1 DEF TaskIs
    <3>3. File(new_id)' = File(id) /\ File(id) \in Blobs
      BY <2>1, <2>4, FileType DEF File
    <3>4. CallOK(p, task[p])'
      BY <3>1, <3>3 DEF CallOK
    <3> QED BY <3>2, <3>4, CallsLocal
  <2> QED BY <1>10, <2>3, <2>4 DEF fork_with_kv
<1>11. ASSUME NEW p \in Processes, Copy(p)
       PROVE  CallsOK'
  <2>1. /\ task[p] # None /\ task[p].op = "fork"
        /\ task[p].id \in Ids /\ task[p].old \in Blobs
        /\ task[p].old = File(task[p].id) /\ session' = session
    BY <1>11, CallFacts DEF Copy, At
  <2>2. \A q \in Processes \ {p} : task[q] # None => task[q].id # task[p].id
    BY <2>1, CallsApart DEF ForkedBy
  <2>3. CASE /\ TaskIs(p, None)
             /\ \A id \in Ids \ {task[p].id} : manifest'[id] = manifest[id]
    <3>1. Others(p) /\ task'[p] = None
      BY <2>1, <2>2, <2>3 DEF TaskIs
    <3> QED BY <3>1, CallsLocal
  <2>4. ASSUME NEW b \in New,
               manifest' = manifest /\ TaskIs(p, task'[p]),
               task'[p].op = "fork" /\ task'[p].at = "clone",
               task'[p].id = task[p].id, task'[p].old = task[p].old,
               task'[p].file = b
        PROVE  CallsOK'
    <3>1. Others(p)
      BY <2>1, <2>4 DEF TaskIs
    <3>2. File(task[p].id)' = File(task[p].id) /\ b \in Blobs
      BY <2>4, NewIsNew DEF File
    <3>3. CallOK(p, task[p])'
      BY <2>1, <2>4, <3>2 DEF CallOK
    <3> QED BY <3>1, <3>3, CallsLocal
  <2> QED BY <1>11, <2>3, <2>4, CopyDoes
<1>12. ASSUME NEW p \in Processes, Clone(p)
       PROVE  CallsOK'
  <2>1. /\ task[p] # None /\ task[p].op = "fork" /\ task[p].id \in Ids
        /\ \A id \in Ids \ {task[p].id} : manifest'[id] = manifest[id]
        /\ session' = session
    BY <1>12, CloneDoes DEF Clone
  <2>2. \A q \in Processes \ {p} : task[q] # None => task[q].id # task[p].id
    BY <2>1, CallsApart DEF ForkedBy
  <2>3. TaskIs(p, None)
    BY <1>12, ReturnTask DEF Clone
  <2>4. Others(p) /\ task'[p] = None
    BY <2>1, <2>2, <2>3 DEF TaskIs
  <2> QED BY <2>4, CallsLocal
<1>13. ASSUME NEW p \in Processes, NEW id \in Ids, gc_consumed(p, id)
       PROVE  CallsOK'
  <2>1. Others(p) /\ task'[p] = None
    BY <1>13 DEF gc_consumed
  <2> QED BY <2>1, CallsLocal
<1>14. ASSUME NEW p \in Processes, gc_orphans(p)
       PROVE  CallsOK'
  <2>1. /\ Others(p)
        /\ task'[p].op = "gc" /\ task'[p].at = "sweep"
        /\ task'[p].id = None /\ task'[p].file = None
    BY <1>14 DEF gc_orphans, TypeOK
  <2>2. CallOK(p, task[p])'
    BY <2>1 DEF CallOK
  <2> QED BY <2>1, <2>2, CallsLocal
<1>15. CASE UNCHANGED vars
  BY <1>15 DEF vars, CallsOK, CallOK, File
<1> QED BY <1>1, <1>2, <1>3, <1>4, <1>5, <1>6, <1>7, <1>8, <1>9, <1>10, <1>11,
           <1>12, <1>13, <1>14, <1>15
        DEF Next, Guard

\* No process takes up a session or starts a fork.
LEMMA UserQuiet ==
  ASSUME TypeOK, OneUser, session' = session,
         \A q \in Processes : \A id \in Ids :
            ForkedBy(q, id)' => ForkedBy(q, id)
  PROVE  OneUser'
<1>1. \A q \in Processes : session[q] # None => session[q].id \in Ids
  BY DEF TypeOK, Sessions
<1>2. \A q \in Processes : session'[q] = session[q]
  OBVIOUS
<1> HIDE DEF ForkedBy
<1> QED BY <1>1, <1>2 DEF OneUser

\* A call that starts no fork.
LEMMA ForksStay ==
  ASSUME TypeOK, NEW p \in Processes,
         \A q \in Processes \ {p} : task'[q] = task[q],
         \/ task'[p] = None
         \/ task'[p].op # "fork"
         \/ task[p] # None /\ task'[p].op = task[p].op
              /\ task'[p].id = task[p].id
  PROVE  \A q \in Processes : \A id \in Ids :
            ForkedBy(q, id)' => ForkedBy(q, id)
BY DEF ForkedBy

\* One process at a time works on a session.
LEMMA UserStep ==
  ASSUME StoreInv, TypeOK', [Next]_vars
  PROVE  OneUser'
<1> USE DEF StoreInv, disk
<1>1. ASSUME Restart \/ UNCHANGED vars
      PROVE  OneUser'
  <2>1. session' = session /\ task' = task
    BY <1>1 DEF Restart, vars
  <2> QED BY <2>1, UserQuiet DEF ForkedBy
<1>2. ASSUME NEW p \in Processes, Decode(p)
      PROVE  OneUser'
  <2>1. /\ task' = task /\ session[p] # None
        /\ \A q \in Processes \ {p} : session'[q] = session[q]
    BY <1>2 DEF Decode, TypeOK
  <2>2. session'[p].id = session[p].id /\ session[p].id \in Ids
    BY <1>2 DEF Decode, TypeOK, Sessions
  <2>3. ~ ForkedBy(p, session[p].id)
    BY <2>1 DEF OneUser
  <2>4. ~ ForkedBy(p, session[p].id)'
    BY <2>1, <2>2, <2>3 DEF ForkedBy
  <2>5. \A i \in Ids : ForkedBy(p, i)' => ForkedBy(p, i)
    BY <2>1 DEF ForkedBy
  <2> QED BY <2>1, <2>2, <2>4, <2>5, UserLocal
<1>3. ASSUME NEW p \in Processes, Leave(p) \/ Crash(p)
      PROVE  OneUser'
  <2>1. /\ \A q \in Processes \ {p} :
              task'[q] = task[q] /\ session'[q] = session[q]
        /\ session'[p] = None /\ task'[p] = None
    BY <1>3 DEF Leave, Crash, Return, TypeOK
  <2>2. \A i \in Ids : ForkedBy(p, i)' => ForkedBy(p, i)
    BY <2>1 DEF ForkedBy
  <2> QED BY <2>1, <2>2, UserLocal
<1>4. ASSUME NEW p \in Processes,
             \/ save_with_kv(p) \/ Guard(p) \/ Sweep(p) \/ Save(p)
             \/ Confirm(p) \/ Commit(p) \/ DeletePrevious(p) \/ Restore(p)
             \/ Clone(p) \/ gc_orphans(p)
             \/ \E id \in Ids : gc_consumed(p, id)
      PROVE  OneUser'
  <2>1. session' = session
    BY <1>4 DEF save_with_kv, Guard, Sweep, Save, Confirm, Commit,
                DeletePrevious, Restore, Clone, gc_orphans, gc_consumed
  <2>2. /\ \A q \in Processes \ {p} : task'[q] = task[q]
        /\ \/ task'[p] = None \/ task'[p].op # "fork"
           \/ task[p] # None /\ task'[p].op = task[p].op
                /\ task'[p].id = task[p].id
    <3>1. CASE \/ Return(p)
               \/ /\ task[p] # None
                  /\ \/ GoTo(p, "save") \/ GoTo(p, "confirm")
                     \/ GoTo(p, "delete")
      <4>1. {"save", "confirm", "delete"} \subseteq Places
        BY DEF Places
      <4> QED BY <3>1, <4>1, GoToTask, ReturnTask DEF TaskIs
    <3>2. CASE save_with_kv(p)
      <4>1. PICK b \in New :
              Begin(p, "save", "guard", session[p].id, b, File(session[p].id))
        BY <3>2 DEF save_with_kv
      <4>2. session[p].id \in Ids /\ b \in Blobs
        BY <3>2, NewIsNew DEF save_with_kv, TypeOK, Sessions
      <4> QED BY <4>1, <4>2, FileType, BeginSave DEF TaskIs
    <3>3. CASE Guard(p)
               /\ task' = [task EXCEPT ![p].at = "sweep", ![p].kept = Referenced]
      BY <3>3 DEF Guard, At, TypeOK, Tasks
    <3>4. CASE Confirm(p)
               /\ task' = [task EXCEPT ![p].at = "commit", ![p].model = server]
      BY <3>4 DEF Confirm, At, TypeOK, Tasks
    <3>5. CASE gc_orphans(p)
      BY <3>5 DEF gc_orphans, TypeOK
    <3>6. CASE \E id \in Ids : gc_consumed(p, id)
      BY <3>6 DEF gc_consumed
    <3>7. CASE Sweep(p)
      BY <3>1, <3>7, SweepDoes DEF Sweep, At
    <3> QED BY <1>4, <3>1, <3>2, <3>3, <3>4, <3>5, <3>6, <3>7
            DEF Guard, Save, Confirm, Commit, DeletePrevious, Restore, Clone, At
  <2> QED BY <2>1, <2>2, ForksStay, UserQuiet
<1>5. ASSUME NEW p \in Processes, Copy(p)
      PROVE  OneUser'
  <2>1. session' = session /\ task[p] # None /\ task[p].op = "fork"
    BY <1>5, CallFacts DEF Copy, At
  <2>2. /\ \A q \in Processes \ {p} : task'[q] = task[q]
        /\ \/ task'[p] = None
           \/ task'[p].op = "fork" /\ task'[p].id = task[p].id
    BY <1>5, CopyDoes DEF TaskIs
  <2> QED BY <2>1, <2>2, ForksStay, UserQuiet
<1>6. ASSUME NEW p \in Processes, NEW id \in Ids, load_with_kv(p, id)
      PROVE  OneUser'
  <2>1. /\ Free(id)
        /\ \A q \in Processes \ {p} : session'[q] = session[q]
        /\ session'[p].id = id
    BY <1>6 DEF load_with_kv, Run, TypeOK
  <2>2. /\ \A q \in Processes \ {p} : task'[q] = task[q]
        /\ task'[p] = None \/ task'[p].op # "fork"
    <3>1. CASE task' = task
      BY <1>6, <3>1 DEF load_with_kv
    <3>2. CASE Begin(p, "load", "restore", id, File(id), None)
      BY <3>2, FileType, BeginLoad DEF TaskIs
    <3> QED BY <1>6, <3>1, <3>2 DEF load_with_kv
  <2>3. \A i \in Ids : ~ ForkedBy(p, i)'
    BY <2>2 DEF ForkedBy
  <2> QED BY <2>1, <2>2, <2>3, UserLocal
<1>7. ASSUME NEW p \in Processes, NEW id \in Ids, NEW new_id \in Ids,
             fork_with_kv(p, id, new_id)
      PROVE  OneUser'
  <2>1. Free(new_id) /\ session' = session /\ task[p] = None
    BY <1>7 DEF fork_with_kv, Begin
  <2>2. /\ \A q \in Processes \ {p} : task'[q] = task[q]
        /\ task'[p] = None \/ task'[p].id = new_id
    <3>1. CASE task' = task
      BY <2>1, <3>1
    <3>2. CASE Begin(p, "fork", "copy", new_id, None, File(id))
      BY <3>2, FileType, BeginFork DEF TaskIs
    <3> QED BY <1>7, <3>1, <3>2 DEF fork_with_kv
  <2>3. \A i \in Ids : ForkedBy(p, i)' => i = new_id
    BY <2>2 DEF ForkedBy
  <2>4. session[p] # None => session[p].id \in Ids /\ session[p].id # new_id
    BY <2>1 DEF Free, TypeOK, Sessions
  <2> QED BY <2>1, <2>2, <2>3, <2>4, UserLocal
<1> QED BY <1>1, <1>2, <1>3, <1>4, <1>5, <1>6, <1>7 DEF Next

\* The blob being made is known to its call alone.
LEMMA NewStep ==
  ASSUME StoreInv, TypeOK', [Next]_vars
  PROVE  NewBlobs'
<1> USE DEF StoreInv, disk
<1> DEFINE FilesStay == \A id \in Ids : File(id)' = File(id)
           Given == \A q \in Processes, id \in Ids :
                      consumed'[q][id] \in {consumed[q][id], None}
<1>0. ASSUME manifest' = manifest
      PROVE  FilesStay
  BY <1>0 DEF File
<1>1. ASSUME Restart \/ UNCHANGED vars
      PROVE  NewBlobs'
  <2>1. manifest' = manifest /\ consumed' = consumed /\ task' = task
    BY <1>1 DEF Restart, vars
  <2> QED BY <1>0, <2>1 DEF NewBlobs, Makes
<1>2. ASSUME NEW p \in Processes,
             \/ Decode(p) \/ Leave(p) \/ Crash(p) \/ DeletePrevious(p)
             \/ \E id \in Ids : gc_consumed(p, id)
      PROVE  NewBlobs'
  <2>1. /\ \A q \in Processes \ {p} : task'[q] = task[q]
        /\ task'[p] = None /\ manifest' = manifest
    BY <1>2 DEF Decode, Leave, Crash, DeletePrevious, gc_consumed, Return,
                TypeOK
  <2>2. Given
    <3>1. CASE consumed' = consumed
      BY <3>1
    <3>2. CASE consumed' = [consumed EXCEPT ![p] = [id \in Ids |-> None]]
      BY <3>2 DEF TypeOK
    <3>3. ASSUME NEW id \in Ids, gc_consumed(p, id)
          PROVE  Given
      BY <3>3 DEF gc_consumed, TypeOK
    <3> QED BY <1>2, <3>1, <3>2, <3>3 DEF Decode, Leave, Crash, DeletePrevious
  <2>3. ~ Makes(p)'
    BY <2>1 DEF Makes
  <2>4. FilesStay
    BY <1>0, <2>1
  <2> QED BY <2>1, <2>2, <2>3, <2>4, NewLocal
<1>3. ASSUME NEW p \in Processes, save_with_kv(p)
      PROVE  NewBlobs'
  <2>1. PICK b \in New :
            Begin(p, "save", "guard", session[p].id, b, File(session[p].id))
    BY <1>3 DEF save_with_kv
  <2>2. session[p].id \in Ids /\ b \in Blobs
    BY <1>3, NewIsNew DEF save_with_kv, TypeOK, Sessions
  <2>3. /\ TaskIs(p, task'[p]) /\ task'[p] # None
        /\ task'[p].op = "save" /\ task'[p].at = "guard" /\ task'[p].file = b
    BY <2>1, <2>2, FileType, BeginSave
  <2>4. Makes(p)'
    BY <2>3 DEF Makes, Writing
  <2>5. FilesStay /\ consumed' = consumed
    BY <1>0, <1>3 DEF save_with_kv
  <2>6. \A q \in Processes \ {p} : task'[q] = task[q]
    BY <2>3 DEF TaskIs
  <2> QED BY <2>3, <2>4, <2>5, <2>6, NewLocal
<1>4. ASSUME NEW p \in Processes,
             Guard(p) \/ Sweep(p) \/ Save(p) \/ Confirm(p)
      PROVE  NewBlobs'
  <2>1. manifest' = manifest /\ task[p] # None /\ task[p] \in Tasks
    BY <1>4 DEF Guard, Sweep, Save, Confirm, At, TypeOK
  <2>2. Given
    BY <1>4, SweepDoes DEF Guard, Save, Confirm
  <2>3. /\ \A q \in Processes \ {p} : task'[q] = task[q]
        /\ \/ task'[p] = None
           \/ task'[p].file = task[p].file /\ Makes(p)
    <3>1. CASE Return(p)
      BY <3>1, ReturnTask DEF TaskIs
    <3>2. CASE Guard(p)
      <4>1. Makes(p)
        BY <3>2, CallFacts DEF Guard, At, Makes, Writing
      <4> QED BY <2>1, <3>2, <4>1
              DEF Guard, GoTo, Return, TypeOK, Tasks
    <3>3. CASE Save(p) \/ Confirm(p)
      <4>1. Makes(p)
        BY <3>3, CallFacts DEF Save, Confirm, At, Makes, Writing
      <4> QED BY <2>1, <3>3, <4>1
              DEF Save, Confirm, GoTo, Return, TypeOK, Tasks
    <3>4. CASE Sweep(p) /\ ~ Return(p)
      <4>1. GoTo(p, "save") /\ task[p].op = "save" /\ Makes(p)
        BY <2>1, <3>4, SweepDoes DEF Sweep, At, Makes, Writing
      <4> QED BY <2>1, <4>1 DEF GoTo, TypeOK, Tasks
    <3> QED BY <1>4, <3>1, <3>2, <3>3, <3>4
  <2>4. ASSUME task'[p] = None
        PROVE  ~ Makes(p)'
    BY <2>4 DEF Makes
  <2>5. FilesStay
    BY <1>0, <2>1
  <2> QED BY <2>1, <2>2, <2>3, <2>4, <2>5, NewLocal
<1>5. ASSUME NEW p \in Processes, Commit(p)
      PROVE  NewBlobs'
  <2>1. /\ task[p] # None /\ task[p].op = "save" /\ task[p].at = "commit"
        /\ task[p] \in Tasks /\ task[p].id \in Ids
    BY <1>5, CallFacts DEF Commit, At
  <2>2. /\ TaskIs(p, task'[p]) /\ task'[p].op = "save"
        /\ task'[p].at = "delete" /\ task'[p].file = task[p].file
    BY <1>5, <2>1, GoToTask DEF Commit, TaskIs, Places
  <2>3. Makes(p) /\ ~ Makes(p)'
    BY <2>1, <2>2 DEF Makes, Writing
  <2>4. \A id \in Ids : \/ File(id)' = File(id)
                        \/ File(id)' \in {None, task[p].file}
    BY <1>5 DEF Commit, File, TypeOK
  <2>5. consumed' = consumed /\ \A q \in Processes \ {p} : task'[q] = task[q]
    BY <1>5, <2>2 DEF Commit, TaskIs
  <2> QED BY <2>1, <2>2, <2>3, <2>4, <2>5, NewLocal
<1>6. ASSUME NEW p \in Processes, NEW id \in Ids, load_with_kv(p, id)
      PROVE  NewBlobs'
  <2>1. /\ manifest' = manifest /\ consumed' = consumed /\ task[p] = None
    BY <1>6 DEF load_with_kv
  <2>2. /\ \A q \in Processes \ {p} : task'[q] = task[q]
        /\ \/ task'[p] = None
           \/ /\ task'[p].op = "load" /\ task'[p].at = "restore"
              /\ task'[p].file = File(id)
    <3>1. CASE task' = task
      BY <2>1, <3>1
    <3>2. CASE Begin(p, "load", "restore", id, File(id), None)
      BY <3>2, FileType, BeginLoad DEF TaskIs
    <3> QED BY <1>6, <3>1, <3>2 DEF load_with_kv
  <2>3. ~ Makes(p)'
    BY <2>2 DEF Makes
  <2>4. FilesStay
    BY <1>0, <2>1
  <2> QED BY <2>1, <2>2, <2>3, <2>4, NewLocal
<1>7. ASSUME NEW p \in Processes, Restore(p)
      PROVE  NewBlobs'
  <2>1. /\ \A q \in Processes \ {p} : task'[q] = task[q]
        /\ task'[p] = None /\ manifest' = manifest
    BY <1>7, ReturnTask DEF Restore, TaskIs
  <2>2. /\ task[p] # None
        /\ \A q \in Processes, id \in Ids :
             consumed'[q][id] \in {consumed[q][id], task[p].file}
    BY <1>7, RestoreDoes DEF TypeOK
  <2>3. ~ Makes(p)'
    BY <2>1 DEF Makes
  <2>4. FilesStay
    BY <1>0, <2>1
  <2> QED BY <2>1, <2>2, <2>3, <2>4, NewLocal
<1>8. ASSUME NEW p \in Processes, NEW id \in Ids, NEW new_id \in Ids,
             fork_with_kv(p, id, new_id)
      PROVE  NewBlobs'
  <2>1. /\ consumed' = consumed /\ task[p] = None
        /\ manifest' = [manifest EXCEPT ![new_id] = manifest[id]]
    BY <1>8 DEF fork_with_kv, Begin
  <2>2. /\ \A q \in Processes \ {p} : task'[q] = task[q]
        /\ \/ task'[p] = None
           \/ /\ task'[p].op = "fork" /\ task'[p].at = "copy"
              /\ task'[p].file = None
    <3>1. CASE task' = task
      BY <2>1, <3>1
    <3>2. CASE Begin(p, "fork", "copy", new_id, None, File(id))
      BY <3>2, FileType, BeginFork DEF TaskIs
    <3> QED BY <1>8, <3>1, <3>2 DEF fork_with_kv
  <2>3. ~ Makes(p)'
    BY <2>2 DEF Makes
  <2>4. \A i \in Ids : File(i)' = File(i) \/ File(i)' = File(id)
    BY <2>1 DEF File, TypeOK
  <2> QED BY <2>1, <2>2, <2>3, <2>4, NewLocal
<1>9. ASSUME NEW p \in Processes, Copy(p)
      PROVE  NewBlobs'
  <2>1. consumed' = consumed
    BY <1>9 DEF Copy
  <2>2. CASE /\ TaskIs(p, None)
             /\ \A i \in Ids : File(i)' = File(i) \/ File(i)' = None
    <3>1. ~ Makes(p)' /\ task'[p] = None
      BY <2>2 DEF Makes, TaskIs
    <3>2. \A q \in Processes \ {p} : task'[q] = task[q]
      BY <2>2 DEF TaskIs
    <3> QED BY <2>1, <2>2, <3>1, <3>2, NewLocal
  <2>3. ASSUME NEW b \in New, manifest' = manifest,
               task'[p] # None /\ TaskIs(p, task'[p]),
               task'[p].at = "clone" /\ task'[p].file = b
        PROVE  NewBlobs'
    <3>1. Makes(p)'
      BY <2>3 DEF Makes
    <3>2. \A q \in Processes \ {p} : task'[q] = task[q]
      BY <2>3 DEF TaskIs
    <3>3. FilesStay
      BY <1>0, <2>3
    <3> QED BY <2>1, <2>3, <3>1, <3>2, <3>3, NewLocal
  <2>4. ASSUME \A i \in Ids \ {task[p].id} : manifest'[i] = manifest[i],
               manifest'[task[p].id].kv = None
        PROVE  \A i \in Ids : File(i)' = File(i) \/ File(i)' = None
    BY <2>4 DEF File
  <2>5. ASSUME manifest' = manifest
        PROVE  \A i \in Ids : File(i)' = File(i) \/ File(i)' = None
    BY <1>0, <2>5
  <2> QED BY <1>9, <2>2, <2>3, <2>4, <2>5, CopyDoes
<1>10. ASSUME NEW p \in Processes, Clone(p)
       PROVE  NewBlobs'
  <2>1. /\ task[p] # None /\ task[p].at = "clone" /\ task[p].id \in Ids
        /\ \A i \in Ids \ {task[p].id} : manifest'[i] = manifest[i]
        /\ manifest'[task[p].id] # None /\ manifest'[task[p].id].kv # None
        /\ manifest'[task[p].id].kv.file = task[p].file
        /\ consumed' = consumed
    BY <1>10, CloneDoes DEF Clone
  <2>2. TaskIs(p, None)
    BY <1>10, ReturnTask DEF Clone
  <2>3. Makes(p) /\ ~ Makes(p)' /\ task'[p] = None
    BY <2>1, <2>2 DEF Makes, TaskIs
  <2>4. \A i \in Ids : File(i)' = File(i) \/ File(i)' = task[p].file
    BY <2>1 DEF File
  <2>5. \A q \in Processes \ {p} : task'[q] = task[q]
    BY <2>2 DEF TaskIs
  <2> QED BY <2>1, <2>3, <2>4, <2>5, NewLocal
<1>11. ASSUME NEW p \in Processes, gc_orphans(p)
       PROVE  NewBlobs'
  <2>1. /\ \A q \in Processes \ {p} : task'[q] = task[q]
        /\ task'[p].op = "gc" /\ task'[p].at = "sweep"
        /\ task'[p].file = None
    BY <1>11 DEF gc_orphans, TypeOK
  <2>2. ~ Makes(p)'
    BY <2>1 DEF Makes
  <2>3. FilesStay /\ consumed' = consumed
    BY <1>0, <1>11 DEF gc_orphans
  <2> QED BY <2>1, <2>2, <2>3, NewLocal
<1> QED BY <1>1, <1>2, <1>3, <1>4, <1>5, <1>6, <1>7, <1>8, <1>9, <1>10, <1>11
        DEF Next

\* What holds for any number of processes, whatever crashes.
LEMMA StoreInvariant == Spec => []StoreInv
<1>1. Init => StoreInv
  <2> SUFFICES ASSUME Init PROVE StoreInv
    OBVIOUS
  <2>1. TypeOK
    BY DEF Init, TypeOK
  <2>2. CallsOK /\ NewBlobs /\ OneUser
    BY DEF Init, CallsOK, NewBlobs, Makes, OneUser, ForkedBy
  <2> QED BY <2>1, <2>2 DEF StoreInv
<1>2. StoreInv /\ [Next]_vars => StoreInv'
  BY TypeStep, CallsStep, UserStep, NewStep DEF StoreInv
<1> QED BY <1>1, <1>2, PTL DEF Spec

-----------------------------------------------------------------------------
(* Each branch has its own blob.                                           *)

\* A step of p leaves the others' calls, sessions and slots alone.
LEMMA OthersStay ==
  ASSUME TypeOK, [Next]_vars
  PROVE  \/ /\ task' = task /\ session' = session
            /\ manifest' = manifest /\ blob' = blob
            /\ consumed' = consumed
            /\ Restart \/ UNCHANGED vars
         \/ \E p \in Processes :
              /\ \A q \in Processes \ {p} :
                   /\ task'[q] = task[q] /\ session'[q] = session[q]
                   /\ slot'[q] = slot[q]
              /\ server' = server
              /\ \/ Decode(p) \/ Leave(p) \/ save_with_kv(p) \/ Guard(p)
                 \/ Sweep(p) \/ Save(p) \/ Confirm(p) \/ Commit(p)
                 \/ DeletePrevious(p) \/ Restore(p) \/ Copy(p) \/ Clone(p)
                 \/ gc_orphans(p) \/ Crash(p)
                 \/ \E id \in Ids : load_with_kv(p, id) \/ gc_consumed(p, id)
                 \/ \E id, new_id \in Ids : fork_with_kv(p, id, new_id)
<1> USE DEF disk
<1> DEFINE Apart(p) ==
             /\ \A q \in Processes \ {p} :
                  /\ task'[q] = task[q] /\ session'[q] = session[q]
                  /\ slot'[q] = slot[q]
             /\ server' = server
<1>1. ASSUME NEW p \in Processes,
             Decode(p) \/ Leave(p) \/ save_with_kv(p) \/ Guard(p)
      PROVE  Apart(p)
  BY <1>1 DEF Decode, Leave, save_with_kv, Guard, GoTo, Return, Begin, TypeOK
<1>2. ASSUME NEW p \in Processes,
             Sweep(p) \/ Save(p) \/ Confirm(p) \/ Commit(p)
      PROVE  Apart(p)
  BY <1>2 DEF Sweep, Save, Confirm, Commit, GoTo, Return, TypeOK
<1>3. ASSUME NEW p \in Processes,
             \/ DeletePrevious(p) \/ Restore(p) \/ Copy(p) \/ Clone(p)
             \/ gc_orphans(p) \/ Crash(p)
      PROVE  Apart(p)
  BY <1>3 DEF DeletePrevious, Restore, Copy, Clone, gc_orphans, Crash, Return,
              TypeOK
<1>4. ASSUME NEW p \in Processes, NEW id \in Ids,
             load_with_kv(p, id) \/ gc_consumed(p, id)
      PROVE  Apart(p)
  BY <1>4 DEF load_with_kv, gc_consumed, Run, Begin, TypeOK
<1>5. ASSUME NEW p \in Processes, NEW id \in Ids, NEW new_id \in Ids,
             fork_with_kv(p, id, new_id)
      PROVE  Apart(p)
  BY <1>5 DEF fork_with_kv, Begin, TypeOK
<1>6. CASE Restart \/ UNCHANGED vars
  BY <1>6 DEF Restart, vars
<1>7. CASE \E p \in Processes :
             \/ Decode(p) \/ Leave(p) \/ save_with_kv(p) \/ Guard(p)
             \/ Sweep(p) \/ Save(p) \/ Confirm(p) \/ Commit(p)
             \/ DeletePrevious(p) \/ Restore(p) \/ Copy(p) \/ Clone(p)
             \/ gc_orphans(p) \/ Crash(p)
             \/ \E id \in Ids : load_with_kv(p, id) \/ gc_consumed(p, id)
             \/ \E id, new_id \in Ids : fork_with_kv(p, id, new_id)
  BY <1>1, <1>2, <1>3, <1>4, <1>5, <1>7
<1> QED BY <1>6, <1>7 DEF Next

\* At most one checkpoint changes, and a fork ends only with a blob of its own
\* or none.
LEMMA BranchLocal ==
  ASSUME BranchInv, NEW p \in Processes, NEW mine \in Ids,
         \A q \in Processes \ {p} : task'[q] = task[q],
         \A id \in Ids \ {mine} : File(id)' = File(id),
         \A id \in Ids \ {mine} : ~ ForkedBy(p, id),
         \/ File(mine)' = None
         \/ ForkedBy(p, mine)'
         \/ \A id \in Ids : File(id) # File(mine)'
  PROVE  BranchInv'
<1> SUFFICES ASSUME NEW id \in Ids, NEW other \in Ids, id # other,
                    File(id)' # None, File(id)' = File(other)'
             PROVE  \E q \in Processes : ForkedBy(q, id)' \/ ForkedBy(q, other)'
  BY DEF BranchInv
<1>1. CASE id # mine /\ other # mine
  <2>1. PICK q \in Processes : ForkedBy(q, id) \/ ForkedBy(q, other)
    BY <1>1 DEF BranchInv
  <2>2. q # p
    BY <1>1, <2>1
  <2>3. ForkedBy(q, id)' \/ ForkedBy(q, other)'
    BY <2>1, <2>2 DEF ForkedBy
  <2> QED BY <2>3
<1>2. CASE id = mine \/ other = mine
  BY <1>2
<1> QED BY <1>1, <1>2

\* Two checkpoints share a blob only while one is being forked.
LEMMA BranchStep ==
  ASSUME ForkWhole, StoreInv, BranchInv, [Next]_vars
  PROVE  BranchInv'
<1> USE DEF StoreInv, disk
<1>0. ASSUME manifest' = manifest,
             \A q \in Processes, id \in Ids :
                ForkedBy(q, id) => ForkedBy(q, id)'
      PROVE  BranchInv'
  <2>1. \A id \in Ids : File(id)' = File(id)
    BY <1>0 DEF File
  <2> QED BY <1>0, <2>1 DEF BranchInv
<1>1. CASE task' = task /\ manifest' = manifest
  BY <1>0, <1>1 DEF ForkedBy
<1>2. ASSUME NEW p \in Processes,
             \A q \in Processes \ {p} : task'[q] = task[q],
             manifest' = manifest,
             task[p] # None => task[p].op # "fork"
      PROVE  BranchInv'
  BY <1>0, <1>2 DEF ForkedBy
<1>3. ASSUME NEW p \in Processes,
             \A q \in Processes \ {p} : task'[q] = task[q],
             \/ Decode(p) \/ Leave(p) \/ save_with_kv(p) \/ Guard(p)
             \/ Sweep(p) \/ Save(p) \/ Confirm(p) \/ DeletePrevious(p)
             \/ Restore(p) \/ gc_orphans(p) \/ Crash(p)
             \/ \E id \in Ids : load_with_kv(p, id) \/ gc_consumed(p, id)
      PROVE  BranchInv'
  <2>1. manifest' = manifest
    BY <1>3 DEF Decode, Leave, save_with_kv, Guard, Sweep, Save, Confirm,
                DeletePrevious, Restore, gc_orphans, Crash, load_with_kv,
                gc_consumed
  <2>2. task[p] # None => task[p].op # "fork"
    BY <1>3, CallFacts
       DEF Decode, Leave, save_with_kv, Begin, Guard, Sweep, Save, Confirm,
           DeletePrevious, Restore, gc_orphans, Crash, load_with_kv,
           gc_consumed, At
  <2> QED BY <1>2, <1>3, <2>1, <2>2
<1>4. ASSUME NEW p \in Processes,
             \A q \in Processes \ {p} : task'[q] = task[q], Commit(p)
      PROVE  BranchInv'
  <2>1. /\ task[p] # None /\ task[p].op = "save" /\ task[p].at = "commit"
        /\ task[p].id \in Ids /\ task[p].file \in Blobs
    BY <1>4, CallFacts DEF Commit, At
  <2>2. PICK mine \in Ids : mine = task[p].id
    BY <2>1
  <2>3. \A id \in Ids \ {mine} :
           File(id)' = File(id) /\ ~ ForkedBy(p, id)
    BY <1>4, <2>1, <2>2 DEF Commit, File, TypeOK, ForkedBy
  <2>4. File(mine)' \in {None, task[p].file}
    BY <1>4, <2>2 DEF Commit, File, TypeOK
  <2>5. \A id \in Ids : File(id) # task[p].file
    BY <2>1 DEF NewBlobs, Makes, Writing
  <2> QED BY <1>4, <2>3, <2>4, <2>5, BranchLocal
<1>5. ASSUME NEW p \in Processes,
             \A q \in Processes \ {p} : task'[q] = task[q],
             NEW id \in Ids, NEW new_id \in Ids, fork_with_kv(p, id, new_id)
      PROVE  BranchInv'
  <2>1. /\ task[p] = None /\ manifest[new_id] = None
        /\ manifest' = [manifest EXCEPT ![new_id] = manifest[id]]
    BY <1>5 DEF fork_with_kv, Begin
  <2>2. \A i \in Ids \ {new_id} : File(i)' = File(i) /\ ~ ForkedBy(p, i)
    BY <2>1 DEF File, TypeOK, ForkedBy
  <2>3. File(new_id)' = File(id)
    BY <2>1 DEF File, TypeOK
  <2>4. File(id) # None => ForkedBy(p, new_id)'
    BY <1>5, FileType, BeginFork DEF fork_with_kv, ForkedBy
  <2> QED BY <1>5, <2>2, <2>3, <2>4, BranchLocal
<1>6. ASSUME NEW p \in Processes,
             \A q \in Processes \ {p} : task'[q] = task[q], Copy(p)
      PROVE  BranchInv'
  <2>1. /\ task[p] # None /\ task[p].op = "fork" /\ task[p].id \in Ids
    BY <1>6, CallFacts DEF Copy, At
  <2>2. \A i \in Ids \ {task[p].id} : ~ ForkedBy(p, i)
    BY <2>1 DEF ForkedBy
  <2>3. CASE /\ \A i \in Ids \ {task[p].id} : manifest'[i] = manifest[i]
             /\ manifest'[task[p].id].kv = None
    <3>1. PICK mine \in Ids : mine = task[p].id
      BY <2>1
    <3>2. /\ \A i \in Ids \ {mine} : File(i)' = File(i)
          /\ File(mine)' = None
      BY <2>3, <3>1 DEF File
    <3> QED BY <1>6, <2>2, <3>1, <3>2, BranchLocal
  <2>4. CASE /\ manifest' = manifest /\ task'[p] # None
             /\ task'[p].op = "fork" /\ task'[p].id = task[p].id
    <3>1. \A q \in Processes, i \in Ids : ForkedBy(q, i) => ForkedBy(q, i)'
      BY <1>6, <2>2, <2>4 DEF ForkedBy
    <3> QED BY <1>0, <2>4, <3>1
  <2> QED BY <1>6, <2>3, <2>4, CopyDoes
<1>7. ASSUME NEW p \in Processes,
             \A q \in Processes \ {p} : task'[q] = task[q], Clone(p)
      PROVE  BranchInv'
  <2>1. /\ task[p] # None /\ task[p].at = "clone" /\ task[p].id \in Ids
        /\ \A i \in Ids \ {task[p].id} : manifest'[i] = manifest[i]
        /\ manifest'[task[p].id] # None /\ manifest'[task[p].id].kv # None
        /\ manifest'[task[p].id].kv.file = task[p].file
    BY <1>7, CloneDoes
  <2>2. PICK mine \in Ids : mine = task[p].id
    BY <2>1
  <2>3. \A i \in Ids \ {mine} : File(i)' = File(i) /\ ~ ForkedBy(p, i)
    BY <2>1, <2>2 DEF File, ForkedBy
  <2>4. File(mine)' = task[p].file
    BY <2>1, <2>2 DEF File
  <2>5. \A i \in Ids : File(i) # task[p].file
    BY <2>1 DEF NewBlobs, Makes
  <2> QED BY <1>7, <2>3, <2>4, <2>5, BranchLocal
<1> QED BY <1>1, <1>3, <1>4, <1>5, <1>6, <1>7, OthersStay

\* Each branch has its own copy of the blob once no fork is under way: no save,
\* sweep, load, crash or fork of a fork makes two checkpoints share one, where
\* fork_with_kv runs to its end.
THEOREM OwnBlobs ==
  ASSUME ForkWhole
  PROVE  Spec => []OwnBlob
<1>1. Init => BranchInv
  BY DEF Init, BranchInv, File
<1>2. StoreInv /\ BranchInv /\ [Next]_vars => BranchInv'
  BY BranchStep
<1>3. StoreInv /\ BranchInv => OwnBlob
  BY DEF BranchInv, OwnBlob, ForkedBy
<1> QED BY <1>1, <1>2, <1>3, StoreInvariant, PTL DEF Spec

-----------------------------------------------------------------------------
(* Blobs and slots hold what they are thought to hold.                     *)

\* Blobs are deleted, or written under names no checkpoint has; a checkpoint
\* that is not an earlier one comes with a blob that holds its history.
LEMMA BlobsKept ==
  ASSUME StoreInv, BlobsOwn,
         \A b \in Blobs : \/ blob'[b] \in {blob[b], None}
                          \/ \A id \in Ids : File(id) # b,
         \A id \in Ids :
            \/ \E other \in Ids : manifest'[id] = manifest[other]
            \/ File(id)' # None /\ blob'[File(id)'] # None =>
                  blob'[File(id)'] =
                      Cache(manifest'[id].history, manifest'[id].kv.model)
  PROVE  BlobsOwn'
<1> SUFFICES ASSUME NEW id \in Ids,
                    File(id)' # None, blob'[File(id)'] # None
             PROVE  blob'[File(id)'] =
                      Cache(manifest'[id].history, manifest'[id].kv.model)
  BY DEF BlobsOwn, Cache
<1>1. ASSUME NEW other \in Ids, manifest'[id] = manifest[other]
      PROVE  blob'[File(id)'] =
               Cache(manifest'[id].history, manifest'[id].kv.model)
  <2>1. File(id)' = File(other)
    BY <1>1 DEF File
  <2>2. File(other) \in Blobs
    BY <2>1, FileType DEF StoreInv
  <2>3. blob'[File(other)] = blob[File(other)]
    BY <2>1, <2>2
  <2> QED BY <1>1, <2>1, <2>3 DEF BlobsOwn
<1> QED BY <1>1

\* The others' calls rely on their own session, slot, checkpoint and blob.
LEMMA CachesLocal ==
  ASSUME StoreInv, CallsCache, NEW p \in Processes, server' = server,
         \A q \in Processes \ {p} :
            /\ task'[q] = task[q] /\ session'[q] = session[q]
            /\ slot'[q] = slot[q]
            /\ task[q] # None /\ task[q].id \in Ids =>
                  manifest'[task[q].id] = manifest[task[q].id]
            /\ task[q] # None /\ task[q].file \in Blobs =>
                  blob'[task[q].file] \in {blob[task[q].file], None},
         task'[p] # None => CallCache(p, task[p])'
  PROVE  CallsCache'
<1> SUFFICES ASSUME NEW q \in Processes \ {p}, task'[q] # None
             PROVE  CallCache(q, task[q])'
  BY DEF CallsCache
<1>1. /\ task'[q] = task[q] /\ session'[q] = session[q] /\ slot'[q] = slot[q]
      /\ task[q] # None /\ CallCache(q, task[q])
  BY DEF CallsCache
<1>2. task[q].at \in {"restore", "clone", "confirm", "commit"} =>
         task[q].id \in Ids /\ task[q].file \in Blobs
  BY <1>1, CallFacts DEF StoreInv
<1>3. task[q].id \in Ids => manifest'[task[q].id] = manifest[task[q].id]
  BY <1>1
<1>4. task[q].file \in Blobs =>
         blob'[task[q].file] \in {blob[task[q].file], None}
  BY <1>1
<1>5. /\ task[q].op = "save" /\ task[q].at \in {"guard", "sweep", "save"} =>
            slot'[q] = Cache(session'[q].history, server')
      /\ task[q].at = "commit" => task[q].model = server'
  BY <1>1 DEF CallCache
<1>6. task[q].at \in {"confirm", "commit"} /\ blob'[task[q].file] # None =>
         blob'[task[q].file] = Cache(session'[q].history, server')
  BY <1>1, <1>2, <1>4 DEF CallCache
<1>7. task[q].at = "restore" => manifest'[task[q].id].kv.model = server'
  BY <1>1, <1>2, <1>3 DEF CallCache
<1>8. task[q].at = "clone" /\ blob'[task[q].file] # None =>
         blob'[task[q].file] =
           Cache(manifest'[task[q].id].history, manifest'[task[q].id].kv.model)
  BY <1>1, <1>2, <1>3, <1>4 DEF CallCache
<1> QED BY <1>1, <1>5, <1>6, <1>7, <1>8 DEF CallCache, Cache

\* A call that keeps its session, slot and checkpoint.
LEMMA SlotsLocal ==
  ASSUME SlotsLive, NEW p \in Processes, server' = server,
         \A q \in Processes \ {p} : slot'[q] = slot[q],
         slot'[p] # None => slot'[p] = slot[p] \/ slot'[p].model = server
  PROVE  SlotsLive'
BY DEF SlotsLive

\* Every step keeps the caches the sessions' own, where the server is only
\* restarted between calls.
LEMMA CacheStep ==
  ASSUME Steady, StoreInv, CacheInv, [Next]_vars
  PROVE  CacheInv'
<1> USE DEF StoreInv, CacheInv, disk
<1> DEFINE Apart(p) ==
             \A q \in Processes \ {p} :
               /\ task'[q] = task[q] /\ session'[q] = session[q]
               /\ slot'[q] = slot[q]
           Fewer == \A b \in Blobs : blob'[b] \in {blob[b], None}
<1>1. CASE Restart \/ UNCHANGED vars
  <2>1. CASE Restart
    <3>1. /\ manifest' = manifest /\ blob' = blob
          /\ \A p \in Processes : task'[p] = None /\ slot'[p] = None
      BY <2>1 DEF Restart
    <3>2. BlobsOwn'
      BY <3>1, BlobsKept
    <3> QED BY <3>1, <3>2 DEF SlotsLive, CallsCache
  <2>2. CASE UNCHANGED vars
    BY <2>2 DEF vars, BlobsOwn, SlotsLive, CallsCache, CallCache, File, Cache
  <2> QED BY <1>1, <2>1, <2>2
<1>2. ASSUME NEW p \in Processes, Apart(p), server' = server,
             manifest' = manifest, Fewer,
             slot'[p] # None => slot'[p] = slot[p] \/ slot'[p].model = server,
             task'[p] # None => CallCache(p, task[p])'
      PROVE  CacheInv'
  <2>1. BlobsOwn'
    BY <1>2, BlobsKept
  <2>2. SlotsLive'
    BY <1>2, SlotsLocal
  <2>3. CallsCache'
    <3>1. \A q \in Processes \ {p} :
            /\ task[q] # None /\ task[q].id \in Ids =>
                  manifest'[task[q].id] = manifest[task[q].id]
            /\ task[q] # None /\ task[q].file \in Blobs =>
                  blob'[task[q].file] \in {blob[task[q].file], None}
      BY <1>2
    <3> QED BY <1>2, <3>1, CachesLocal
  <2> QED BY <2>1, <2>2, <2>3
<1>3. ASSUME NEW p \in Processes, Apart(p), server' = server,
             \/ Decode(p) \/ Leave(p) \/ DeletePrevious(p) \/ Restore(p)
             \/ Crash(p) \/ \E id \in Ids : gc_consumed(p, id)
      PROVE  CacheInv'
  <2>1. task'[p] = None /\ manifest' = manifest
    BY <1>3 DEF Decode, Leave, DeletePrevious, Restore, Crash, gc_consumed,
                Return, TypeOK
  <2>2. Fewer
    BY <1>3, WithoutType
       DEF Decode, Leave, DeletePrevious, Restore, Crash, gc_consumed
  <2>3. slot'[p] # None => slot'[p] = slot[p] \/ slot'[p].model = server
    <3>1. CASE slot' = slot
      BY <3>1
    <3>2. CASE Decode(p)
      BY <3>2 DEF Decode, TypeOK
    <3>3. CASE Restore(p) /\ slot' # slot
      <4>1. /\ task[p] # None /\ task[p].at = "restore"
            /\ slot'[p] = blob[task[p].file] /\ slot'[p] # None
        BY <3>3, RestoreDoes
      <4>2. /\ task[p].id \in Ids /\ task[p].file = File(task[p].id)
            /\ File(task[p].id) # None
        BY <4>1, CallFacts, KVStoreAssumption
      <4>3. manifest[task[p].id].kv.model = server
        BY <4>1 DEF CallsCache, CallCache
      <4>4. slot'[p] = Cache(manifest[task[p].id].history,
                             manifest[task[p].id].kv.model)
        BY <4>1, <4>2 DEF BlobsOwn
      <4> QED BY <4>3, <4>4 DEF Cache
    <3> QED BY <1>3, <3>1, <3>2, <3>3
            DEF Leave, DeletePrevious, Crash, gc_consumed
  <2> QED BY <1>2, <1>3, <2>1, <2>2, <2>3
<1>4. ASSUME NEW p \in Processes, Apart(p), server' = server, save_with_kv(p)
      PROVE  CacheInv'
  <2>1. PICK b \in New :
            Begin(p, "save", "guard", session[p].id, b, File(session[p].id))
    BY <1>4 DEF save_with_kv
  <2>2. session[p].id \in Ids /\ b \in Blobs
    BY <1>4, NewIsNew DEF save_with_kv, TypeOK, Sessions
  <2>3. task'[p].op = "save" /\ task'[p].at = "guard"
    BY <2>1, <2>2, FileType, BeginSave
  <2>4. /\ manifest' = manifest /\ blob' = blob /\ slot' = slot
        /\ session' = session
        /\ slot[p] # None /\ slot[p].history = session[p].history
    BY <1>4 DEF save_with_kv
  <2>5. slot[p] \in Caches /\ slot[p].model = server
    BY <2>4 DEF TypeOK, SlotsLive
  <2>6. slot[p] = Cache(session[p].history, server)
    BY <2>4, <2>5 DEF Caches, Cache
  <2>7. CallCache(p, task[p])'
    BY <1>4, <2>3, <2>4, <2>6 DEF CallCache, Cache
  <2> QED BY <1>2, <1>4, <2>4, <2>7
<1>5. ASSUME NEW p \in Processes, Apart(p), server' = server,
             Guard(p) \/ Sweep(p)
      PROVE  CacheInv'
  <2>1. /\ manifest' = manifest /\ slot' = slot /\ session' = session
        /\ task[p] # None /\ task[p] \in Tasks
        /\ task[p].at \in {"guard", "sweep"}
    BY <1>5 DEF Guard, Sweep, At, TypeOK
  <2>2. Fewer
    BY <1>5, SweepDoes DEF Guard
  <2>3. \/ task'[p] = None
        \/ /\ task[p].op = "save" /\ task'[p].op = "save"
           /\ task'[p].at \in {"save", "sweep"}
    <3>1. CASE Return(p)
      BY <3>1 DEF Return, TypeOK
    <3>2. CASE GoTo(p, "save") /\ task[p].op = "save"
      BY <2>1, <3>2 DEF GoTo, TypeOK, Tasks
    <3>3. CASE /\ Guard(p)
               /\ task' = [task EXCEPT ![p].at = "sweep", ![p].kept = Referenced]
      <4>1. task[p].op = "save"
        BY <3>3, CallFacts DEF Guard, At
      <4> QED BY <2>1, <3>3, <4>1 DEF TypeOK, Tasks
    <3>4. CASE Guard(p) /\ GoTo(p, "save")
      BY <3>2, <3>4, CallFacts DEF Guard, At
    <3>5. CASE Sweep(p)
      BY <3>1, <3>2, <3>5, SweepDoes
    <3> QED BY <1>5, <3>1, <3>3, <3>4, <3>5 DEF Guard
  <2>4. task[p].op = "save" => slot[p] = Cache(session[p].history, server)
    BY <2>1 DEF CallsCache, CallCache
  <2>5. task'[p] # None => CallCache(p, task[p])'
    BY <1>5, <2>1, <2>3, <2>4 DEF CallCache, Cache
  <2> QED BY <1>2, <1>5, <2>1, <2>2, <2>5
<1>6. ASSUME NEW p \in Processes, Apart(p), server' = server, Save(p)
      PROVE  CacheInv'
  <2>1. /\ task[p] # None /\ task[p] \in Tasks
        /\ task[p].op = "save" /\ task[p].at = "save"
        /\ task[p].file \in Blobs
    BY <1>6, CallFacts DEF Save, At
  <2>2. slot[p] = Cache(session[p].history, server)
    BY <2>1 DEF CallsCache, CallCache
  <2>3. /\ manifest' = manifest /\ slot' = slot /\ session' = session
    BY <1>6 DEF Save
  <2>4. \/ blob' = blob /\ Return(p)
        \/ /\ blob' = [blob EXCEPT ![task[p].file] = slot[p]]
           /\ GoTo(p, "confirm") \/ Return(p)
    BY <1>6 DEF Save
  <2>5. \A b \in Blobs : b # task[p].file => blob'[b] = blob[b]
    BY <2>4 DEF TypeOK
  <2>6. /\ \A id \in Ids : File(id) # task[p].file
        /\ \A q \in Processes \ {p} :
             task[q] # None => task[q].file # task[p].file
    BY <2>1 DEF NewBlobs, Makes, Writing
  <2>7. BlobsOwn'
    BY <2>3, <2>5, <2>6, BlobsKept
  <2>8. task'[p] # None => CallCache(p, task[p])'
    <3>1. CASE Return(p)
      BY <3>1 DEF Return, TypeOK
    <3>2. CASE /\ blob' = [blob EXCEPT ![task[p].file] = slot[p]]
               /\ GoTo(p, "confirm")
      <4>1. /\ task'[p].op = "save" /\ task'[p].at = "confirm"
            /\ task'[p].file = task[p].file
        BY <2>1, <3>2 DEF GoTo, TypeOK, Tasks
      <4>2. blob'[task'[p].file] = slot[p]
        BY <2>1, <3>2, <4>1 DEF TypeOK
      <4> QED BY <1>6, <2>2, <2>3, <4>1, <4>2 DEF CallCache, Cache
    <3> QED BY <2>4, <3>1, <3>2
  <2>9. CallsCache'
    BY <1>6, <2>3, <2>5, <2>6, <2>8, CachesLocal
  <2> QED BY <1>6, <2>3, <2>7, <2>9, SlotsLocal
<1>7. ASSUME NEW p \in Processes, Apart(p), server' = server, Confirm(p)
      PROVE  CacheInv'
  <2>1. /\ task[p] # None /\ task[p] \in Tasks
        /\ task[p].op = "save" /\ task[p].at = "confirm"
    BY <1>7, CallFacts DEF Confirm, At
  <2>2. /\ manifest' = manifest /\ blob' = blob /\ slot' = slot
        /\ session' = session
    BY <1>7 DEF Confirm
  <2>3. \/ task'[p] = None
        \/ /\ task'[p].op = "save" /\ task'[p].at = "commit"
           /\ task'[p].file = task[p].file /\ task'[p].model = server
    BY <1>7, <2>1 DEF Confirm, Return, TypeOK, Tasks
  <2>4. blob[task[p].file] # None =>
           blob[task[p].file] = Cache(session[p].history, server)
    BY <2>1 DEF CallsCache, CallCache
  <2>5. task'[p] # None => CallCache(p, task[p])'
    BY <1>7, <2>1, <2>2, <2>3, <2>4 DEF CallCache, Cache
  <2> QED BY <1>2, <1>7, <2>2, <2>5
<1>8. ASSUME NEW p \in Processes, Apart(p), server' = server, Commit(p)
      PROVE  CacheInv'
  <2>1. /\ task[p] # None /\ task[p] \in Tasks
        /\ task[p].op = "save" /\ task[p].at = "commit"
        /\ session[p] # None /\ session[p].id = task[p].id
        /\ task[p].id \in Ids /\ task[p].file \in Blobs
    BY <1>8, CallFacts DEF Commit, At
  <2>2. /\ blob' = blob /\ slot' = slot /\ session' = session
        /\ \A id \in Ids \ {task[p].id} : manifest'[id] = manifest[id]
        /\ GoTo(p, "delete")
    BY <1>8 DEF Commit, TypeOK
  <2>3. manifest'[task[p].id] =
          [history |-> session[p].history,
           kv |-> [file |-> task[p].file, model |-> task[p].model]]
    BY <1>8, <2>1 DEF Commit, TypeOK
  <2>4. /\ task[p].model = server
        /\ blob[task[p].file] # None =>
              blob[task[p].file] = Cache(session[p].history, server)
    BY <2>1 DEF CallsCache, CallCache
  <2>5. PICK mine \in Ids : mine = task[p].id
    BY <2>1
  <2>6. File(mine)' \in {None, task[p].file}
    BY <2>3, <2>5 DEF File
  <2>7. \A id \in Ids :
          \/ \E other \in Ids : manifest'[id] = manifest[other]
          \/ File(id)' # None /\ blob'[File(id)'] # None =>
                blob'[File(id)'] =
                    Cache(manifest'[id].history, manifest'[id].kv.model)
    <3> SUFFICES ASSUME File(mine)' # None, blob'[File(mine)'] # None
                 PROVE  blob'[File(mine)'] =
                          Cache(manifest'[mine].history,
                                manifest'[mine].kv.model)
      BY <2>2, <2>5
    <3>1. blob'[File(mine)'] = Cache(session[p].history, server)
      BY <2>2, <2>4, <2>6
    <3>2. /\ manifest'[mine].history = session[p].history
          /\ manifest'[mine].kv.model = server
      BY <2>3, <2>4, <2>5
    <3> QED BY <3>1, <3>2
  <2>8. BlobsOwn'
    BY <2>2, <2>7, BlobsKept
  <2>9. CallsCache'
    <3>1. \A q \in Processes \ {p} : task[q] # None => task[q].id # task[p].id
      BY <2>1, CallsApart
    <3>2. task'[p].op = "save" /\ task'[p].at = "delete"
      BY <2>1, <2>2 DEF GoTo, TypeOK, Tasks
    <3>3. CallCache(p, task[p])'
      BY <3>2 DEF CallCache
    <3> QED BY <1>8, <2>2, <3>1, <3>3, CachesLocal
  <2> QED BY <1>8, <2>2, <2>8, <2>9, SlotsLocal
<1>9. ASSUME NEW p \in Processes, Apart(p), server' = server,
             NEW id \in Ids, load_with_kv(p, id)
      PROVE  CacheInv'
  <2>1. manifest' = manifest /\ slot' = slot /\ task[p] = None
    BY <1>9 DEF load_with_kv
  <2>2. Fewer
    BY <1>9, WithoutType DEF load_with_kv
  <2>3. task'[p] # None => CallCache(p, task[p])'
    <3>1. CASE task' = task
      BY <2>1, <3>1
    <3>2. CASE /\ File(id) # None /\ Portable(manifest[id].kv)
               /\ Begin(p, "load", "restore", id, File(id), None)
      <4>1. /\ task'[p].op = "load" /\ task'[p].at = "restore"
            /\ task'[p].id = id
        BY <3>2, FileType, BeginLoad
      <4>2. manifest'[task'[p].id].kv.model = server'
        BY <1>9, <2>1, <3>2, <4>1 DEF Portable
      <4> QED BY <4>1, <4>2 DEF CallCache
    <3> QED BY <1>9, <3>1, <3>2 DEF load_with_kv
  <2> QED BY <1>2, <1>9, <2>1, <2>2, <2>3
<1>10. ASSUME NEW p \in Processes, Apart(p), server' = server,
              NEW id \in Ids, NEW new_id \in Ids, fork_with_kv(p, id, new_id)
       PROVE  CacheInv'
  <2>1. /\ manifest' = [manifest EXCEPT ![new_id] = manifest[id]]
        /\ blob' = blob /\ slot' = slot /\ session' = session
        /\ task[p] = None /\ Free(new_id)
    BY <1>10 DEF fork_with_kv, Begin
  <2>2. BlobsOwn'
    <3>1. \A i \in Ids : \E other \in Ids : manifest'[i] = manifest[other]
      BY <2>1 DEF TypeOK
    <3> QED BY <2>1, <3>1, BlobsKept
  <2>3. task'[p] # None => CallCache(p, task[p])'
    <3>1. CASE task' = task
      BY <2>1, <3>1
    <3>2. CASE Begin(p, "fork", "copy", new_id, None, File(id))
      <4>1. task'[p].op = "fork" /\ task'[p].at = "copy"
        BY <3>2, FileType, BeginFork
      <4> QED BY <4>1 DEF CallCache
    <3> QED BY <1>10, <3>1, <3>2 DEF fork_with_kv
  <2>4. CallsCache'
    <3>1. \A q \in Processes :
             task[q] # None /\ task[q].id \in Ids =>
                manifest'[task[q].id] = manifest[task[q].id]
      BY <2>1 DEF Free, TypeOK
    <3> QED BY <1>10, <2>1, <2>3, <3>1, CachesLocal
  <2> QED BY <1>10, <2>1, <2>2, <2>4, SlotsLocal
<1>11. ASSUME NEW p \in Processes, Apart(p), server' = server, Copy(p)
       PROVE  CacheInv'
  <2>1. /\ task[p] # None /\ task[p].op = "fork"
        /\ task[p].id \in Ids /\ task[p].old \in Blobs
        /\ task[p].old = File(task[p].id)
        /\ slot' = slot /\ session' = session
    BY <1>11, CallFacts DEF Copy, At
  <2>2. \A q \in Processes \ {p} : task[q] # None => task[q].id # task[p].id
    BY <2>1, CallsApart DEF ForkedBy
  <2>3. SlotsLive'
    BY <1>11, <2>1, SlotsLocal
  <2>4. CASE /\ blob' = blob /\ TaskIs(p, None)
             /\ \A i \in Ids \ {task[p].id} : manifest'[i] = manifest[i]
             /\ manifest'[task[p].id].kv = None
    <3>1. PICK mine \in Ids : mine = task[p].id
      BY <2>1
    <3>2. File(mine)' = None
      BY <2>4, <3>1 DEF File
    <3>3. \A i \in Ids : i = mine \/ manifest'[i] = manifest[i]
      BY <2>4, <3>1
    <3>4. BlobsOwn'
      BY <2>4, <3>2, <3>3, BlobsKept
    <3>5. CallsCache'
      <4>1. task'[p] = None
        BY <2>4 DEF TaskIs
      <4> QED BY <1>11, <2>2, <2>4, <4>1, CachesLocal
    <3> QED BY <2>3, <3>4, <3>5
  <2>5. ASSUME NEW b \in New, manifest' = manifest,
               \A c \in Blobs \ {b} : blob'[c] = blob[c],
               \/ TaskIs(p, None)
               \/ /\ blob'[b] = blob[task[p].old]
                  /\ task'[p].op = "fork" /\ task'[p].at = "clone"
                  /\ task'[p].id = task[p].id /\ task'[p].file = b
        PROVE  CacheInv'
    <3>1. /\ b \in Blobs /\ \A i \in Ids : File(i) # b
          /\ \A q \in Processes : task[q] # None => task[q].file # b
      BY NewIsNew
    <3>2. BlobsOwn'
      BY <2>5, <3>1, BlobsKept
    <3>3. task'[p] # None => CallCache(p, task[p])'
      <4>1. CASE TaskIs(p, None)
        BY <4>1 DEF TaskIs
      <4>2. CASE /\ blob'[b] = blob[task[p].old]
                 /\ task'[p].op = "fork" /\ task'[p].at = "clone"
                 /\ task'[p].id = task[p].id /\ task'[p].file = b
        <5>1. blob[task[p].old] # None =>
                blob[task[p].old] = Cache(manifest[task[p].id].history,
                                          manifest[task[p].id].kv.model)
          BY <2>1, KVStoreAssumption DEF BlobsOwn
        <5> QED BY <2>5, <4>2, <5>1 DEF CallCache, Cache
      <4> QED BY <2>5, <4>1, <4>2
    <3>4. CallsCache'
      BY <1>11, <2>5, <3>1, <3>3, CachesLocal
    <3> QED BY <2>3, <3>2, <3>4
  <2> QED BY <1>11, <2>4, <2>5, CopyDoes
<1>12. ASSUME NEW p \in Processes, Apart(p), server' = server, Clone(p)
       PROVE  CacheInv'
  <2>1. /\ task[p] # None /\ task[p].op = "fork" /\ task[p].at = "clone"
        /\ task[p].id \in Ids /\ task[p].file \in Blobs
        /\ \A i \in Ids \ {task[p].id} : manifest'[i] = manifest[i]
        /\ manifest'[task[p].id] # None /\ manifest'[task[p].id].kv # None
        /\ manifest'[task[p].id].kv.file = task[p].file
        /\ manifest'[task[p].id].kv.model = manifest[task[p].id].kv.model
        /\ manifest'[task[p].id].history = manifest[task[p].id].history
    BY <1>12, CloneDoes
  <2>2. /\ blob' = blob /\ slot' = slot /\ session' = session
        /\ TaskIs(p, None)
    BY <1>12, ReturnTask DEF Clone
  <2>3. blob[task[p].file] # None =>
          blob[task[p].file] = Cache(manifest[task[p].id].history,
                                     manifest[task[p].id].kv.model)
    BY <2>1 DEF CallsCache, CallCache
  <2>4. PICK mine \in Ids : mine = task[p].id
    BY <2>1
  <2>5. File(mine)' = task[p].file
    BY <2>1, <2>4 DEF File
  <2>6. BlobsOwn'
    <3>1. blob'[File(mine)'] # None =>
             blob'[File(mine)'] =
               Cache(manifest'[mine].history, manifest'[mine].kv.model)
      BY <2>1, <2>2, <2>3, <2>4, <2>5
    <3>2. \A i \in Ids : i = mine \/ manifest'[i] = manifest[i]
      BY <2>1, <2>4
    <3> QED BY <2>2, <3>1, <3>2, BlobsKept
  <2>7. CallsCache'
    <3>1. \A q \in Processes \ {p} : task[q] # None => task[q].id # task[p].id
      BY <2>1, CallsApart DEF ForkedBy
    <3>2. task'[p] = None
      BY <2>2 DEF TaskIs
    <3> QED BY <1>12, <2>1, <2>2, <3>1, <3>2, CachesLocal
  <2> QED BY <1>12, <2>2, <2>6, <2>7, SlotsLocal
<1>13. ASSUME NEW p \in Processes, Apart(p), server' = server, gc_orphans(p)
       PROVE  CacheInv'
  <2>1. /\ manifest' = manifest /\ blob' = blob /\ slot' = slot
        /\ task'[p].op = "gc" /\ task'[p].at = "sweep"
    BY <1>13 DEF gc_orphans, TypeOK
  <2>2. CallCache(p, task[p])'
    BY <2>1 DEF CallCache
  <2> QED BY <1>2, <1>13, <2>1, <2>2
<1> HIDE DEF CacheInv
<1> QED BY <1>1, <1>3, <1>4, <1>5, <1>6, <1>7, <1>8, <1>9, <1>10, <1>11, <1>12,
           <1>13, OthersStay

\* A warm start is the session's own: what is restored into the slot is the
\* cache of the history load_with_kv returned, for the model that is loaded,
\* whatever was saved, forked, swept or lost before, where the server is only
\* restarted between calls.
THEOREM WarmStarts ==
  ASSUME Steady
  PROVE  Spec => WarmStartIsOwn
<1>1. Init => CacheInv
  BY DEF Init, CacheInv, BlobsOwn, SlotsLive, CallsCache, File
<1>2. StoreInv /\ CacheInv /\ [Next]_vars => CacheInv'
  BY CacheStep
<1>3. StoreInv /\ CacheInv /\ [Next]_vars =>
        \A p \in Processes :
          consumed'[p] # consumed[p] /\ slot'[p] # slot[p] =>
              slot'[p] = [history |-> session[p].history, model |-> server]
  <2> SUFFICES ASSUME StoreInv, CacheInv, [Next]_vars, NEW p \in Processes,
                      consumed'[p] # consumed[p], slot'[p] # slot[p]
               PROVE  slot'[p] = [history |-> session[p].history,
                                  model |-> server]
    OBVIOUS
  <2> USE DEF StoreInv, CacheInv
  <2>1. Restore(p)
    <3>1. PICK q \in Processes :
            /\ \A r \in Processes \ {q} : slot'[r] = slot[r]
            /\ \/ Decode(q) \/ Leave(q) \/ save_with_kv(q) \/ Guard(q)
               \/ Sweep(q) \/ Save(q) \/ Confirm(q) \/ Commit(q)
               \/ DeletePrevious(q) \/ Restore(q) \/ Copy(q) \/ Clone(q)
               \/ gc_orphans(q) \/ Crash(q)
               \/ \E id \in Ids : load_with_kv(q, id) \/ gc_consumed(q, id)
               \/ \E id, new_id \in Ids : fork_with_kv(q, id, new_id)
      BY OthersStay
    <3>2. q = p
      BY <3>1
    <3> QED BY <3>1, <3>2
            DEF Decode, Leave, save_with_kv, Guard, Sweep, Save, Confirm,
                Commit, DeletePrevious, Copy, Clone, gc_orphans, Crash,
                load_with_kv, gc_consumed, fork_with_kv
  <2>2. /\ task[p] # None /\ task[p].at = "restore"
        /\ slot'[p] = blob[task[p].file] /\ slot'[p] # None
    BY <2>1, RestoreDoes
  <2>3. /\ task[p].id \in Ids /\ task[p].file = File(task[p].id)
        /\ File(task[p].id) # None
        /\ session[p].history = manifest[task[p].id].history
    BY <2>2, CallFacts, KVStoreAssumption
  <2>4. manifest[task[p].id].kv.model = server
    BY <2>2 DEF CallsCache, CallCache
  <2> QED BY <2>2, <2>3, <2>4 DEF BlobsOwn, Cache
<1> QED BY <1>1, <1>2, <1>3, StoreInvariant, PTL DEF Spec, WarmStartIsOwn

-----------------------------------------------------------------------------
(* No checkpoint loses its blob where one process uses the store.          *)

\* The one process is not in a fork.
LEMMA NoFork ==
  ASSUME Alone, NEW p \in Processes, task[p] # None => task[p].op # "fork"
  PROVE  \A q \in Processes : \A id \in Ids : ~ ForkedBy(q, id)
BY DEF Alone, ForkedBy

\* Restored blobs are given up, and no checkpoint takes one over.
LEMMA ConsumedLocal ==
  ASSUME TypeOK, ConsumedOwn,
         \A q \in Processes, id \in Ids :
            consumed'[q][id] \in {consumed[q][id], None},
         \A id \in Ids :
            \/ /\ File(id)' = File(id)
               /\ \A q \in Processes : ForkedBy(q, id) => ForkedBy(q, id)'
            \/ File(id)' = None
            \/ \E q \in Processes : ForkedBy(q, id)'
            \/ \A q \in Processes, i \in Ids : consumed[q][i] # File(id)'
  PROVE  ConsumedOwn'
<1> SUFFICES ASSUME NEW q \in Processes, NEW id \in Ids, NEW other \in Ids,
                    consumed'[q][id] # None, id # other
             PROVE  /\ consumed'[q][other] # consumed'[q][id]
                    /\ File(other)' = consumed'[q][id] =>
                          \E r \in Processes : ForkedBy(r, other)'
  BY DEF ConsumedOwn
<1>1. consumed'[q][id] = consumed[q][id] /\ consumed[q][id] # None
  OBVIOUS
<1>2. /\ consumed[q][other] # consumed[q][id]
      /\ File(other) = consumed[q][id] =>
            \E r \in Processes : ForkedBy(r, other)
  BY <1>1 DEF ConsumedOwn
<1>3. consumed'[q][other] # consumed'[q][id]
  BY <1>1, <1>2
<1>4. ASSUME File(other)' = consumed'[q][id]
      PROVE  \E r \in Processes : ForkedBy(r, other)'
  BY <1>1, <1>2, <1>4
<1> QED BY <1>3, <1>4

\* A restored blob stays the restored session's.
LEMMA ConsumedStep ==
  ASSUME Alone, ForkWhole, StoreInv, BranchInv, ConsumedOwn, [Next]_vars
  PROVE  ConsumedOwn'
<1> USE DEF StoreInv, disk
<1> DEFINE Given == \A q \in Processes, id \in Ids :
                      consumed'[q][id] \in {consumed[q][id], None}
           NoForks == \A q \in Processes : \A id \in Ids : ~ ForkedBy(q, id)
<1>0. ASSUME manifest' = manifest
      PROVE  \A id \in Ids : File(id)' = File(id)
  BY <1>0 DEF File
<1>1. CASE Restart \/ UNCHANGED vars
  <2>1. manifest' = manifest /\ task' = task /\ consumed' = consumed
    BY <1>1 DEF Restart, vars
  <2>2. \A q \in Processes, id \in Ids : ForkedBy(q, id) => ForkedBy(q, id)'
    BY <2>1 DEF ForkedBy
  <2> QED BY <1>0, <2>1, <2>2, ConsumedLocal
<1>2. ASSUME NEW p \in Processes,
             \/ Decode(p) \/ Leave(p) \/ save_with_kv(p) \/ Guard(p)
             \/ Sweep(p) \/ Save(p) \/ Confirm(p) \/ DeletePrevious(p)
             \/ gc_orphans(p)
             \/ \E id \in Ids : load_with_kv(p, id) \/ gc_consumed(p, id)
      PROVE  ConsumedOwn'
  <2>1. manifest' = manifest
    BY <1>2 DEF Decode, Leave, save_with_kv, Guard, Sweep, Save, Confirm,
                DeletePrevious, gc_orphans, load_with_kv, gc_consumed
  <2>2. task[p] # None => task[p].op # "fork"
    BY <1>2, CallFacts
       DEF Decode, Leave, save_with_kv, Begin, Guard, Sweep, Save, Confirm,
           DeletePrevious, gc_orphans, load_with_kv, gc_consumed, At
  <2>3. Given
    <3>1. CASE consumed' = consumed
      BY <3>1
    <3>2. CASE Sweep(p)
      BY <3>2, SweepDoes
    <3>3. ASSUME NEW id \in Ids, gc_consumed(p, id)
          PROVE  Given
      BY <3>3 DEF gc_consumed, TypeOK
    <3> QED BY <1>2, <3>1, <3>2, <3>3
            DEF Decode, Leave, save_with_kv, Guard, Save, Confirm,
                DeletePrevious, gc_orphans, load_with_kv
  <2>4. NoForks
    BY <2>2, NoFork
  <2> QED BY <1>0, <2>1, <2>3, <2>4, ConsumedLocal
<1>3. ASSUME NEW p \in Processes, Crash(p)
      PROVE  ConsumedOwn'
  <2>1. \A q \in Processes, id \in Ids : consumed'[q][id] = None
    BY <1>3 DEF Crash, Alone, TypeOK
  <2> QED BY <2>1 DEF ConsumedOwn
<1>4. ASSUME NEW p \in Processes, Commit(p)
      PROVE  ConsumedOwn'
  <2>1. /\ task[p] # None /\ task[p].op = "save" /\ task[p].at = "commit"
        /\ consumed' = consumed
    BY <1>4, CallFacts DEF Commit, At
  <2>2. \A id \in Ids : \/ File(id)' = File(id)
                        \/ File(id)' \in {None, task[p].file}
    BY <1>4 DEF Commit, File, TypeOK
  <2>3. \A q \in Processes, i \in Ids : consumed[q][i] # task[p].file
    BY <2>1 DEF NewBlobs, Makes, Writing
  <2>4. NoForks
    BY <2>1, NoFork
  <2> QED BY <2>1, <2>2, <2>3, <2>4, ConsumedLocal
<1>5. ASSUME NEW p \in Processes, NEW id \in Ids, NEW new_id \in Ids,
             fork_with_kv(p, id, new_id)
      PROVE  ConsumedOwn'
  <2>1. /\ task[p] = None /\ consumed' = consumed
        /\ manifest' = [manifest EXCEPT ![new_id] = manifest[id]]
    BY <1>5 DEF fork_with_kv, Begin
  <2>2. /\ \A i \in Ids \ {new_id} : File(i)' = File(i)
        /\ File(new_id)' = File(id)
    BY <2>1 DEF File, TypeOK
  <2>3. File(id) # None => ForkedBy(p, new_id)'
    BY <1>5, FileType, BeginFork DEF fork_with_kv, ForkedBy
  <2>4. NoForks
    BY <2>1, NoFork
  <2> QED BY <2>1, <2>2, <2>3, <2>4, ConsumedLocal
<1>6. ASSUME NEW p \in Processes, Copy(p)
      PROVE  ConsumedOwn'
  <2>1. consumed' = consumed /\ task[p] # None /\ task[p].id \in Ids
    BY <1>6, CallFacts DEF Copy, At
  <2>2. PICK mine \in Ids : mine = task[p].id
    BY <2>1
  <2>3. \A q \in Processes : \A i \in Ids \ {mine} : ~ ForkedBy(q, i)
    BY <2>2 DEF ForkedBy, Alone
  <2>4. CASE /\ \A i \in Ids \ {task[p].id} : manifest'[i] = manifest[i]
             /\ manifest'[task[p].id].kv = None
    <3>1. /\ \A i \in Ids \ {mine} : File(i)' = File(i)
          /\ File(mine)' = None
      BY <2>2, <2>4 DEF File
    <3> QED BY <2>1, <2>3, <3>1, ConsumedLocal
  <2>5. CASE manifest' = manifest /\ ForkedBy(p, mine)'
    <3>1. \A i \in Ids : File(i)' = File(i)
      BY <1>0, <2>5
    <3> QED BY <2>1, <2>3, <2>5, <3>1, ConsumedLocal
  <2>6. CASE /\ manifest' = manifest /\ task'[p] # None
             /\ task'[p].op = "fork" /\ task'[p].id = task[p].id
    BY <2>2, <2>5, <2>6 DEF ForkedBy
  <2> QED BY <1>6, <2>4, <2>6, CopyDoes
<1>7. ASSUME NEW p \in Processes, Clone(p)
      PROVE  ConsumedOwn'
  <2>1. /\ task[p] # None /\ task[p].op = "fork" /\ task[p].at = "clone"
        /\ task[p].id \in Ids /\ consumed' = consumed
        /\ \A i \in Ids \ {task[p].id} : manifest'[i] = manifest[i]
        /\ manifest'[task[p].id] # None /\ manifest'[task[p].id].kv # None
        /\ manifest'[task[p].id].kv.file = task[p].file
    BY <1>7, CloneDoes DEF Clone
  <2>2. PICK mine \in Ids : mine = task[p].id
    BY <2>1
  <2>3. \A q \in Processes : \A i \in Ids \ {mine} : ~ ForkedBy(q, i)
    BY <2>2 DEF ForkedBy, Alone
  <2>4. /\ \A i \in Ids \ {mine} : File(i)' = File(i)
        /\ File(mine)' = task[p].file
    BY <2>1, <2>2 DEF File
  <2>5. \A q \in Processes, i \in Ids : consumed[q][i] # task[p].file
    BY <2>1 DEF NewBlobs, Makes
  <2> QED BY <2>1, <2>3, <2>4, <2>5, ConsumedLocal
<1>8. ASSUME NEW p \in Processes, Restore(p)
      PROVE  ConsumedOwn'
  <2>1. manifest' = manifest /\ task[p] # None /\ task[p].at = "restore"
    BY <1>8, RestoreDoes DEF Restore
  <2>2. /\ task[p].op = "load" /\ task[p].id \in Ids
        /\ task[p].file = File(task[p].id) /\ File(task[p].id) # None
    BY <2>1, CallFacts, KVStoreAssumption
  <2>3. NoForks
    BY <2>2, NoFork
  <2>4. \A i \in Ids : File(i)' = File(i)
    BY <1>0, <2>1
  <2>5. CASE consumed' = consumed
    BY <2>3, <2>4, <2>5, ConsumedLocal
  <2>6. CASE /\ \A i \in Ids \ {task[p].id} :
                   consumed'[p][i] = consumed[p][i]
             /\ consumed'[p][task[p].id] = task[p].file
    <3>1. PICK mine \in Ids : mine = task[p].id
      BY <2>2
    <3>2. \A i \in Ids \ {mine} :
             /\ consumed'[p][i] = consumed[p][i]
             /\ consumed[p][i] # File(mine) /\ File(i) # File(mine)
      <4> SUFFICES ASSUME NEW i \in Ids \ {mine}
                   PROVE  consumed[p][i] # File(mine) /\ File(i) # File(mine)
        BY <2>6, <3>1
      <4>1. consumed[p][i] # File(mine)
        BY <2>2, <2>3, <3>1 DEF ConsumedOwn
      <4>2. File(i) # File(mine)
        BY <2>2, <2>3, <3>1 DEF BranchInv
      <4> QED BY <4>1, <4>2
    <3>3. consumed'[p][mine] = File(mine)
      BY <2>2, <2>6, <3>1
    <3>4. \A id, other \in Ids : consumed'[p][id] # None /\ id # other =>
             /\ consumed'[p][other] # consumed'[p][id]
             /\ File(other) # consumed'[p][id]
      BY <2>3, <3>2, <3>3 DEF ConsumedOwn
    <3> QED BY <2>4, <3>4 DEF ConsumedOwn, Alone
  <2> QED BY <1>8, <2>5, <2>6, RestoreDoes
<1> QED BY <1>1, <1>2, <1>3, <1>4, <1>5, <1>6, <1>7, <1>8 DEF Next

\* What the one process's call rests on stays true.
LEMMA AloneStep ==
  ASSUME Alone, ForkWhole, StoreInv, BranchInv, CallsAlone, [Next]_vars
  PROVE  CallsAlone'
<1> USE DEF StoreInv, disk
<1>0. ASSUME manifest' = manifest
      PROVE  /\ \A id \in Ids : File(id)' = File(id)
             /\ Referenced' = Referenced
  BY <1>0 DEF File, Referenced
<1>1. CASE Restart \/ UNCHANGED vars
  <2>1. manifest' = manifest /\ task' = task /\ blob' = blob
    BY <1>1 DEF Restart, vars
  <2> SUFFICES ASSUME NEW q \in Processes, task'[q] # None
               PROVE  CallAlone(q, task[q])'
    BY DEF CallsAlone
  <2>2. task'[q] = task[q] /\ CallAlone(q, task[q]) /\ task[q] # None
    BY <2>1 DEF CallsAlone
  <2>3. File(task[q].id)' = File(task[q].id)
    BY <2>1 DEF File
  <2> QED BY <1>0, <2>1, <2>2, <2>3 DEF CallAlone
<1>2. ASSUME NEW p \in Processes, task'[p] # None => CallAlone(p, task[p])'
      PROVE  CallsAlone'
  BY <1>2 DEF CallsAlone, Alone
<1>3. ASSUME NEW p \in Processes,
             \/ Decode(p) \/ Leave(p) \/ DeletePrevious(p) \/ Restore(p)
             \/ Clone(p) \/ Crash(p) \/ \E id \in Ids : gc_consumed(p, id)
      PROVE  CallsAlone'
  <2>1. task'[p] = None
    BY <1>3 DEF Decode, Leave, DeletePrevious, Restore, Clone, Crash,
                gc_consumed, Return, TypeOK
  <2> QED BY <1>2, <2>1
<1>4. ASSUME NEW p \in Processes, save_with_kv(p)
      PROVE  CallsAlone'
  <2>1. PICK b \in New :
            Begin(p, "save", "guard", session[p].id, b, File(session[p].id))
    BY <1>4 DEF save_with_kv
  <2>2. session[p].id \in Ids /\ b \in Blobs
    BY <1>4, NewIsNew DEF save_with_kv, TypeOK, Sessions
  <2>3. /\ task'[p].op = "save" /\ task'[p].at = "guard"
        /\ task'[p].id = session[p].id /\ task'[p].old = File(session[p].id)
    BY <2>1, <2>2, FileType, BeginSave
  <2>4. \A id \in Ids : File(id)' = File(id)
    BY <1>0, <1>4 DEF save_with_kv
  <2>5. CallAlone(p, task[p])'
    BY <2>2, <2>3, <2>4 DEF CallAlone, File
  <2> QED BY <1>2, <2>5
<1>5. ASSUME NEW p \in Processes,
             Guard(p) \/ Sweep(p) \/ Save(p) \/ Confirm(p)
      PROVE  CallsAlone'
  <2>1. /\ manifest' = manifest /\ task[p] # None /\ task[p] \in Tasks
        /\ task[p].at \in Writing \ {"commit"}
    BY <1>5 DEF Guard, Sweep, Save, Confirm, At, TypeOK, Writing
  <2>2. \/ task'[p] = None
        \/ /\ task[p].op = "save" /\ task'[p].op = "save"
           /\ task'[p].id = task[p].id /\ task'[p].old = task[p].old
           /\ task'[p].file = task[p].file
           /\ task'[p].at \in Writing
           /\ task'[p].at = "sweep" => task'[p].kept = Referenced
           /\ task'[p].at = "commit" => blob'[task[p].file] # None
    <3>1. CASE Return(p)
      BY <3>1 DEF Return, TypeOK
    <3>2. CASE /\ task[p].op = "save"
               /\ GoTo(p, "save") \/ GoTo(p, "confirm")
      BY <2>1, <3>2 DEF GoTo, TypeOK, Tasks, Writing
    <3>3. CASE Guard(p)
      <4>1. task[p].op = "save"
        BY <3>3, CallFacts DEF Guard, At
      <4>2. CASE task' = [task EXCEPT ![p].at = "sweep",
                                      ![p].kept = Referenced]
        BY <2>1, <4>1, <4>2 DEF TypeOK, Tasks, Writing
      <4> QED BY <3>1, <3>2, <3>3, <4>1, <4>2 DEF Guard
    <3>4. CASE Sweep(p)
      BY <3>1, <3>2, <3>4, SweepDoes
    <3>5. CASE Save(p)
      BY <3>1, <3>2, <3>5, CallFacts DEF Save, At
    <3>6. CASE Confirm(p) /\ ~ Return(p)
      <4>1. /\ task[p].op = "save" /\ blob' = blob
            /\ blob[task[p].file] # None
            /\ task' = [task EXCEPT ![p].at = "commit", ![p].model = server]
        BY <3>6, CallFacts DEF Confirm, At
      <4> QED BY <2>1, <4>1 DEF TypeOK, Tasks, Writing
    <3> QED BY <1>5, <3>1, <3>3, <3>4, <3>5, <3>6
  <2>3. task[p].op = "save" => task[p].old = File(task[p].id)
    BY <2>1 DEF CallsAlone, CallAlone, Writing
  <2>4. task'[p] # None => CallAlone(p, task[p])'
    BY <1>0, <2>1, <2>2, <2>3 DEF CallAlone, Writing, File
  <2> QED BY <1>2, <2>4
<1>6. ASSUME NEW p \in Processes, Commit(p)
      PROVE  CallsAlone'
  <2>1. /\ task[p] # None /\ task[p].op = "save" /\ task[p].at = "commit"
        /\ task[p] \in Tasks /\ task[p].id \in Ids /\ task[p].file \in Blobs
    BY <1>6, CallFacts DEF Commit, At
  <2>2. /\ task'[p].at = "delete" /\ task'[p].old = task[p].old
        /\ task'[p].op = "save"
    BY <1>6, <2>1 DEF Commit, GoTo, TypeOK, Tasks
  <2>3. PICK mine \in Ids : mine = task[p].id
    BY <2>1
  <2>4. /\ \A id \in Ids \ {mine} : File(id)' = File(id)
        /\ File(mine)' \in {None, task[p].file}
    BY <1>6, <2>3 DEF Commit, File, TypeOK
  <2>5. task[p].old = File(mine)
    BY <2>1, <2>3 DEF CallsAlone, CallAlone, Writing
  <2>6. File(mine) # None =>
           \A id \in Ids \ {mine} : File(id) # File(mine)
    BY <2>1, NoFork DEF BranchInv
  <2>7. File(mine) # task[p].file
    BY <2>1 DEF NewBlobs, Makes, Writing
  <2>8. \A id \in Ids : File(id)' # None => File(id)' # task[p].old
    BY <2>4, <2>5, <2>6, <2>7
  <2>9. task'[p].old \notin Referenced'
    BY <2>2, <2>8 DEF Referenced
  <2>10. CallAlone(p, task[p])'
    BY <2>2, <2>9 DEF CallAlone, Writing
  <2> QED BY <1>2, <2>10
<1>7. ASSUME NEW p \in Processes, NEW id \in Ids, load_with_kv(p, id)
      PROVE  CallsAlone'
  <2>1. task'[p] # None => task'[p].op = "load" /\ task'[p].at = "restore"
    <3>1. CASE task' = task
      BY <1>7, <3>1 DEF load_with_kv
    <3>2. CASE Begin(p, "load", "restore", id, File(id), None)
      BY <3>2, FileType, BeginLoad
    <3> QED BY <1>7, <3>1, <3>2 DEF load_with_kv
  <2> QED BY <1>2, <2>1 DEF CallAlone, Writing
<1>8. ASSUME NEW p \in Processes, NEW id \in Ids, NEW new_id \in Ids,
             fork_with_kv(p, id, new_id)
      PROVE  CallsAlone'
  <2>1. task'[p] # None => task'[p].op = "fork" /\ task'[p].at = "copy"
    <3>1. CASE task' = task
      BY <1>8, <3>1 DEF fork_with_kv, Begin
    <3>2. CASE Begin(p, "fork", "copy", new_id, None, File(id))
      BY <3>2, FileType, BeginFork
    <3> QED BY <1>8, <3>1, <3>2 DEF fork_with_kv
  <2> QED BY <1>2, <2>1 DEF CallAlone, Writing
<1>9. ASSUME NEW p \in Processes, Copy(p)
      PROVE  CallsAlone'
  <2>1. task'[p] # None =>
          /\ task'[p].op = "fork" /\ task'[p].at = "clone"
          /\ blob'[task'[p].file] # None
    BY <1>9, CopyDoes DEF TaskIs
  <2> QED BY <1>2, <2>1 DEF CallAlone, Writing
<1>10. ASSUME NEW p \in Processes, gc_orphans(p)
       PROVE  CallsAlone'
  <2>1. /\ task'[p].op = "gc" /\ task'[p].at = "sweep"
        /\ task'[p].kept = Referenced /\ manifest' = manifest
    BY <1>10 DEF gc_orphans, TypeOK
  <2>2. CallAlone(p, task[p])'
    BY <1>0, <2>1 DEF CallAlone
  <2> QED BY <1>2, <2>2
<1> QED BY <1>1, <1>3, <1>4, <1>5, <1>6, <1>7, <1>8, <1>9, <1>10 DEF Next

\* What NoDangling says of one checkpoint and one step.
Warm(id) ==
    File(id)' \notin OnDisk' \cup {None} =>
        IF File(id)' = File(id)
          THEN File(id) \notin OnDisk \/ File(id) \in Released
                  \/ FoundForeign(id)
          ELSE \E other \in Ids : File(id)' = File(other)

\* A checkpoint that keeps its file keeps its blob, unless it was released or
\* found to be another model's.
LEMMA WarmKept ==
  ASSUME TypeOK, TypeOK', NEW id \in Ids, File(id)' = File(id),
         File(id) \in Blobs /\ blob[File(id)] # None =>
            \/ blob'[File(id)] # None
            \/ File(id) \in Released \/ FoundForeign(id)
  PROVE  Warm(id)
<1>1. File(id) \in Blobs \cup {None}
  BY FileType
<1>2. File(id)' \in Blobs \cup {None}
  BY <1>1
<1> QED BY <1>1, <1>2 DEF Warm, OnDisk

\* No checkpoint is left without its blob by a failed save, a crash, a sweep
\* or another branch, where one process uses the store and fork_with_kv runs
\* to its end.
LEMMA WarmStep ==
  ASSUME Alone, ForkWhole, StoreInv, BranchInv, AloneInv, TypeOK', [Next]_vars,
         NEW id \in Ids
  PROVE  Warm(id)
<1> USE DEF StoreInv, AloneInv, disk
<1>0. ASSUME manifest' = manifest
      PROVE  File(id)' = File(id)
  BY <1>0 DEF File
<1>1. ASSUME manifest' = manifest, blob' = blob
      PROVE  Warm(id)
  BY <1>0, <1>1, WarmKept
<1>2. ASSUME NEW p \in Processes,
             \/ Restart \/ UNCHANGED vars
             \/ Decode(p) \/ Leave(p) \/ save_with_kv(p) \/ Guard(p)
             \/ Confirm(p) \/ Restore(p) \/ gc_orphans(p) \/ Crash(p)
      PROVE  Warm(id)
  BY <1>1, <1>2 DEF Restart, vars, Decode, Leave, save_with_kv, Guard, Confirm,
                    Restore, gc_orphans, Crash
<1>3. ASSUME NEW p \in Processes, Sweep(p)
      PROVE  Warm(id)
  <2>1. /\ manifest' = manifest /\ task[p] # None /\ task[p].at = "sweep"
    BY <1>3 DEF Sweep, At
  <2>2. task[p].kept = Referenced
    BY <2>1 DEF CallsAlone, CallAlone
  <2>3. ASSUME File(id) \in Blobs, blob[File(id)] # None,
               blob'[File(id)] = None
        PROVE  File(id) \in Released
    <3>1. File(id) # None /\ File(id) \in task[p].kept
      BY <2>2, <2>3, KVStoreAssumption DEF Referenced
    <3>2. /\ task[p].op = "save"
          /\ \E i \in Ids : consumed[p][i] = File(id)
      BY <1>3, <2>3, <3>1, SweepDoes
    <3>3. \A q \in Processes, i \in Ids : consumed'[q][i] = None
      BY <1>3, <3>2, SweepDoes DEF Alone
    <3> QED BY <3>1, <3>2, <3>3 DEF Released
  <2> QED BY <1>0, <2>1, <2>3, WarmKept
<1>4. ASSUME NEW p \in Processes, Save(p)
      PROVE  Warm(id)
  <2>1. /\ manifest' = manifest /\ task[p] # None
        /\ task[p].op = "save" /\ task[p].at = "save" /\ task[p].file \in Blobs
    BY <1>4, CallFacts DEF Save, At
  <2>2. File(id) # task[p].file
    BY <2>1 DEF NewBlobs, Makes, Writing
  <2>3. File(id) \in Blobs => blob'[File(id)] = blob[File(id)]
    BY <1>4, <2>2 DEF Save, TypeOK
  <2> QED BY <1>0, <2>1, <2>3, WarmKept
<1>5. ASSUME NEW p \in Processes, Commit(p)
      PROVE  Warm(id)
  <2>1. /\ task[p] # None /\ task[p].at = "commit" /\ task[p].file \in Blobs
        /\ blob' = blob
    BY <1>5, CallFacts DEF Commit, At
  <2>2. blob[task[p].file] # None
    BY <2>1 DEF CallsAlone, CallAlone
  <2>3. File(id)' \in {File(id), None, task[p].file}
    BY <1>5 DEF Commit, File, TypeOK
  <2>4. CASE File(id)' = File(id)
    BY <2>1, <2>4, WarmKept
  <2>5. CASE File(id)' = task[p].file
    <3>1. File(id)' \in OnDisk'
      BY <2>1, <2>2, <2>5 DEF OnDisk
    <3> QED BY <3>1 DEF Warm
  <2>6. CASE File(id)' = None
    BY <2>6 DEF Warm
  <2> QED BY <2>3, <2>4, <2>5, <2>6
<1>6. ASSUME NEW p \in Processes, DeletePrevious(p)
      PROVE  Warm(id)
  <2>1. /\ manifest' = manifest /\ task[p] # None /\ task[p].at = "delete"
        /\ blob' = Without({task[p].old} \ {None})
    BY <1>6 DEF DeletePrevious, At
  <2>2. task[p].old \notin Referenced
    BY <2>1 DEF CallsAlone, CallAlone
  <2>3. File(id) # None => File(id) # task[p].old
    BY <2>2 DEF Referenced
  <2>4. File(id) \in Blobs => blob'[File(id)] = blob[File(id)]
    BY <2>1, <2>3, WithoutType, KVStoreAssumption
  <2> QED BY <1>0, <2>1, <2>4, WarmKept
<1>7. ASSUME NEW p \in Processes, NEW other \in Ids, load_with_kv(p, other)
      PROVE  Warm(id)
  <2>1. manifest' = manifest /\ task[p] = None /\ session[p] = None
    BY <1>7 DEF load_with_kv
  <2>2. CASE blob' = blob
    BY <1>1, <2>1, <2>2
  <2>3. CASE /\ File(other) # None /\ ~ Portable(manifest[other].kv)
             /\ Run(p, other, manifest[other].history)
             /\ blob' = Without({File(other)})
    <3>1. CASE File(id) # File(other)
      <4>1. File(id) \in Blobs => blob'[File(id)] = blob[File(id)]
        BY <2>3, <3>1, WithoutType
      <4> QED BY <1>0, <2>1, <4>1, WarmKept
    <3>2. CASE File(id) = File(other)
      <4>1. id = other
        BY <2>1, <2>3, <3>2, NoFork DEF BranchInv
      <4>2. session'[p] # None /\ session'[p].id = other
        <5>1. session'[p] = [id |-> other, history |-> manifest[other].history]
          BY <2>3 DEF Run, TypeOK
        <5>2. manifest[other].history \in Histories
          BY <2>3, FileType DEF Checkpoints
        <5>3. session'[p] \in Sessions
          BY <5>1, <5>2 DEF Sessions
        <5> QED BY <5>1, <5>3, NoneAssumption
      <4>3. FoundForeign(id)
        BY <2>1, <2>3, <4>1, <4>2 DEF FoundForeign, Portable
      <4> QED BY <1>0, <2>1, <4>3, WarmKept
    <3> QED BY <3>1, <3>2
  <2> QED BY <1>7, <2>2, <2>3 DEF load_with_kv
<1>8. ASSUME NEW p \in Processes, NEW i \in Ids, gc_consumed(p, i)
      PROVE  Warm(id)
  <2>1. /\ manifest' = manifest /\ task[p] = None /\ consumed[p][i] # None
        /\ blob' = Without({consumed[p][i]})
        /\ consumed' = [consumed EXCEPT ![p][i] = None]
    BY <1>8 DEF gc_consumed
  <2>2. CASE File(id) # consumed[p][i]
    <3>1. File(id) \in Blobs => blob'[File(id)] = blob[File(id)]
      BY <2>1, <2>2, WithoutType
    <3> QED BY <1>0, <2>1, <3>1, WarmKept
  <2>3. CASE File(id) = consumed[p][i]
    <3>1. \A j \in Ids \ {i} :
             consumed'[p][j] = consumed[p][j] /\ consumed[p][j] # consumed[p][i]
      BY <2>1 DEF ConsumedOwn, TypeOK
    <3>2. consumed'[p][i] = None
      BY <2>1 DEF TypeOK
    <3>3. File(id) \in Released
      BY <2>1, <2>3, <3>1, <3>2 DEF Released, Alone
    <3> QED BY <1>0, <2>1, <3>3, WarmKept
  <2> QED BY <2>2, <2>3
<1>9. ASSUME NEW p \in Processes, NEW other \in Ids, NEW new_id \in Ids,
             fork_with_kv(p, other, new_id)
      PROVE  Warm(id)
  <2>1. /\ manifest' = [manifest EXCEPT ![new_id] = manifest[other]]
        /\ blob' = blob /\ manifest[new_id] = None
    BY <1>9 DEF fork_with_kv
  <2>2. CASE id # new_id
    <3>1. File(id)' = File(id)
      BY <2>1, <2>2 DEF File, TypeOK
    <3> QED BY <2>1, <3>1, WarmKept
  <2>3. CASE id = new_id
    <3>1. File(id)' = File(other) /\ File(id) = None
      BY <2>1, <2>3 DEF File, TypeOK
    <3> QED BY <3>1 DEF Warm
  <2> QED BY <2>2, <2>3
<1>10. ASSUME NEW p \in Processes, Copy(p)
       PROVE  Warm(id)
  <2>1. CASE /\ blob' = blob
             /\ \A i \in Ids \ {task[p].id} : manifest'[i] = manifest[i]
             /\ manifest'[task[p].id].kv = None
    <3>1. CASE File(id)' = None
      BY <3>1 DEF Warm
    <3>2. CASE manifest'[id] = manifest[id]
      <4>1. File(id)' = File(id)
        BY <3>2 DEF File
      <4> QED BY <2>1, <4>1, WarmKept
    <3>3. manifest'[id].kv = None => File(id)' = None
      BY DEF File
    <3> QED BY <2>1, <3>1, <3>2, <3>3
  <2>2. ASSUME NEW b \in New, manifest' = manifest,
               \A c \in Blobs \ {b} : blob'[c] = blob[c]
        PROVE  Warm(id)
    <3>1. File(id) # b
      BY NewIsNew
    <3>2. File(id) \in Blobs => blob'[File(id)] = blob[File(id)]
      BY <2>2, <3>1
    <3> QED BY <1>0, <2>2, <3>2, WarmKept
  <2> QED BY <1>10, <2>1, <2>2, CopyDoes
<1>11. ASSUME NEW p \in Processes, Clone(p)
       PROVE  Warm(id)
  <2>1. /\ task[p] # None /\ task[p].at = "clone" /\ task[p].file \in Blobs
        /\ \A i \in Ids \ {task[p].id} : manifest'[i] = manifest[i]
        /\ manifest'[task[p].id] # None /\ manifest'[task[p].id].kv # None
        /\ manifest'[task[p].id].kv.file = task[p].file
        /\ blob' = blob
    BY <1>11, CloneDoes DEF Clone
  <2>2. blob[task[p].file] # None
    BY <2>1 DEF CallsAlone, CallAlone
  <2>3. CASE id = task[p].id
    <3>1. File(id)' = task[p].file
      BY <2>1, <2>3 DEF File
    <3>2. File(id)' \in OnDisk'
      BY <2>1, <2>2, <3>1 DEF OnDisk
    <3> QED BY <3>2 DEF Warm
  <2>4. CASE id # task[p].id
    <3>1. File(id)' = File(id)
      BY <2>1, <2>4 DEF File
    <3> QED BY <2>1, <3>1, WarmKept
  <2> QED BY <2>3, <2>4
<1>12. CASE Restart \/ UNCHANGED vars
  BY <1>1, <1>12 DEF Restart, vars
<1> QED BY <1>2, <1>3, <1>4, <1>5, <1>6, <1>7, <1>8, <1>9, <1>10, <1>11, <1>12
        DEF Next

\* A checkpoint's blob is on disk from its commit on, until it is deleted as
\* consumed or as another model's: no failed save, crash, sweep or other
\* branch takes the warm start away, where one process uses the store and
\* fork_with_kv runs to its end.
THEOREM BlobsStay ==
  ASSUME Alone, ForkWhole
  PROVE  Spec => NoDangling
<1>1. Init => BranchInv /\ AloneInv
  <2> SUFFICES ASSUME Init PROVE BranchInv /\ AloneInv
    OBVIOUS
  <2>1. BranchInv
    BY DEF Init, BranchInv, File
  <2>2. CallsAlone /\ ConsumedOwn
    BY DEF Init, CallsAlone, ConsumedOwn
  <2> QED BY <2>1, <2>2 DEF AloneInv
<1>2. /\ StoreInv /\ BranchInv /\ AloneInv /\ [Next]_vars
      => (BranchInv /\ AloneInv)'
  BY BranchStep, ConsumedStep, AloneStep DEF AloneInv
<1>3. /\ StoreInv /\ StoreInv' /\ BranchInv /\ AloneInv /\ [Next]_vars
      => \A id \in Ids : File(id)' \notin OnDisk' \cup {None} =>
           IF File(id)' = File(id)
             THEN File(id) \notin OnDisk \/ File(id) \in Released
                     \/ FoundForeign(id)
             ELSE \E other \in Ids : File(id)' = File(other)
  BY WarmStep DEF Warm, StoreInv
<1> QED BY <1>1, <1>2, <1>3, StoreInvariant, PTL DEF Spec, NoDangling

=============================================================================
