------------------------------- MODULE KVStore -------------------------------
(***************************************************************************)
(* KVStateStore of src/src/agentpause/llamacpp_kv.py: a checkpoint and the *)
(* blob of its KV cache are two files, written, forked and swept by        *)
(* processes that may crash between any two system calls or HTTP requests. *)
(*                                                                         *)
(* The wrapped store's save, load and fork are single steps here (see      *)
(* StateStore for what they are made of).  A history stands for the        *)
(* messages of a session: who took its last step, and which step it was.   *)
(***************************************************************************)
EXTENDS Integers, FiniteSets

CONSTANTS
    Processes,
    Ids,            \* session ids
    Blobs,          \* blob names: bounds the names in use at a time
    Models,         \* models the llama.cpp server may have loaded
    Capacity,       \* blobs on disk from which free space is below the minimum
    PruneOldest,    \* prune_oldest
    ForkWhole,      \* is fork_with_kv neither interrupted nor out of disk?
    Steady,         \* is the server only restarted between calls?
    MaxStep,        \* bound on the steps of a session
    None

ASSUME KVStoreAssumption ==
    /\ Capacity \in Nat /\ MaxStep \in Nat
    /\ PruneOldest \in BOOLEAN /\ ForkWhole \in BOOLEAN /\ Steady \in BOOLEAN
    /\ None \notin Ids \cup Blobs \cup Models

VARIABLES
    manifest,   \* each session's checkpoint: its history and extra["kv"]
    blob,       \* kv_dir: what each blob holds, None when absent
    server,     \* the model the server has loaded
    slot,       \* the server's slot of each process: the KV cache in it
    session,    \* each process: the session it runs
    consumed,   \* each process: _consumed
    task,       \* each process: the call it is in
    stepped     \* each process: sessions that made a step since their blob was
                \* restored

disk == <<manifest, blob>>
vars == <<disk, server, slot, session, consumed, task, stepped>>

Histories == [by : Ids, step : 0 .. MaxStep]
Caches == [history : Histories \cup {None}, model : Models]
KV == [file : Blobs, model : Models]
Checkpoints == [history : Histories, kv : KV \cup {None}]

Sessions == [id : Ids, history : Histories]

Places == {"guard", "sweep", "save", "confirm", "commit", "delete", "restore",
           "copy", "clone"}

\* file: the blob being made or restored; old: the one it replaces or copies.
Tasks == [op : {"save", "load", "fork", "gc"}, at : Places, id : Ids \cup {None},
          file : Blobs \cup {None}, old : Blobs \cup {None},
          model : Models \cup {None}, kept : SUBSET Blobs]

ASSUME NoneAssumption ==
    /\ None \notin Histories \cup Caches \cup KV \cup Checkpoints
    /\ None \notin Sessions \cup Tasks

-----------------------------------------------------------------------------
File(id) == IF manifest[id] = None \/ manifest[id].kv = None
              THEN None ELSE manifest[id].kv.file

OnDisk == {b \in Blobs : blob[b] # None}

\* _delete_blob: deleting what is not there is no error.
Without(files) == [b \in Blobs |-> IF b \in files THEN None ELSE blob[b]]

\* gc_orphans, first half: what the checkpoints in the store refer to.
Referenced == {File(id) : id \in Ids} \ {None}

\* What uuid4 may name: a name nothing mentions is as good as a new one.
Mentioned ==
    OnDisk \cup Referenced
        \cup {consumed[p][id] : p \in Processes, id \in Ids}
        \cup UNION {{task[p].file, task[p].old} \cup task[p].kept :
                      p \in {q \in Processes : task[q] # None}}

New == Blobs \ Mentioned

\* free < min_free_bytes
Short == Cardinality(OnDisk) >= Capacity

At(p, place) == task[p] # None /\ task[p].at = place
GoTo(p, place) == task' = [task EXCEPT ![p].at = place]
Return(p) == task' = [task EXCEPT ![p] = None]

Begin(p, op, place, id, file, old) ==
    /\ task[p] = None
    /\ task' = [task EXCEPT ![p] = [op |-> op, at |-> place, id |-> id,
                                    file |-> file, old |-> old, model |-> None,
                                    kept |-> {}]]

\* One process at a time works on a session.
Free(id) ==
    \A p \in Processes : /\ session[p] # None => session[p].id # id
                         /\ task[p] # None => task[p].id # id

-----------------------------------------------------------------------------
(* A session and its server.                                               *)

\* The backend decodes a step: the slot holds the history's cache.
Decode(p) ==
    /\ session[p] # None /\ task[p] = None
    /\ session[p].history.step < MaxStep
    /\ LET history == [by |-> session[p].id, step |-> session[p].history.step + 1]
       IN  /\ session' = [session EXCEPT ![p].history = history]
           /\ slot' = [slot EXCEPT ![p] = [history |-> history, model |-> server]]
    /\ stepped' = IF consumed[p][session[p].id] # None
                    THEN [stepped EXCEPT ![p] = @ \cup {session[p].id}]
                    ELSE stepped
    /\ UNCHANGED <<disk, server, consumed, task>>

\* The process is done with the session, for now or for good.
Leave(p) ==
    /\ session[p] # None /\ task[p] = None
    /\ session' = [session EXCEPT ![p] = None]
    /\ UNCHANGED <<disk, server, slot, consumed, task, stepped>>

\* The server is restarted, with any model; its slots are empty.
Restart ==
    /\ Steady => \A p \in Processes : task[p] = None
    /\ server' \in Models
    /\ slot' = [p \in Processes |-> None]
    /\ UNCHANGED <<disk, session, consumed, task, stepped>>

-----------------------------------------------------------------------------
(* save_with_kv.                                                           *)

\* A session is saved when its slot holds it; the previous checkpoint is
\* loaded and a new name made.
save_with_kv(p) ==
    /\ session[p] # None
    /\ slot[p] # None /\ slot[p].history = session[p].history
    /\ \E b \in New :
          Begin(p, "save", "guard", session[p].id, b, File(session[p].id))
    /\ UNCHANGED <<disk, server, slot, session, consumed, stepped>>

\* The disk-space guard: refuse, prune first, or go on.
Guard(p) ==
    /\ At(p, "guard")
    /\ IF ~Short THEN GoTo(p, "save")
       ELSE IF PruneOldest
              THEN task' = [task EXCEPT ![p].at = "sweep", ![p].kept = Referenced]
              ELSE Return(p)
    /\ UNCHANGED <<disk, server, slot, session, consumed, stepped>>

\* gc_orphans, second half; inside save_with_kv gc_consumed() follows, for
\* every session, and the space is looked at once more.
Sweep(p) ==
    /\ At(p, "sweep")
    /\ LET tracked == IF task[p].op = "save"
                        THEN {consumed[p][id] : id \in Ids} \ {None} ELSE {}
           left == task[p].kept \ tracked
       IN  /\ blob' = Without(Blobs \ left)
           /\ IF task[p].op = "save"
                THEN /\ consumed' = [consumed EXCEPT ![p] = [id \in Ids |-> None]]
                     /\ stepped' = [stepped EXCEPT ![p] = {}]
                ELSE UNCHANGED <<consumed, stepped>>
           /\ IF task[p].op = "save" /\ Cardinality(OnDisk \cap left) < Capacity
                THEN GoTo(p, "save") ELSE Return(p)
    /\ UNCHANGED <<manifest, server, slot, session>>

\* Mutated form: the checkpoint is committed before the blob is written.
Save_CommitFirst(p) ==
    /\ At(p, "save")
    /\ manifest' = [manifest EXCEPT ![task[p].id] =
                      [history |-> session[p].history,
                       kv |-> [file |-> task[p].file, model |-> server]]]
    /\ \/ /\ slot[p] # None
          /\ blob' = [blob EXCEPT ![task[p].file] = slot[p]]
       \/ UNCHANGED blob
    /\ Return(p)
    /\ UNCHANGED <<server, slot, session, consumed, stepped>>

\* The server writes the blob, or the request fails, before or after that.
Save(p) ==
    /\ At(p, "save")
    /\ \/ /\ slot[p] # None
          /\ blob' = [blob EXCEPT ![task[p].file] = slot[p]]
          /\ GoTo(p, "confirm") \/ Return(p)
       \/ /\ Return(p)
          /\ UNCHANGED blob
    /\ UNCHANGED <<manifest, server, slot, session, consumed, stepped>>

\* The file is looked for and the fingerprint read; either may raise.
Confirm(p) ==
    /\ At(p, "confirm")
    /\ \/ /\ blob[task[p].file] # None
          /\ task' = [task EXCEPT ![p].at = "commit", ![p].model = server]
       \/ Return(p)
    /\ UNCHANGED <<disk, server, slot, session, consumed, stepped>>

Commit(p) ==
    /\ At(p, "commit")
    /\ manifest' = [manifest EXCEPT ![task[p].id] =
                      [history |-> session[p].history,
                       kv |-> [file |-> task[p].file, model |-> task[p].model]]]
    /\ GoTo(p, "delete")
    /\ UNCHANGED <<blob, server, slot, session, consumed, stepped>>

\* The blob the previous checkpoint pointed at is not needed any more.
DeletePrevious(p) ==
    /\ At(p, "delete")
    /\ blob' = Without({task[p].old} \ {None})
    /\ Return(p)
    /\ UNCHANGED <<manifest, server, slot, session, consumed, stepped>>

-----------------------------------------------------------------------------
(* load_with_kv.                                                           *)

\* Mutated form: the fingerprint is not compared.
Portable_Always(kv) == TRUE

Portable(kv) == kv.model = server

Run(p, id, history) ==
    session' = [session EXCEPT ![p] = [id |-> id, history |-> history]]

\* The checkpoint is loaded, the blob looked for and the fingerprint read.
load_with_kv(p, id) ==
    /\ session[p] = None /\ task[p] = None /\ Free(id)
    /\ \/ /\ manifest[id] = None
          /\ Run(p, id, [by |-> id, step |-> 0])
          /\ UNCHANGED <<blob, task>>
       \/ \* no extra["kv"], no blob, or no answer from the server
          /\ manifest[id] # None
          /\ Run(p, id, manifest[id].history)
          /\ UNCHANGED <<blob, task>>
       \/ \* the blob is of another model: it is deleted
          /\ File(id) # None /\ blob[File(id)] # None
          /\ ~Portable(manifest[id].kv)
          /\ Run(p, id, manifest[id].history)
          /\ blob' = Without({File(id)})
          /\ UNCHANGED task
       \/ /\ File(id) # None /\ blob[File(id)] # None
          /\ Portable(manifest[id].kv)
          /\ Run(p, id, manifest[id].history)
          /\ Begin(p, "load", "restore", id, File(id), None)
          /\ UNCHANGED blob
    /\ UNCHANGED <<manifest, server, slot, consumed, stepped>>

\* The server reads the blob into the slot, or the request fails.
Restore(p) ==
    /\ At(p, "restore")
    /\ \/ /\ blob[task[p].file] # None
          /\ slot' = [slot EXCEPT ![p] = blob[task[p].file]]
          /\ consumed' = [consumed EXCEPT ![p][task[p].id] = task[p].file]
          /\ stepped' = [stepped EXCEPT ![p] = @ \ {task[p].id}]
       \/ UNCHANGED <<slot, consumed, stepped>>
    /\ Return(p)
    /\ UNCHANGED <<disk, server, session>>

-----------------------------------------------------------------------------
(* fork_with_kv, gc_consumed, gc_orphans.                                  *)

\* The wrapped store's fork(): the clone is saved with its parent's kv.
fork_with_kv(p, id, new_id) ==
    /\ manifest[id] # None /\ manifest[new_id] = None /\ Free(new_id)
    /\ manifest' = [manifest EXCEPT ![new_id] = manifest[id]]
    /\ IF File(id) = None
         THEN task[p] = None /\ UNCHANGED task
         ELSE Begin(p, "fork", "copy", new_id, None, File(id))
    /\ UNCHANGED <<blob, server, slot, session, consumed, stepped>>

\* copyfile, whole or failing with a part of the file written.
Copy(p) ==
    /\ At(p, "copy")
    /\ LET old == blob[task[p].old]
       IN  IF old = None
             THEN /\ manifest' = [manifest EXCEPT ![task[p].id].kv = None]
                  /\ Return(p)
                  /\ UNCHANGED blob
             ELSE \E b \in New :
                  /\ \/ /\ blob' = [blob EXCEPT ![b] = old]
                        /\ task' = [task EXCEPT ![p].at = "clone", ![p].file = b]
                     \/ /\ ~ForkWhole
                        /\ blob' = [blob EXCEPT ![b] = [old EXCEPT !.history = None]]
                        /\ Return(p)
                  /\ UNCHANGED manifest
    /\ UNCHANGED <<server, slot, session, consumed, stepped>>

\* Mutated form: the clone keeps its parent's file.
Clone_SharedFile(p) ==
    /\ At(p, "clone")
    /\ Return(p)
    /\ UNCHANGED <<disk, server, slot, session, consumed, stepped>>

Clone(p) ==
    /\ At(p, "clone")
    /\ manifest' = [manifest EXCEPT ![task[p].id].kv.file = task[p].file]
    /\ Return(p)
    /\ UNCHANGED <<blob, server, slot, session, consumed, stepped>>

\* Called once a step after the resumption has succeeded.
gc_consumed(p, id) ==
    /\ task[p] = None
    /\ LET file == consumed[p][id]
       IN  /\ file # None /\ id \in stepped[p]
           /\ blob' = Without({file})
    /\ consumed' = [consumed EXCEPT ![p][id] = None]
    /\ stepped' = [stepped EXCEPT ![p] = @ \ {id}]
    /\ UNCHANGED <<manifest, server, slot, session, task>>

gc_orphans(p) ==
    /\ task[p] = None /\ OnDisk # {}
    /\ task' = [task EXCEPT ![p] = [op |-> "gc", at |-> "sweep", id |-> None,
                                    file |-> None, old |-> None, model |-> None,
                                    kept |-> Referenced]]
    /\ UNCHANGED <<disk, server, slot, session, consumed, stepped>>

\* The process exits or dies: its memory is lost.
Crash(p) ==
    /\ session[p] # None \/ task[p] # None
    /\ ForkWhole /\ task[p] # None => task[p].op # "fork"
    /\ session' = [session EXCEPT ![p] = None]
    /\ consumed' = [consumed EXCEPT ![p] = [id \in Ids |-> None]]
    /\ stepped' = [stepped EXCEPT ![p] = {}]
    /\ Return(p)
    /\ UNCHANGED <<disk, server, slot>>

-----------------------------------------------------------------------------
Init ==
    /\ manifest = [id \in Ids |-> None]
    /\ blob = [b \in Blobs |-> None]
    /\ server \in Models
    /\ slot = [p \in Processes |-> None]
    /\ session = [p \in Processes |-> None]
    /\ consumed = [p \in Processes |-> [id \in Ids |-> None]]
    /\ task = [p \in Processes |-> None]
    /\ stepped = [p \in Processes |-> {}]

Next ==
    \/ Restart
    \/ \E p \in Processes :
        \/ Decode(p) \/ Leave(p) \/ save_with_kv(p) \/ Guard(p) \/ Sweep(p)
        \/ Save(p) \/ Confirm(p) \/ Commit(p) \/ DeletePrevious(p)
        \/ \E id \in Ids : load_with_kv(p, id) \/ gc_consumed(p, id)
        \/ Restore(p)
        \/ \E id, new_id \in Ids : fork_with_kv(p, id, new_id)
        \/ Copy(p) \/ Clone(p)
        \/ gc_orphans(p) \/ Crash(p)

Spec == Init /\ [][Next]_vars

-----------------------------------------------------------------------------
(* Properties.                                                             *)

TypeOK ==
    /\ manifest \in [Ids -> Checkpoints \cup {None}]
    /\ blob \in [Blobs -> Caches \cup {None}]
    /\ server \in Models
    /\ slot \in [Processes -> Caches \cup {None}]
    /\ session \in [Processes -> Sessions \cup {None}]
    /\ consumed \in [Processes -> [Ids -> Blobs \cup {None}]]
    /\ task \in [Processes -> Tasks \cup {None}]
    /\ stepped \in [Processes -> SUBSET Ids]

\* A warm start is the session's own: what load_with_kv puts into the slot is
\* the cache of the history it returns, for the model that is loaded.
WarmStartIsOwn ==
    [][\A p \in Processes :
          consumed'[p] # consumed[p] /\ slot'[p] # slot[p] =>
              slot'[p] = [history |-> session[p].history, model |-> server]]_vars

\* Blobs a process gives up as consumed.
Released == {consumed[p][id] : p \in Processes, id \in Ids}
                \ {consumed'[p][id] : p \in Processes, id \in Ids}

\* The checkpoint is loaded and its blob is another model's.
FoundForeign(id) ==
    /\ \E p \in Processes : session[p] = None /\ session'[p] # None
                               /\ session'[p].id = id
    /\ manifest[id].kv.model # server

\* A checkpoint's blob is on disk from its commit on, until it is deleted as
\* consumed or as another model's: no failed save, crash, sweep or other
\* branch takes the warm start away.  (A fork under way may name a blob its
\* parent has lost.)
NoDangling ==
    [][\A id \in Ids : File(id)' \notin OnDisk' \cup {None} =>
          IF File(id)' = File(id)
            THEN File(id) \notin OnDisk \/ File(id) \in Released
                    \/ FoundForeign(id)
            ELSE \E other \in Ids : File(id)' = File(other)]_vars

\* Each branch has its own copy of the blob, once no fork is under way.
OwnBlob ==
    (\A p \in Processes : task[p] = None \/ task[p].op # "fork") =>
        \A id, other \in Ids :
            id # other /\ File(id) # None => File(id) # File(other)

\* A restored blob is only deleted once at least one step after the resumption
\* has succeeded without it.
ConfirmedFirst ==
    [][\A p \in Processes, id \in Ids :
          /\ consumed[p][id] # None /\ consumed[p][id] = File(id)
          /\ consumed[p][id] \in OnDisk \ OnDisk' /\ consumed'[p][id] = None
          => id \in stepped[p]]_vars

=============================================================================
