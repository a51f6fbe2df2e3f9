----------------------------- MODULE StateStore -----------------------------
(***************************************************************************)
(* StateStore and Checkpoint of src/src/agentpause/state.py: checkpoints   *)
(* kept as JSON files by several processes that may crash between any two  *)
(* system calls.                                                           *)
(*                                                                         *)
(* A call runs system call by system call.  A manifest reaches the disk in *)
(* two chunks; a file holds, for each chunk, the checkpoint it belongs to. *)
(* A process that has opened a file keeps writing to it wherever renames   *)
(* move it: fd says where that file is found now.                          *)
(***************************************************************************)
EXTENDS Integers, FiniteSets

CONSTANTS
    Processes,
    Ids,                \* session ids
    Names,              \* file names
    SafeName,           \* the file name _path makes of each id
    Calls,              \* the calls that are made, of Ops
    Exclusive,          \* does one process at a time work on a session?
    MaxStep,            \* bound on the steps of a session
    None

Ops == {"resume", "checkpoint", "clear", "fork", "export", "import",
        "overwrite"}

ASSUME StateStoreAssumption ==
    /\ Calls \subseteq Ops
    /\ SafeName \in [Ids -> Names]
    /\ Exclusive \in BOOLEAN
    /\ MaxStep \in Nat
    /\ None \notin Ids

VARIABLES
    file,       \* <name>.json: what each chunk holds, None when absent
    temp,       \* <name>.json.tmp, likewise
    fd,         \* each process: where the file it writes is found now
    session,    \* each process: the session it runs, None without one
    task,       \* each process: the call it is in
    bundle      \* the last exported bundle

disk == <<file, temp, fd>>
vars == <<disk, session, task, bundle>>

\* Idempotency keys: the minting session and the step.  `born' is no field of
\* the code: the step at which the session was forked off, 0 for a new one.
Keys == Ids \X (1 .. MaxStep)

Checkpoint == [session_id : Ids, step : 0 .. MaxStep, keys : SUBSET Keys,
               born : 0 .. MaxStep]

Chunks == [1 .. 2 -> Checkpoint \cup {None}]
Empty  == [i \in 1 .. 2 |-> None]

\* What is missing is no checkpoint, no file and no place of an open file.
ASSUME NoneAssumption ==
    /\ None \notin Checkpoint
    /\ None \notin Chunks
    /\ None \notin {"temp", "file", "gone"}

Whole(f) == f # None /\ f[1] # None /\ f[1] = f[2]

Places == {"exists", "read", "clash", "open", "first", "second", "replace",
           "remove"}

\* A call: the id it reads, the id it works on and what it is to save.
Tasks == [op : Ops, at : Places, source : Ids \cup {None},
          id : Ids \cup {None}, cp : Checkpoint \cup {None}]

-----------------------------------------------------------------------------
(* Checkpoint.                                                             *)

fresh(id) == [session_id |-> id, step |-> 0, keys |-> {}, born |-> 0]

\* Mutated form: keys are not kept apart by session.
new_idempotency_key_Plain(cp) == <<CHOOSE id \in Ids : TRUE, cp.step + 1>>

new_idempotency_key(cp) == <<cp.session_id, cp.step + 1>>

\* The clone takes the shared past along and continues under its own id.
clone(cp, id) == [cp EXCEPT !.session_id = id, !.born = cp.step]

_path(id) == SafeName[id]

\* Mutated form: the step counter is not restored.
Loaded_StepLost(f) == [f[1] EXCEPT !.step = 0]

\* The checkpoint a whole manifest holds.
Loaded(f) == f[1]

-----------------------------------------------------------------------------
(* Calls begin.  A process either runs a session or works on stored ones.  *)

Uses(p, id) ==
    \/ session[p] # None /\ session[p].id = id
    \/ task[p] # None /\ task[p].id = id

Free(id) == Exclusive => \A p \in Processes : ~Uses(p, id)

Begin(p, op, at, source, id, cp) ==
    /\ task[p] = None
    /\ op \in Calls
    /\ op \in {"checkpoint", "clear"} <=> session[p] # None
    /\ task' = [task EXCEPT ![p] = [op |-> op, at |-> at, source |-> source,
                                    id |-> id, cp |-> cp]]
    /\ UNCHANGED <<disk, session, bundle>>

\* PredictiveScheduler.session(): load, or start afresh.
resume(p, id) ==
    /\ Free(id)
    /\ Begin(p, "resume", "exists", id, id, None)

\* A step of the session, with one side effect.
Advance(p) ==
    /\ session[p] # None /\ task[p] = None
    /\ session[p].cp.step < MaxStep
    /\ session' = [session EXCEPT
                     ![p].cp.step = @ + 1,
                     ![p].cp.keys = @ \cup {new_idempotency_key(session[p].cp)}]
    /\ UNCHANGED <<disk, task, bundle>>

checkpoint(p) ==
    Begin(p, "checkpoint", "open", None, session[p].id, session[p].cp)

complete(p) ==
    Begin(p, "clear", "exists", session[p].id, session[p].id, None)

fork(p, id, new_id) ==
    /\ Free(new_id)
    /\ Begin(p, "fork", "exists", id, new_id, None)

export_bundle(p, id) == Begin(p, "export", "exists", id, None, None)

import_bundle(p, overwrite) ==
    /\ bundle # None /\ Free(bundle.session_id)
    /\ IF overwrite
         THEN Begin(p, "overwrite", "open", None, bundle.session_id, bundle)
         ELSE Begin(p, "import", "clash", None, bundle.session_id, bundle)

-----------------------------------------------------------------------------
(* System calls.                                                           *)

GoTo(p, at) == task' = [task EXCEPT ![p].at = at]
Return(p) == task' = [task EXCEPT ![p] = None]

Exists(p) ==
    /\ task[p] # None /\ task[p].at = "exists"
    /\ IF file[_path(task[p].source)] # None
         THEN /\ GoTo(p, IF task[p].op = "clear" THEN "remove" ELSE "read")
              /\ UNCHANGED session
         ELSE /\ Return(p)
              /\ session' = [session EXCEPT ![p] =
                    CASE task[p].op = "resume" ->
                            [id |-> task[p].id, cp |-> fresh(task[p].id)]
                      [] task[p].op = "clear" -> None
                      [] task[p].op \in {"fork", "export"} -> @]
    /\ UNCHANGED <<disk, bundle>>

\* A file that is gone or does not parse raises CheckpointError.
Read(p) ==
    /\ task[p] # None /\ task[p].at = "read"
    /\ LET f == file[_path(task[p].source)]
       IN  \/ /\ ~Whole(f)
              /\ Return(p)
              /\ UNCHANGED <<session, bundle>>
           \/ /\ Whole(f) /\ task[p].op = "resume"
              /\ Return(p)
              /\ session' = [session EXCEPT
                               ![p] = [id |-> task[p].id, cp |-> Loaded(f)]]
              /\ UNCHANGED bundle
           \/ /\ Whole(f) /\ task[p].op = "export"
              /\ Return(p)
              /\ bundle' = Loaded(f)
              /\ UNCHANGED session
           \/ /\ Whole(f) /\ task[p].op = "fork"
              /\ task' = [task EXCEPT ![p].at = "clash",
                                      ![p].cp = clone(Loaded(f), task[p].id)]
              /\ UNCHANGED <<session, bundle>>
    /\ UNCHANGED disk

\* Mutated form: an existing checkpoint is not looked for.
Clash_Unchecked(p) ==
    /\ task[p] # None /\ task[p].at = "clash"
    /\ GoTo(p, "open")
    /\ UNCHANGED <<disk, session, bundle>>

Clash(p) ==
    /\ task[p] # None /\ task[p].at = "clash"
    /\ IF file[_path(task[p].id)] # None THEN Return(p) ELSE GoTo(p, "open")
    /\ UNCHANGED <<disk, session, bundle>>

Target(p) == _path(task[p].cp.session_id)

\* Processes writing to the file another process is about to move.
Writing(n) == {q \in Processes : task[q] # None /\ task[q].cp # None
                                  /\ Target(q) = n}

\* Mutated form: the manifest is written in place.
Open_InPlace(p) ==
    /\ task[p] # None /\ task[p].at = "open"
    /\ file' = [file EXCEPT ![Target(p)] = Empty]
    /\ temp' = [temp EXCEPT ![Target(p)] = Empty]
    /\ fd' = [fd EXCEPT ![p] = "file"]
    /\ GoTo(p, "first")
    /\ UNCHANGED <<session, bundle>>

Open(p) ==
    /\ task[p] # None /\ task[p].at = "open"
    /\ temp' = [temp EXCEPT ![Target(p)] = Empty]
    /\ fd' = [fd EXCEPT ![p] = "temp"]
    /\ GoTo(p, "first")
    /\ UNCHANGED <<file, session, bundle>>

Chunk(p, i) ==
    /\ temp' = IF fd[p] = "temp"
                 THEN [temp EXCEPT ![Target(p)][i] = task[p].cp] ELSE temp
    /\ file' = IF fd[p] = "file"
                 THEN [file EXCEPT ![Target(p)][i] = task[p].cp] ELSE file

First(p) ==
    /\ task[p] # None /\ task[p].at = "first"
    /\ Chunk(p, 1)
    /\ GoTo(p, "second")
    /\ UNCHANGED <<fd, session, bundle>>

\* The last chunk, and the file is closed.
Second(p) ==
    /\ task[p] # None /\ task[p].at = "second"
    /\ Chunk(p, 2)
    /\ fd' = [fd EXCEPT ![p] = None]
    /\ GoTo(p, "replace")
    /\ UNCHANGED <<session, bundle>>

\* p leaves its temporary file behind.  What is in it is kept only while it is
\* another's too: open() truncates a file nobody writes before it is used.
Abandon(p) ==
    /\ fd' = [fd EXCEPT ![p] = None]
    /\ temp' = [n \in Names |->
                  IF temp[n] # None /\ Writing(n) = {p} THEN Empty ELSE temp[n]]
    /\ UNCHANGED file

\* A write fails: the file is closed as it is and the error raised.
WriteFails(p) ==
    /\ task[p] # None /\ task[p].at \in {"first", "second"}
    /\ Abandon(p)
    /\ Return(p)
    /\ UNCHANGED <<session, bundle>>

\* Where a file being written is found after n is renamed or removed.
Moved(n, moved) ==
    [q \in Processes |-> IF q \in Writing(n) THEN moved[fd[q]] ELSE fd[q]]

\* os.replace(), which fails when the temporary file is gone.
Replace(p) ==
    /\ task[p] # None /\ task[p].at = "replace"
    /\ LET n == Target(p)
       IN  IF temp[n] = None
             THEN UNCHANGED disk
             ELSE /\ file' = [file EXCEPT ![n] = temp[n]]
                  /\ temp' = [temp EXCEPT ![n] = None]
                  /\ fd' = Moved(n, [at \in {"temp", "file", "gone", None} |->
                                       CASE at = "temp" -> "file"
                                         [] at \in {"file", "gone"} -> "gone"
                                         [] at = None -> None])
    /\ Return(p)
    /\ UNCHANGED <<session, bundle>>

\* os.remove(), which raises when the file is gone.
Remove(p) ==
    /\ task[p] # None /\ task[p].at = "remove"
    /\ LET n == _path(task[p].source)
       IN  /\ file' = [file EXCEPT ![n] = None]
           /\ fd' = Moved(n, [at \in {"temp", "file", "gone", None} |->
                                IF at = "file" THEN "gone" ELSE at])
    /\ Return(p)
    /\ session' = [session EXCEPT ![p] = None]
    /\ UNCHANGED <<temp, bundle>>

\* The process dies: what is on disk stays, what is in memory is lost.
Crash(p) ==
    /\ session[p] # None \/ task[p] # None
    /\ session' = [session EXCEPT ![p] = None]
    /\ task' = [task EXCEPT ![p] = None]
    /\ Abandon(p)
    /\ UNCHANGED bundle

-----------------------------------------------------------------------------
Init ==
    /\ file = [n \in Names |-> None]
    /\ temp = [n \in Names |-> None]
    /\ fd = [p \in Processes |-> None]
    /\ session = [p \in Processes |-> None]
    /\ task = [p \in Processes |-> None]
    /\ bundle = None

SystemCall(p) ==
    \/ Exists(p) \/ Read(p) \/ Clash(p) \/ Open(p) \/ First(p) \/ Second(p)
    \/ WriteFails(p) \/ Replace(p) \/ Remove(p)

Next ==
    \E p \in Processes :
        \/ \E id \in Ids : resume(p, id) \/ export_bundle(p, id)
        \/ \E id, new_id \in Ids : fork(p, id, new_id)
        \/ \E overwrite \in BOOLEAN : import_bundle(p, overwrite)
        \/ Advance(p) \/ checkpoint(p) \/ complete(p)
        \/ SystemCall(p)
        \/ Crash(p)

Spec == Init /\ [][Next]_vars

-----------------------------------------------------------------------------
(* Properties.                                                             *)

TypeOK ==
    /\ file \in [Names -> Chunks \cup {None}]
    /\ temp \in [Names -> Chunks \cup {None}]
    /\ fd \in [Processes -> {"temp", "file", "gone", None}]
    /\ session \in [Processes -> [id : Ids, cp : Checkpoint] \cup {None}]
    /\ task \in [Processes -> Tasks \cup {None}]
    /\ bundle \in Checkpoint \cup {None}

\* Writes are atomic: whatever crashes or fails, and whenever, a manifest that
\* can be seen is one that some save() wrote in full.
ManifestWhole == \A n \in Names : file[n] # None => Whole(file[n])

\* A stored session never falls back: a manifest is only ever replaced by one
\* of the same session that is at least as far, unless the caller of
\* import_bundle() asked for the overwrite.
ProgressKept ==
    [][\A n \in Names :
          \/ file'[n] \in {file[n], None} \/ file[n] = None
          \/ \E p \in Processes : /\ task[p] # None /\ task'[p] = None
                                  /\ task[p].op = "overwrite"
          \/ /\ file'[n][1].session_id = file[n][1].session_id
             /\ file'[n][1].step >= file[n][1].step]_vars

\* A checkpoint under the new id is never silently overwritten by fork(), nor
\* by import_bundle() without overwrite.
NeverOverwritten ==
    [][\A p \in Processes :
          /\ task[p] # None /\ task[p].op \in {"fork", "import"}
          /\ task[p].at = "replace" /\ task'[p] = None /\ file' # file
          => file[Target(p)] = None]_vars

\* Branches never share a key minted after the fork: a key of another session
\* comes from the past the two have in common.
BranchesApart ==
    \A n \in Names : \A i \in 1 .. 2 :
        file[n] # None /\ file[n][i] # None =>
            \A k \in file[n][i].keys :
                k[1] = file[n][i].session_id \/ k[2] <= file[n][i].born

\* load() restores a checkpoint or says that there is none.
MissingIsNone ==
    \A p \in Processes :
        task[p] # None /\ task[p].at = "read" =>
            file[_path(task[p].source)] # None

\* A session resumes the run its id names.
OwnCheckpoint ==
    \A p \in Processes :
        session[p] # None => session[p].cp.session_id = session[p].id

=============================================================================
