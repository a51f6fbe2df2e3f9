-------------------------- MODULE StateStore_proofs --------------------------
(***************************************************************************)
(* Branches of a session share no key minted after the fork; and where one *)
(* process at a time works on a session and no two sessions share a file,  *)
(* every manifest is whole, never falls back and is never overwritten by a *)
(* fork or an import: for every number of processes, sessions and steps,   *)
(* whatever crashes or fails between two system calls.                     *)
(***************************************************************************)
EXTENDS StateStore, TLAPS

-----------------------------------------------------------------------------
(* Part 1: keys.  Nothing is assumed about who works on what.              *)

\* No key is ahead of its checkpoint, and a key of another session is from the
\* past the checkpoint was forked off.
KeysOK(cp) == \A k \in cp.keys : /\ k[1] = cp.session_id \/ k[2] <= cp.born
                                 /\ k[2] <= cp.step

Sound == {cp \in Checkpoint : KeysOK(cp)}

SoundChunks == [1 .. 2 -> Sound \cup {None}]
SoundTasks  == [op : Ops, at : Places, source : Ids \cup {None},
                id : Ids \cup {None}, cp : Sound \cup {None}]
SoundSessions == [id : Ids, cp : Sound]
Descriptors == {"temp", "file", "gone", None}

\* TypeOK with sound checkpoints, wherever a checkpoint is kept.
SoundOK ==
    /\ file \in [Names -> SoundChunks \cup {None}]
    /\ temp \in [Names -> SoundChunks \cup {None}]
    /\ fd \in [Processes -> Descriptors]
    /\ session \in [Processes -> SoundSessions \cup {None}]
    /\ task \in [Processes -> SoundTasks \cup {None}]
    /\ bundle \in Sound \cup {None}

\* The strengthened invariant gives the type invariant and the property.
LEMMA SoundImplies == SoundOK => TypeOK /\ BranchesApart
<1> SUFFICES ASSUME SoundOK PROVE TypeOK /\ BranchesApart
  OBVIOUS
<1>1. Sound \subseteq Checkpoint
  BY DEF Sound
<1>2. SoundChunks \subseteq Chunks
  BY <1>1 DEF SoundChunks, Chunks
<1>3. SoundTasks \subseteq Tasks
  BY <1>1 DEF SoundTasks, Tasks
<1>4. SoundSessions \subseteq [id : Ids, cp : Checkpoint]
  BY <1>1 DEF SoundSessions
<1>5. TypeOK
  BY <1>1, <1>2, <1>3, <1>4 DEF SoundOK, TypeOK, Descriptors
<1>6. BranchesApart
  <2> SUFFICES ASSUME NEW n \in Names, NEW i \in 1 .. 2,
                      file[n] # None, file[n][i] # None
               PROVE  KeysOK(file[n][i])
    BY DEF BranchesApart, KeysOK
  <2>1. file[n] \in SoundChunks
    BY DEF SoundOK
  <2>2. file[n][i] \in Sound
    BY <2>1 DEF SoundChunks
  <2> QED BY <2>2 DEF Sound
<1> QED BY <1>5, <1>6

\* A new session has no keys.
LEMMA FreshSound == ASSUME NEW id \in Ids PROVE fresh(id) \in Sound
BY StateStoreAssumption DEF fresh, Sound, Checkpoint, KeysOK

\* Every key of a clone was minted before the fork.
LEMMA CloneSound ==
  ASSUME NEW cp \in Sound, NEW id \in Ids PROVE clone(cp, id) \in Sound
<1>1. /\ clone(cp, id).session_id = id
      /\ clone(cp, id).step = cp.step
      /\ clone(cp, id).keys = cp.keys
      /\ clone(cp, id).born = cp.step
      /\ clone(cp, id) \in Checkpoint
  BY DEF clone, Sound, Checkpoint
<1> QED BY <1>1 DEF Sound, KeysOK

\* The session after a step.
Advanced(s) == [s EXCEPT !.cp.step = @ + 1,
                         !.cp.keys = @ \cup {new_idempotency_key(s.cp)}]

\* A step's key is of the session's own.
LEMMA AdvancedSound ==
  ASSUME NEW s \in SoundSessions, s.cp.step < MaxStep
  PROVE  /\ Advanced(s) \in SoundSessions
         /\ Advanced(s).id = s.id
         /\ Advanced(s).cp.session_id = s.cp.session_id
         /\ Advanced(s).cp.step = s.cp.step + 1
<1> DEFINE c == s.cp
           d == Advanced(s).cp
           k == new_idempotency_key(c)
<1>1. c \in Sound /\ s.id \in Ids
  BY DEF SoundSessions
<1>2. /\ c.session_id \in Ids /\ c.step \in 0 .. MaxStep
      /\ c.keys \subseteq Keys /\ c.born \in 0 .. MaxStep
      /\ KeysOK(c)
  BY <1>1 DEF Sound, Checkpoint
<1>3. Advanced(s) = [id |-> s.id,
                     cp |-> [session_id |-> c.session_id, step |-> c.step + 1,
                             keys |-> c.keys \cup {k}, born |-> c.born]]
  <2>1. s = [id |-> s.id, cp |-> c]
    BY DEF SoundSessions
  <2>2. c = [session_id |-> c.session_id, step |-> c.step,
             keys |-> c.keys, born |-> c.born]
    BY <1>1 DEF Sound, Checkpoint
  <2>3. Advanced(s)
          = [s EXCEPT !.cp = [c EXCEPT !.step = c.step + 1,
                                       !.keys = c.keys \cup {k}]]
    BY DEF Advanced, SoundSessions
  <2> QED BY <2>1, <2>2, <2>3
<1>4. c.step + 1 \in 0 .. MaxStep
  BY <1>2, StateStoreAssumption
<1>5. k = <<c.session_id, c.step + 1>> /\ k \in Keys
  BY <1>2, StateStoreAssumption DEF new_idempotency_key, Keys
<1>6. d = [session_id |-> c.session_id, step |-> c.step + 1,
           keys |-> c.keys \cup {k}, born |-> c.born]
  BY <1>3
<1>7. d \in Checkpoint
  BY <1>2, <1>4, <1>5, <1>6 DEF Checkpoint
<1>8. KeysOK(d)
  <2> SUFFICES ASSUME NEW j \in c.keys \cup {k}
               PROVE  /\ j[1] = c.session_id \/ j[2] <= c.born
                      /\ j[2] <= c.step + 1
    BY <1>6 DEF KeysOK
  <2>1. CASE j = k
    BY <2>1, <1>2, <1>5
  <2>2. CASE j \in c.keys
    <3>1. j[2] \in Int
      BY <2>2, <1>2, StateStoreAssumption DEF Keys
    <3> QED BY <3>1, <2>2, <1>2 DEF KeysOK
  <2> QED BY <2>1, <2>2
<1>9. d \in Sound
  BY <1>7, <1>8 DEF Sound
<1> QED BY <1>1, <1>3, <1>6, <1>9 DEF SoundSessions

\* What a whole manifest holds is sound.
LEMMA LoadedSound ==
  ASSUME NEW f \in SoundChunks \cup {None}, Whole(f) PROVE Loaded(f) \in Sound
BY DEF Whole, Loaded, SoundChunks

\* A step of a call leaves the other calls as they are.
LEMMA GoToSound ==
  ASSUME SoundOK, NEW p \in Processes, task[p] # None,
         NEW at \in Places, GoTo(p, at)
  PROVE  task' \in [Processes -> SoundTasks \cup {None}]
<1>1. task[p] \in SoundTasks
  BY DEF SoundOK
<1>2. [task[p] EXCEPT !.at = at] \in SoundTasks
  BY <1>1 DEF SoundTasks
<1>3. task' = [task EXCEPT ![p] = [task[p] EXCEPT !.at = at]]
  BY DEF GoTo
<1> QED BY <1>2, <1>3 DEF SoundOK

\* A call that ends leaves the others as they are.
LEMMA ReturnSound ==
  ASSUME SoundOK, NEW p \in Processes, Return(p)
  PROVE  task' \in [Processes -> SoundTasks \cup {None}]
BY DEF SoundOK, Return

\* A call begins with the arguments it has.
LEMMA BeginSound ==
  ASSUME SoundOK, NEW p \in Processes, NEW op \in Ops, NEW at \in Places,
         NEW source \in Ids \cup {None}, NEW id \in Ids \cup {None},
         NEW cp \in Sound \cup {None}, Begin(p, op, at, source, id, cp)
  PROVE  SoundOK'
<1>1. task' \in [Processes -> SoundTasks \cup {None}]
  BY DEF Begin, SoundTasks, SoundOK
<1> QED BY <1>1 DEF Begin, SoundOK, disk

\* A process that leaves a file behind leaves sound chunks.
LEMMA AbandonSound ==
  ASSUME SoundOK, NEW p \in Processes, Abandon(p)
  PROVE  /\ fd' \in [Processes -> Descriptors]
         /\ temp' \in [Names -> SoundChunks \cup {None}]
         /\ file' \in [Names -> SoundChunks \cup {None}]
<1>1. Empty \in SoundChunks
  BY DEF Empty, SoundChunks
<1>2. fd' \in [Processes -> Descriptors]
  BY DEF Abandon, SoundOK, Descriptors
<1>3. temp' \in [Names -> SoundChunks \cup {None}]
  BY <1>1 DEF Abandon, SoundOK
<1> QED BY <1>2, <1>3 DEF Abandon, SoundOK

Lookups == {"exists", "read", "remove"}
Saves   == {"clash", "open", "first", "second", "replace"}

\* What each call is doing at each of its system calls.
ShapeOK(p) ==
    /\ task[p].at \in Lookups =>
          /\ task[p].op \in {"resume", "clear", "fork", "export"}
          /\ task[p].source \in Ids
          /\ task[p].op # "export" => task[p].id \in Ids
          /\ task[p].op \in {"resume", "clear"} => task[p].source = task[p].id
          /\ task[p].cp = None
    /\ task[p].at = "read" => task[p].op # "clear"
    /\ task[p].at = "remove" => task[p].op = "clear"
    /\ task[p].at \in Saves =>
          /\ task[p].op \in {"checkpoint", "fork", "import", "overwrite"}
          /\ task[p].cp \in Sound
          /\ task[p].op # "checkpoint" => task[p].cp.session_id = task[p].id
    /\ task[p].at = "clash" => task[p].op \in {"fork", "import"}
    /\ task[p].op \in {"checkpoint", "clear"} <=> session[p] # None
    /\ task[p].op \in {"checkpoint", "clear"} => task[p].id = session[p].id
    /\ task[p].op = "checkpoint" => task[p].cp = session[p].cp

\* The file a call writes is there.
WriterOK(p) ==
    task[p].at \in {"first", "second"} =>
       /\ fd[p] = "temp" => temp[Target(p)] \in SoundChunks
       /\ fd[p] = "file" => file[Target(p)] \in SoundChunks

CallsOK == \A p \in Processes : task[p] # None => ShapeOK(p) /\ WriterOK(p)

\* What is sound is something.
LEMMA SoundIsSome == None \notin Sound
BY NoneAssumption DEF Sound

\* A session's file is one of the files.
LEMMA PathIsName == ASSUME NEW id \in Ids PROVE _path(id) \in Names
BY StateStoreAssumption DEF _path

\* A checkpoint's file is one of the files.
LEMMA TargetIsName ==
  ASSUME NEW p, task[p].cp \in Sound PROVE Target(p) \in Names
BY PathIsName DEF Target, Sound, Checkpoint

\* The files with a chunk of one of them written.
Put(g, n, i, cp) == [g EXCEPT ![n][i] = cp]

\* Files stay files when a chunk of one of them is written.
LEMMA PutSound ==
  ASSUME NEW g \in [Names -> SoundChunks \cup {None}], NEW n \in Names,
         NEW i \in 1 .. 2, NEW cp \in Sound, g[n] \in SoundChunks
  PROVE  /\ Put(g, n, i, cp) \in [Names -> SoundChunks \cup {None}]
         /\ \A m \in Names : g[m] \in SoundChunks =>
               Put(g, n, i, cp)[m] \in SoundChunks
<1> DEFINE f == [g[n] EXCEPT ![i] = cp]
<1>1. f \in SoundChunks
  BY DEF SoundChunks
<1>2. Put(g, n, i, cp) = [g EXCEPT ![n] = f]
  BY DEF Put
<1> HIDE DEF f
<1> QED BY <1>1, <1>2

\* A chunk is written to one file, and to no other chunk.
LEMMA ChunkSound ==
  ASSUME SoundOK, CallsOK, NEW p \in Processes, NEW i \in 1 .. 2,
         task[p] # None, task[p].at \in {"first", "second"}, Chunk(p, i)
  PROVE  /\ temp' \in [Names -> SoundChunks \cup {None}]
         /\ file' \in [Names -> SoundChunks \cup {None}]
         /\ \A n \in Names : /\ temp[n] \in SoundChunks => temp'[n] \in SoundChunks
                             /\ file[n] \in SoundChunks => file'[n] \in SoundChunks
<1> DEFINE n == Target(p)
           cp == task[p].cp
<1>1. cp \in Sound /\ WriterOK(p)
  BY DEF CallsOK, ShapeOK, Saves
<1>2. n \in Names
  BY <1>1, TargetIsName
<1>3. /\ fd[p] = "temp" => temp[n] \in SoundChunks
      /\ fd[p] = "file" => file[n] \in SoundChunks
  BY <1>1 DEF WriterOK
<1>4. /\ temp \in [Names -> SoundChunks \cup {None}]
      /\ file \in [Names -> SoundChunks \cup {None}]
  BY DEF SoundOK
<1>5. /\ temp' = IF fd[p] = "temp" THEN Put(temp, n, i, cp) ELSE temp
      /\ file' = IF fd[p] = "file" THEN Put(file, n, i, cp) ELSE file
  BY DEF Chunk, Put
<1> HIDE DEF n, cp
<1>6. CASE fd[p] = "temp"
  <2>1. temp' = Put(temp, n, i, cp) /\ temp[n] \in SoundChunks
    BY <1>3, <1>5, <1>6
  <2>2. file' = file
    BY <1>5, <1>6
  <2>3. /\ temp' \in [Names -> SoundChunks \cup {None}]
        /\ \A m \in Names : temp[m] \in SoundChunks => temp'[m] \in SoundChunks
    BY <1>1, <1>2, <1>4, <2>1, PutSound
  <2> QED BY <1>4, <2>2, <2>3
<1>7. CASE fd[p] = "file"
  <2>1. file' = Put(file, n, i, cp) /\ file[n] \in SoundChunks
    BY <1>3, <1>5, <1>7
  <2>2. temp' = temp
    BY <1>5, <1>7
  <2>3. /\ file' \in [Names -> SoundChunks \cup {None}]
        /\ \A m \in Names : file[m] \in SoundChunks => file'[m] \in SoundChunks
    BY <1>1, <1>2, <1>4, <2>1, PutSound
  <2> QED BY <1>4, <2>2, <2>3
<1>8. CASE fd[p] \notin {"temp", "file"}
  <2>1. temp' = temp /\ file' = file
    BY <1>5, <1>8
  <2> QED BY <1>4, <2>1
<1> QED BY <1>6, <1>7, <1>8

\* Calls do not disturb each other as long as no file is taken away.
LEMMA OthersGoOn ==
  ASSUME CallsOK, NEW p \in Processes,
         \A q \in Processes \ {p} : /\ task'[q] = task[q] /\ fd'[q] = fd[q]
                                    /\ session'[q] = session[q],
         \A n \in Names : /\ temp[n] \in SoundChunks => temp'[n] \in SoundChunks
                          /\ file[n] \in SoundChunks => file'[n] \in SoundChunks,
         task'[p] # None => (ShapeOK(p) /\ WriterOK(p))'
  PROVE  CallsOK'
<1> SUFFICES ASSUME NEW q \in Processes \ {p}, task[q] # None
             PROVE  (ShapeOK(q) /\ WriterOK(q))'
  BY DEF CallsOK
<1>1. ShapeOK(q) /\ WriterOK(q)
  BY DEF CallsOK
<1>2. /\ task'[q] = task[q] /\ fd'[q] = fd[q] /\ Target(q)' = Target(q)
      /\ session'[q] = session[q]
  BY DEF Target
<1>3. task[q].at \in {"first", "second"} => Target(q) \in Names
  BY <1>1, TargetIsName DEF ShapeOK, Saves
<1>4. ShapeOK(q)'
  BY <1>1, <1>2 DEF ShapeOK
<1>5. WriterOK(q)'
  BY <1>1, <1>2, <1>3 DEF WriterOK
<1> QED BY <1>4, <1>5

Inv1 == SoundOK /\ CallsOK

\* A call begins with what it is given.
LEMMA BeginInv ==
  ASSUME Inv1, NEW p \in Processes, NEW op \in Ops,
         NEW at \in {"exists", "open", "clash"},
         NEW source \in Ids \cup {None}, NEW id \in Ids \cup {None},
         NEW cp \in Sound \cup {None},
         Begin(p, op, at, source, id, cp),
         \* It begins with a look for a file,
         at = "exists" =>
            /\ op \in {"resume", "clear", "fork", "export"}
            /\ source \in Ids
            /\ op # "export" => id \in Ids
            /\ op \in {"resume", "clear"} => source = id
            /\ cp = None,
         \* or with a save.
         at # "exists" =>
            /\ op \in {"checkpoint", "fork", "import", "overwrite"}
            /\ cp \in Sound
            /\ op # "checkpoint" => cp.session_id = id,
         at = "clash" => op \in {"fork", "import"},
         op \in {"checkpoint", "clear"} => id = session[p].id,
         op = "checkpoint" => cp = session[p].cp
  PROVE  Inv1'
<1>1. at \in Places
  BY DEF Places
<1>2. SoundOK'
  BY <1>1, BeginSound DEF Inv1
<1>3. /\ task'[p] = [op |-> op, at |-> at, source |-> source,
                     id |-> id, cp |-> cp]
      /\ UNCHANGED <<disk, session, bundle>>
      /\ op \in {"checkpoint", "clear"} <=> session[p] # None
      /\ \A q \in Processes \ {p} : task'[q] = task[q]
  BY DEF Begin, Inv1, SoundOK
<1>4. /\ task'[p].op = op /\ task'[p].at = at /\ task'[p].source = source
      /\ task'[p].id = id /\ task'[p].cp = cp
  BY <1>3
<1>5. session'[p] = session[p]
  BY <1>3
<1>6. WriterOK(p)'
  BY <1>4 DEF WriterOK
<1>7. ShapeOK(p)'
  BY <1>3, <1>4, <1>5 DEF ShapeOK, Lookups, Saves
<1>8. CallsOK'
  BY <1>3, <1>6, <1>7, OthersGoOn DEF Inv1, disk
<1> QED BY <1>2, <1>8 DEF Inv1

\* A step of a session.
LEMMA AdvanceInv == ASSUME Inv1, NEW p \in Processes, Advance(p) PROVE Inv1'
<1>1. session[p] \in SoundSessions
  BY DEF Inv1, SoundOK, Advance
<1>2. Advanced(session[p]) \in SoundSessions
  BY <1>1, AdvancedSound DEF Advance
<1>3. session' = [session EXCEPT ![p] = Advanced(session[p])]
  BY DEF Advance, Advanced
<1> DEFINE a == Advanced(session[p])
<1> HIDE DEF a
<1>4. SoundOK'
  <2>1. session' = [session EXCEPT ![p] = a] /\ a \in SoundSessions
    BY <1>2, <1>3 DEF a
  <2>2. UNCHANGED <<disk, task, bundle>>
    BY DEF Advance
  <2> QED BY <2>1, <2>2 DEF Inv1, SoundOK, disk
<1>5. task'[p] = None /\ UNCHANGED <<disk, task>>
  BY DEF Advance
<1>6. \A q \in Processes \ {p} : session'[q] = session[q]
  BY <1>3 DEF Inv1, SoundOK
<1>7. CallsOK'
  BY <1>5, <1>6, OthersGoOn DEF Inv1, disk
<1> QED BY <1>4, <1>7 DEF Inv1

\* A call goes on without touching the disk.
LEMMA GoOnInv ==
  ASSUME Inv1, NEW p \in Processes, task[p] # None,
         NEW at \in {"read", "remove", "open"}, GoTo(p, at),
         at = "open" => task[p].at = "clash",
         at = "read" => task[p].at = "exists" /\ task[p].op # "clear",
         at = "remove" => task[p].at = "exists" /\ task[p].op = "clear",
         UNCHANGED <<disk, session, bundle>>
  PROVE  Inv1'
<1>1. task[p] \in SoundTasks
  BY DEF Inv1, SoundOK
<1>2. /\ task'[p].at = at /\ task'[p].cp = task[p].cp
      /\ task'[p].op = task[p].op /\ task'[p].source = task[p].source
      /\ task'[p].id = task[p].id
      /\ \A q \in Processes \ {p} : task'[q] = task[q]
  BY <1>1 DEF GoTo, SoundTasks, Inv1, SoundOK
<1>3. WriterOK(p)'
  BY <1>2 DEF WriterOK
<1>4. ShapeOK(p)
  BY DEF Inv1, CallsOK
<1>5. session'[p] = session[p]
  OBVIOUS
<1>6. ShapeOK(p)'
  BY <1>2, <1>4, <1>5 DEF ShapeOK, Lookups, Saves
<1>7. CallsOK'
  BY <1>2, <1>3, <1>6, OthersGoOn DEF Inv1, disk
<1>8. SoundOK'
  BY GoToSound DEF Inv1, SoundOK, disk, Places
<1> QED BY <1>7, <1>8 DEF Inv1

\* A call ends without touching the disk.
LEMMA EndInv ==
  ASSUME Inv1, NEW p \in Processes, Return(p), UNCHANGED disk,
         NEW s \in SoundSessions \cup {None},
         session' = [session EXCEPT ![p] = s],
         bundle' \in Sound \cup {None}
  PROVE  Inv1'
<1>1. /\ task'[p] = None
      /\ \A q \in Processes \ {p} : task'[q] = task[q] /\ session'[q] = session[q]
  BY DEF Return, Inv1, SoundOK
<1>2. CallsOK'
  BY <1>1, OthersGoOn DEF Inv1, disk
<1>3. SoundOK'
  BY ReturnSound DEF Inv1, SoundOK, disk
<1> QED BY <1>2, <1>3 DEF Inv1

\* Looking for the file.
LEMMA ExistsInv == ASSUME Inv1, NEW p \in Processes, Exists(p) PROVE Inv1'
<1>1. task[p] # None /\ task[p].at = "exists" /\ ShapeOK(p)
  BY DEF Exists, Inv1, CallsOK
<1>2. CASE file[_path(task[p].source)] # None
  <2>1. UNCHANGED <<disk, session, bundle>>
    BY <1>2 DEF Exists
  <2>2. CASE task[p].op = "clear"
    BY <1>1, <1>2, <2>1, <2>2, GoOnInv DEF Exists
  <2>3. CASE task[p].op # "clear"
    BY <1>1, <1>2, <2>1, <2>3, GoOnInv DEF Exists
  <2> QED BY <2>2, <2>3
<1>3. CASE file[_path(task[p].source)] = None
  <2> DEFINE s == CASE task[p].op = "resume" ->
                            [id |-> task[p].id, cp |-> fresh(task[p].id)]
                    [] task[p].op = "clear" -> None
                    [] task[p].op \in {"fork", "export"} -> session[p]
  <2>1. /\ Return(p) /\ UNCHANGED <<disk, bundle>>
        /\ session' = [session EXCEPT ![p] = s]
    BY <1>3 DEF Exists
  <2>2. s \in SoundSessions \cup {None}
    <3>1. CASE task[p].op = "resume"
      <4>1. task[p].id \in Ids
        BY <1>1, <3>1 DEF ShapeOK, Lookups
      <4> QED BY <3>1, <4>1, FreshSound DEF SoundSessions
    <3>2. CASE task[p].op = "clear"
      BY <3>2
    <3>3. CASE task[p].op \in {"fork", "export"}
      BY <3>3 DEF Inv1, SoundOK
    <3> QED BY <1>1, <3>1, <3>2, <3>3 DEF ShapeOK, Lookups
  <2>3. bundle' \in Sound \cup {None}
    BY <2>1 DEF Inv1, SoundOK
  <2> HIDE DEF s
  <2> QED BY <2>1, <2>2, <2>3, EndInv
<1> QED BY <1>2, <1>3

\* Reading it.
LEMMA ReadInv == ASSUME Inv1, NEW p \in Processes, Read(p) PROVE Inv1'
<1> DEFINE f == file[_path(task[p].source)]
<1>1. /\ task[p] # None /\ task[p].at = "read" /\ ShapeOK(p)
      /\ task[p] \in SoundTasks /\ session[p] \in SoundSessions \cup {None}
      /\ bundle \in Sound \cup {None}
  BY DEF Read, Inv1, CallsOK, SoundOK
<1>2. f \in SoundChunks \cup {None}
  BY <1>1, PathIsName DEF ShapeOK, Lookups, Inv1, SoundOK
<1>3. UNCHANGED disk
  BY DEF Read
<1>4. session' = session => session' = [session EXCEPT ![p] = session[p]]
  BY DEF Inv1, SoundOK
<1> HIDE DEF f
<1>5. CASE Return(p) /\ UNCHANGED <<session, bundle>>
  BY <1>1, <1>3, <1>4, <1>5, EndInv
<1>6. CASE /\ Whole(f) /\ task[p].op = "resume" /\ Return(p)
           /\ session' = [session EXCEPT
                            ![p] = [id |-> task[p].id, cp |-> Loaded(f)]]
           /\ UNCHANGED bundle
  <2>1. [id |-> task[p].id, cp |-> Loaded(f)] \in SoundSessions
    BY <1>1, <1>2, <1>6, LoadedSound DEF SoundSessions, ShapeOK, Lookups
  <2> QED BY <1>1, <1>3, <1>6, <2>1, EndInv
<1>7. CASE /\ Whole(f) /\ Return(p) /\ bundle' = Loaded(f) /\ UNCHANGED session
  <2>1. bundle' \in Sound
    BY <1>2, <1>7, LoadedSound
  <2> QED BY <1>1, <1>3, <1>4, <1>7, <2>1, EndInv
<1>8. CASE /\ Whole(f) /\ task[p].op = "fork"
           /\ task' = [task EXCEPT ![p].at = "clash",
                                   ![p].cp = clone(Loaded(f), task[p].id)]
           /\ UNCHANGED <<session, bundle>>
  <2> DEFINE c == clone(Loaded(f), task[p].id)
             t == [task[p] EXCEPT !.at = "clash", !.cp = c]
  <2>1. task[p].id \in Ids
    BY <1>1, <1>8 DEF ShapeOK, Lookups
  <2>2. c \in Sound
    BY <1>2, <1>8, <2>1, LoadedSound, CloneSound
  <2>3. c.session_id = task[p].id
    <3>1. Loaded(f) \in Checkpoint
      BY <1>2, <1>8, LoadedSound DEF Sound
    <3> QED BY <3>1 DEF clone, Checkpoint
  <2> HIDE DEF c
  <2>4. /\ t \in SoundTasks
        /\ t.at = "clash" /\ t.cp = c /\ t.op = "fork" /\ t.id = task[p].id
    BY <1>1, <1>8, <2>2 DEF SoundTasks, Places
  <2>5. task' = [task EXCEPT ![p] = t]
    BY <1>8 DEF c
  <2> HIDE DEF t
  <2>6. /\ task'[p] = t
        /\ \A q \in Processes \ {p} : task'[q] = task[q]
    BY <2>5 DEF Inv1, SoundOK
  <2>7. SoundOK'
    BY <1>3, <1>8, <2>4, <2>5 DEF Inv1, SoundOK, disk
  <2>8. session'[p] = session[p]
    BY <1>8
  <2>9. ShapeOK(p)'
    BY <1>1, <1>8, <2>2, <2>3, <2>4, <2>6, <2>8 DEF ShapeOK, Lookups, Saves
  <2>10. WriterOK(p)'
    BY <2>4, <2>6 DEF WriterOK
  <2>11. CallsOK'
    BY <1>3, <1>8, <2>6, <2>9, <2>10, OthersGoOn DEF Inv1, disk
  <2> QED BY <2>7, <2>11 DEF Inv1
<1> QED BY <1>5, <1>6, <1>7, <1>8 DEF Read, f

\* Looking for a checkpoint of the new id.
LEMMA ClashInv == ASSUME Inv1, NEW p \in Processes, Clash(p) PROVE Inv1'
<1>1. CASE Return(p)
  <2>1. session' = [session EXCEPT ![p] = session[p]]
    BY DEF Clash, Inv1, SoundOK
  <2> QED BY <1>1, <2>1, EndInv DEF Clash, Inv1, SoundOK
<1>2. CASE GoTo(p, "open")
  BY <1>2, GoOnInv DEF Clash
<1> QED BY <1>1, <1>2 DEF Clash

\* A save that goes on saves the same checkpoint.
LEMMA SaveGoesOn ==
  ASSUME Inv1, NEW p \in Processes, task[p] # None, task[p].at \in Saves,
         NEW at \in {"open", "first", "second", "replace"}, GoTo(p, at),
         session' = session
  PROVE  /\ ShapeOK(p)'
         /\ task' \in [Processes -> SoundTasks \cup {None}]
         /\ task'[p].at = at /\ task'[p].cp = task[p].cp
         /\ task'[p].op = task[p].op /\ task'[p].id = task[p].id
         /\ task[p].cp \in Sound
         /\ Target(p) \in Names /\ Target(p)' = Target(p)
         /\ \A q \in Processes \ {p} : task'[q] = task[q]
<1>1. task[p] \in SoundTasks
  BY DEF Inv1, SoundOK
<1>2. /\ task'[p].at = at /\ task'[p].cp = task[p].cp
      /\ task'[p].op = task[p].op /\ task'[p].source = task[p].source
      /\ task'[p].id = task[p].id
      /\ \A q \in Processes \ {p} : task'[q] = task[q]
  BY <1>1 DEF GoTo, SoundTasks, Inv1, SoundOK
<1>3. ShapeOK(p)
  BY DEF Inv1, CallsOK
<1>4. session'[p] = session[p]
  OBVIOUS
<1>5. ShapeOK(p)'
  BY <1>2, <1>3, <1>4 DEF ShapeOK, Lookups, Saves
<1>6. task' \in [Processes -> SoundTasks \cup {None}]
  BY GoToSound DEF Inv1, Places
<1>7. task[p].cp \in Sound
  BY <1>3 DEF ShapeOK
<1>8. Target(p) \in Names /\ Target(p)' = Target(p)
  BY <1>2, <1>7, TargetIsName DEF Target
<1> QED BY <1>2, <1>5, <1>6, <1>7, <1>8

\* The temporary file is opened, and truncated.
LEMMA OpenInv == ASSUME Inv1, NEW p \in Processes, Open(p) PROVE Inv1'
<1>1. /\ task[p] # None /\ task[p].at \in Saves /\ GoTo(p, "first")
      /\ UNCHANGED <<file, session, bundle>>
      /\ temp' = [temp EXCEPT ![Target(p)] = Empty]
      /\ fd' = [fd EXCEPT ![p] = "temp"]
  BY DEF Open, Saves
<1>2. /\ ShapeOK(p)'
      /\ task' \in [Processes -> SoundTasks \cup {None}]
      /\ task'[p].at = "first"
      /\ Target(p) \in Names /\ Target(p)' = Target(p)
      /\ \A q \in Processes \ {p} : task'[q] = task[q]
  BY <1>1, SaveGoesOn
<1>3. Empty \in SoundChunks
  BY DEF Empty, SoundChunks
<1>4. /\ temp' \in [Names -> SoundChunks \cup {None}]
      /\ temp'[Target(p)] \in SoundChunks
      /\ \A n \in Names : temp[n] \in SoundChunks => temp'[n] \in SoundChunks
  BY <1>1, <1>2, <1>3 DEF Inv1, SoundOK
<1>5. /\ fd' \in [Processes -> Descriptors] /\ fd'[p] = "temp"
      /\ \A q \in Processes \ {p} : fd'[q] = fd[q]
  BY <1>1 DEF Inv1, SoundOK, Descriptors
<1>6. WriterOK(p)'
  BY <1>2, <1>4, <1>5 DEF WriterOK
<1>7. CallsOK'
  BY <1>1, <1>2, <1>4, <1>5, <1>6, OthersGoOn DEF Inv1
<1>8. SoundOK'
  BY <1>1, <1>2, <1>4, <1>5 DEF Inv1, SoundOK
<1> QED BY <1>7, <1>8 DEF Inv1

\* A chunk is written.
LEMMA WriteInv ==
  ASSUME Inv1, NEW p \in Processes, First(p) \/ Second(p) PROVE Inv1'
<1>1. PICK i \in 1 .. 2 :
         /\ task[p] # None /\ task[p].at \in {"first", "second"}
         /\ Chunk(p, i)
         /\ UNCHANGED <<session, bundle>>
  BY DEF First, Second
<1>2. \/ GoTo(p, "second") /\ fd' = fd
      \/ GoTo(p, "replace") /\ fd' = [fd EXCEPT ![p] = None]
  BY DEF First, Second
<1>3. /\ temp' \in [Names -> SoundChunks \cup {None}]
      /\ file' \in [Names -> SoundChunks \cup {None}]
      /\ \A n \in Names : /\ temp[n] \in SoundChunks => temp'[n] \in SoundChunks
                          /\ file[n] \in SoundChunks => file'[n] \in SoundChunks
  BY <1>1, ChunkSound DEF Inv1
<1>4. /\ ShapeOK(p)'
      /\ task' \in [Processes -> SoundTasks \cup {None}]
      /\ task'[p].at \in {"second", "replace"}
      /\ task'[p].at = "second" => fd' = fd
      /\ Target(p) \in Names /\ Target(p)' = Target(p)
      /\ \A q \in Processes \ {p} : task'[q] = task[q]
  BY <1>1, <1>2, SaveGoesOn DEF Saves
<1>5. /\ fd' \in [Processes -> Descriptors]
      /\ \A q \in Processes \ {p} : fd'[q] = fd[q]
  BY <1>2 DEF Inv1, SoundOK, Descriptors
<1>6. WriterOK(p)
  BY <1>1 DEF Inv1, CallsOK
<1>7. WriterOK(p)'
  BY <1>1, <1>3, <1>4, <1>6 DEF WriterOK
<1>8. CallsOK'
  BY <1>1, <1>3, <1>4, <1>5, <1>7, OthersGoOn DEF Inv1
<1>9. SoundOK'
  BY <1>1, <1>3, <1>4, <1>5 DEF Inv1, SoundOK
<1> QED BY <1>8, <1>9 DEF Inv1

\* A file is left behind and the call is over.
LEMMA AbandonInv ==
  ASSUME Inv1, NEW p \in Processes, Abandon(p), Return(p),
         NEW s \in SoundSessions \cup {None},
         session' = [session EXCEPT ![p] = s], UNCHANGED bundle
  PROVE  Inv1'
<1>1. /\ fd' \in [Processes -> Descriptors]
      /\ temp' \in [Names -> SoundChunks \cup {None}]
      /\ file' \in [Names -> SoundChunks \cup {None}]
  BY AbandonSound DEF Inv1
<1>2. task' \in [Processes -> SoundTasks \cup {None}]
  BY ReturnSound DEF Inv1
<1>3. SoundOK'
  BY <1>1, <1>2 DEF Inv1, SoundOK
<1>4. Empty \in SoundChunks
  BY DEF Empty, SoundChunks
<1>5. \A n \in Names : /\ temp[n] \in SoundChunks => temp'[n] \in SoundChunks
                       /\ file[n] \in SoundChunks => file'[n] \in SoundChunks
  BY <1>4 DEF Abandon
<1>6. /\ task'[p] = None
      /\ \A q \in Processes \ {p} :
            task'[q] = task[q] /\ session'[q] = session[q] /\ fd'[q] = fd[q]
  BY DEF Return, Abandon, Inv1, SoundOK
<1>7. CallsOK'
  BY <1>5, <1>6, OthersGoOn DEF Inv1
<1> QED BY <1>3, <1>7 DEF Inv1

\* A write fails.
LEMMA WriteFailsInv ==
  ASSUME Inv1, NEW p \in Processes, WriteFails(p) PROVE Inv1'
<1>1. session' = [session EXCEPT ![p] = session[p]]
  BY DEF WriteFails, Inv1, SoundOK
<1> QED BY <1>1, AbandonInv DEF WriteFails, Inv1, SoundOK

\* The process dies.
LEMMA CrashInv == ASSUME Inv1, NEW p \in Processes, Crash(p) PROVE Inv1'
BY AbandonInv DEF Crash, Return

\* Where a renamed or removed file is found is one of the places.
LEMMA MovedSound ==
  ASSUME SoundOK, NEW n, NEW moved \in [Descriptors -> Descriptors]
  PROVE  /\ Moved(n, moved) \in [Processes -> Descriptors]
         /\ \A q \in Processes : /\ q \in Writing(n) => Moved(n, moved)[q] = moved[fd[q]]
                                 /\ q \notin Writing(n) => Moved(n, moved)[q] = fd[q]
BY DEF SoundOK, Moved

\* After a rename, a writer goes on in the manifest.
LEMMA ReplaceInv == ASSUME Inv1, NEW p \in Processes, Replace(p) PROVE Inv1'
<1> DEFINE n == Target(p)
<1>1. /\ task[p] # None /\ task[p].at = "replace" /\ Return(p)
      /\ UNCHANGED <<session, bundle>>
  BY DEF Replace
<1>2. n \in Names
  BY <1>1, TargetIsName DEF Inv1, CallsOK, ShapeOK, Saves
<1>3. session' = [session EXCEPT ![p] = session[p]]
  BY <1>1 DEF Inv1, SoundOK
<1>4. CASE temp[n] = None
  <2>1. UNCHANGED disk
    BY <1>4 DEF Replace
  <2> QED BY <1>1, <1>3, <2>1, EndInv DEF Inv1, SoundOK
<1>5. CASE temp[n] # None
  <2> DEFINE moved == [at \in {"temp", "file", "gone", None} |->
                         CASE at = "temp" -> "file"
                           [] at \in {"file", "gone"} -> "gone"
                           [] at = None -> None]
  <2>1. /\ file' = [file EXCEPT ![n] = temp[n]]
        /\ temp' = [temp EXCEPT ![n] = None]
        /\ fd' = Moved(n, moved)
    BY <1>5 DEF Replace
  <2>2. /\ moved \in [Descriptors -> Descriptors]
        /\ moved["temp"] = "file"
        /\ \A at \in Descriptors :
              moved[at] # "temp" /\ (moved[at] = "file" => at = "temp")
    BY NoneAssumption DEF Descriptors
  <2> HIDE DEF moved, n
  <2>3. temp[n] \in SoundChunks
    BY <1>2, <1>5 DEF Inv1, SoundOK
  <2>4. /\ fd' \in [Processes -> Descriptors]
        /\ \A q \in Processes : /\ q \in Writing(n) => fd'[q] = moved[fd[q]]
                                /\ q \notin Writing(n) => fd'[q] = fd[q]
    BY <2>1, <2>2, MovedSound DEF Inv1
  <2>5. SoundOK'
    BY <1>1, <1>2, <2>1, <2>3, <2>4, ReturnSound DEF Inv1, SoundOK
  <2>6. ASSUME NEW q \in Processes, task'[q] # None
        PROVE  (ShapeOK(q) /\ WriterOK(q))'
    <3>1. /\ q # p /\ task'[q] = task[q] /\ session'[q] = session[q]
          /\ Target(q)' = Target(q)
      BY <1>1, <2>6 DEF Return, Inv1, SoundOK, Target
    <3>2. ShapeOK(q) /\ WriterOK(q)
      BY <2>6, <3>1 DEF Inv1, CallsOK
    <3>3. ShapeOK(q)'
      BY <3>1, <3>2 DEF ShapeOK
    <3>4. task[q].at \in {"first", "second"} =>
             Target(q) \in Names /\ task[q].cp # None
      BY <3>2, TargetIsName, SoundIsSome DEF ShapeOK, Saves
    <3>5. CASE Target(q) = n /\ task[q].at \in {"first", "second"}
      <4>1. q \in Writing(n)
        BY <2>6, <3>1, <3>4, <3>5 DEF Writing
      <4>2. fd'[q] # "temp" /\ file'[n] \in SoundChunks
        BY <1>2, <2>1, <2>2, <2>3, <2>4, <4>1 DEF Inv1, SoundOK
      <4> QED BY <3>1, <3>3, <3>5, <4>2 DEF WriterOK
    <3>6. CASE Target(q) # n /\ task[q].at \in {"first", "second"}
      <4>1. q \notin Writing(n)
        BY <3>6 DEF Writing
      <4>2. /\ fd'[q] = fd[q] /\ file'[Target(q)] = file[Target(q)]
            /\ temp'[Target(q)] = temp[Target(q)]
        BY <2>1, <2>4, <3>4, <3>6, <4>1 DEF Inv1, SoundOK
      <4> QED BY <3>1, <3>2, <3>3, <4>2 DEF WriterOK
    <3>7. CASE task[q].at \notin {"first", "second"}
      BY <3>1, <3>3, <3>7 DEF WriterOK
    <3> QED BY <3>5, <3>6, <3>7
  <2> QED BY <2>5, <2>6 DEF Inv1, CallsOK
<1> QED BY <1>4, <1>5

\* After a removal, a writer goes on in a file that has no name.
LEMMA RemoveInv == ASSUME Inv1, NEW p \in Processes, Remove(p) PROVE Inv1'
<1> DEFINE n == _path(task[p].source)
           moved == [at \in {"temp", "file", "gone", None} |->
                       IF at = "file" THEN "gone" ELSE at]
<1>1. /\ task[p] # None /\ task[p].at = "remove" /\ Return(p)
      /\ UNCHANGED <<temp, bundle>>
      /\ file' = [file EXCEPT ![n] = None]
      /\ fd' = Moved(n, moved)
      /\ session' = [session EXCEPT ![p] = None]
  BY DEF Remove
<1>2. n \in Names
  BY <1>1, PathIsName DEF Inv1, CallsOK, ShapeOK, Lookups
<1>3. /\ moved \in [Descriptors -> Descriptors]
      /\ moved["temp"] = "temp"
      /\ \A at \in Descriptors :
            moved[at] # "file" /\ (moved[at] = "temp" => at = "temp")
  BY NoneAssumption DEF Descriptors
<1> HIDE DEF moved, n
<1>4. /\ fd' \in [Processes -> Descriptors]
      /\ \A q \in Processes : /\ q \in Writing(n) => fd'[q] = moved[fd[q]]
                              /\ q \notin Writing(n) => fd'[q] = fd[q]
  BY <1>1, <1>3, MovedSound DEF Inv1
<1>5. SoundOK'
  BY <1>1, <1>2, <1>4, ReturnSound DEF Inv1, SoundOK
<1>6. ASSUME NEW q \in Processes, task'[q] # None
      PROVE  (ShapeOK(q) /\ WriterOK(q))'
  <2>1. /\ q # p /\ task'[q] = task[q] /\ session'[q] = session[q]
        /\ Target(q)' = Target(q) /\ fd[q] \in Descriptors
    BY <1>1, <1>6 DEF Return, Inv1, SoundOK, Target
  <2>2. ShapeOK(q) /\ WriterOK(q)
    BY <1>6, <2>1 DEF Inv1, CallsOK
  <2>3. ShapeOK(q)'
    BY <2>1, <2>2 DEF ShapeOK
  <2>4. task[q].at \in {"first", "second"} =>
           Target(q) \in Names /\ task[q].cp # None
    BY <2>2, TargetIsName, SoundIsSome DEF ShapeOK, Saves
  <2>5. CASE Target(q) = n /\ task[q].at \in {"first", "second"}
    <3>1. q \in Writing(n)
      BY <1>6, <2>1, <2>4, <2>5 DEF Writing
    <3>2. fd'[q] # "file" /\ (fd'[q] = "temp" => fd[q] = "temp")
      BY <1>3, <1>4, <2>1, <3>1
    <3> QED BY <1>1, <2>1, <2>2, <2>3, <2>5, <3>2 DEF WriterOK
  <2>6. CASE Target(q) # n /\ task[q].at \in {"first", "second"}
    <3>1. q \notin Writing(n)
      BY <2>6 DEF Writing
    <3>2. fd'[q] = fd[q] /\ file'[Target(q)] = file[Target(q)]
      BY <1>1, <1>4, <2>4, <2>6, <3>1 DEF Inv1, SoundOK
    <3> QED BY <1>1, <2>1, <2>2, <2>3, <3>2 DEF WriterOK
  <2>7. CASE task[q].at \notin {"first", "second"}
    BY <2>1, <2>3, <2>7 DEF WriterOK
  <2> QED BY <2>5, <2>6, <2>7
<1> QED BY <1>5, <1>6 DEF Inv1, CallsOK

\* Every step of a process keeps the invariant.
LEMMA StepInv ==
  ASSUME Inv1, NEW p \in Processes,
         \/ \E id \in Ids : resume(p, id) \/ export_bundle(p, id)
         \/ \E id, new_id \in Ids : fork(p, id, new_id)
         \/ \E overwrite \in BOOLEAN : import_bundle(p, overwrite)
         \/ Advance(p) \/ checkpoint(p) \/ complete(p)
         \/ SystemCall(p)
         \/ Crash(p)
  PROVE  Inv1'
<1>1. ASSUME NEW id \in Ids, resume(p, id) PROVE Inv1'
  <2>1. Begin(p, "resume", "exists", id, id, None)
    BY <1>1 DEF resume
  <2> QED BY <2>1, BeginInv DEF Ops
<1>2. ASSUME NEW id \in Ids, export_bundle(p, id) PROVE Inv1'
  <2>1. Begin(p, "export", "exists", id, None, None)
    BY <1>2 DEF export_bundle
  <2> QED BY <2>1, BeginInv DEF Ops
<1>3. ASSUME NEW id \in Ids, NEW new_id \in Ids, fork(p, id, new_id) PROVE Inv1'
  <2>1. Begin(p, "fork", "exists", id, new_id, None)
    BY <1>3 DEF fork
  <2> QED BY <2>1, BeginInv DEF Ops
<1>4. ASSUME NEW overwrite \in BOOLEAN, import_bundle(p, overwrite) PROVE Inv1'
  <2>1. bundle \in Sound /\ bundle.session_id \in Ids
    BY <1>4 DEF import_bundle, Inv1, SoundOK, Sound, Checkpoint
  <2>2. CASE overwrite
    <3>1. Begin(p, "overwrite", "open", None, bundle.session_id, bundle)
      BY <1>4, <2>2 DEF import_bundle
    <3> QED BY <2>1, <3>1, BeginInv DEF Ops
  <2>3. CASE ~overwrite
    <3>1. Begin(p, "import", "clash", None, bundle.session_id, bundle)
      BY <1>4, <2>3 DEF import_bundle
    <3> QED BY <2>1, <3>1, BeginInv DEF Ops
  <2> QED BY <2>2, <2>3
<1>5. ASSUME checkpoint(p) PROVE Inv1'
  <2>1. Begin(p, "checkpoint", "open", None, session[p].id, session[p].cp)
    BY <1>5 DEF checkpoint
  <2>2. session[p].id \in Ids /\ session[p].cp \in Sound
    BY <2>1 DEF Begin, Inv1, SoundOK, SoundSessions
  <2> QED BY <2>1, <2>2, BeginInv DEF Ops
<1>6. ASSUME complete(p) PROVE Inv1'
  <2>1. Begin(p, "clear", "exists", session[p].id, session[p].id, None)
    BY <1>6 DEF complete
  <2>2. session[p].id \in Ids
    BY <2>1 DEF Begin, Inv1, SoundOK, SoundSessions
  <2> QED BY <2>1, <2>2, BeginInv DEF Ops
<1>7. ASSUME SystemCall(p) PROVE Inv1'
  BY <1>7, ExistsInv, ReadInv, ClashInv, OpenInv, WriteInv, WriteFailsInv,
     ReplaceInv, RemoveInv DEF SystemCall
<1> QED BY <1>1, <1>2, <1>3, <1>4, <1>5, <1>6, <1>7, AdvanceInv, CrashInv

\* A step that changes nothing keeps it too.
LEMMA StutterInv == ASSUME Inv1, UNCHANGED vars PROVE Inv1'
BY DEF Inv1, SoundOK, CallsOK, ShapeOK, WriterOK, Target, vars, disk

\* Nothing is stored and no call is under way at first.
LEMMA InitInv == ASSUME Init PROVE Inv1
BY DEF Init, Inv1, SoundOK, CallsOK, Descriptors

\* The invariant holds whoever works on what.
LEMMA Inv1Always == Spec => []Inv1
<1>1. Inv1 /\ [Next]_vars => Inv1'
  BY StepInv, StutterInv DEF Next
<1> QED BY InitInv, <1>1, PTL DEF Spec

\* Whatever ids the processes work on and whatever crashes: every variable
\* keeps its type.
THEOREM TypeCorrect == Spec => []TypeOK
<1>1. Inv1 => TypeOK
  BY SoundImplies DEF Inv1
<1> QED BY Inv1Always, <1>1, PTL

\* Branches never share a key minted after the fork: a key of another session
\* comes from the past the two have in common (Checkpoint.clone() and
\* new_idempotency_key() through save(), load(), fork() and import_bundle()).
THEOREM BranchesStayApart == Spec => []BranchesApart
<1>1. Inv1 => BranchesApart
  BY SoundImplies DEF Inv1
<1> QED BY Inv1Always, <1>1, PTL

-----------------------------------------------------------------------------
(* Part 2: one process at a time works on a session, and every session has *)
(* a file of its own.                                                      *)

OwnNames == \A a, b \in Ids : SafeName[a] = SafeName[b] => a = b

\* One process at a time works on a session.
OneUser ==
    \A p, q \in Processes : \A id \in Ids :
        Uses(p, id) /\ Uses(q, id) => p = q

\* A manifest is of a session whose file it is.
OwnFiles ==
    \A n \in Names : \A i \in 1 .. 2 :
        file[n] # None /\ file[n][i] # None => _path(file[n][i].session_id) = n

\* A session is the one it was resumed as, and its manifest is not ahead of it.
SessionOK(p) ==
    session[p] # None =>
       /\ session[p].cp.session_id = session[p].id
       /\ file[_path(session[p].id)] # None =>
             file[_path(session[p].id)][1].step <= session[p].cp.step

\* The temporary file holds what the call has written so far, and a fork or an
\* import finds the place of its manifest empty to the end.
SaveOK(p) ==
    task[p].at \in Saves =>
       /\ task[p].cp.session_id = task[p].id
       /\ task[p].at \in {"first", "second"} => fd[p] = "temp"
       /\ task[p].at \in {"first", "second", "replace"} =>
             temp[Target(p)] \in Chunks
       /\ task[p].at \in {"second", "replace"} =>
             temp[Target(p)][1] = task[p].cp
       /\ task[p].at = "replace" => temp[Target(p)][2] = task[p].cp
       /\ task[p].op \in {"fork", "import"} /\ task[p].at # "clash" =>
             file[Target(p)] = None

OwnOK(p) == SessionOK(p) /\ (task[p] # None => SaveOK(p))

Inv2 ==
    /\ Exclusive /\ OwnNames
    /\ Inv1 /\ OneUser /\ OwnFiles /\ ManifestWhole
    /\ \A p \in Processes : OwnOK(p)

\* The files of the sessions a process works on.
Mine(p, n) == \E id \in Ids : Uses(p, id) /\ n = _path(id)

\* Two processes have no file in common.
LEMMA Apart ==
  ASSUME Inv2, NEW p \in Processes, NEW q \in Processes, NEW n,
         Mine(p, n), Mine(q, n)
  PROVE  p = q
BY DEF Inv2, OneUser, OwnNames, Mine, _path

\* A call saves to the file of the session it works on.
LEMMA TargetIsMine ==
  ASSUME Inv2, NEW p \in Processes, task[p] # None, task[p].at \in Saves
  PROVE  /\ Target(p) = _path(task[p].id) /\ Mine(p, Target(p))
         /\ Target(p) \in Names /\ task[p].id \in Ids
<1>1. task[p].cp \in Sound /\ task[p].cp.session_id = task[p].id
  BY DEF Inv2, OwnOK, SaveOK, Inv1, CallsOK, ShapeOK
<1>2. task[p].id \in Ids
  BY <1>1 DEF Sound, Checkpoint
<1> QED BY <1>1, <1>2, PathIsName DEF Mine, Uses, Target

\* A session's file is the file of the process that runs it.
LEMMA SessionIsMine ==
  ASSUME Inv2, NEW p \in Processes, session[p] # None
  PROVE  /\ Mine(p, _path(session[p].id)) /\ _path(session[p].id) \in Names
         /\ session[p].id \in Ids
<1>1. session[p].id \in Ids
  BY DEF Inv2, Inv1, SoundOK, SoundSessions
<1> QED BY <1>1, PathIsName DEF Mine, Uses

\* Nobody else writes to a process's own file.
LEMMA WritingIsMine ==
  ASSUME Inv2, NEW p \in Processes, NEW n, Mine(p, n)
  PROVE  Writing(n) \subseteq {p}
<1> SUFFICES ASSUME NEW q \in Processes, task[q] # None, task[q].cp # None,
                    Target(q) = n
             PROVE  q = p
  BY DEF Writing
<1>1. task[q].at \in Saves
  BY DEF Inv2, Inv1, CallsOK, ShapeOK, SoundOK, SoundTasks, Places, Saves, Lookups
<1> QED BY <1>1, TargetIsMine, Apart

\* What a process does to its own files leaves the others as they are.
LEMMA OthersOwn ==
  ASSUME Inv2, Inv1', NEW p \in Processes,
         \A q \in Processes \ {p} : /\ task'[q] = task[q] /\ fd'[q] = fd[q]
                                    /\ session'[q] = session[q],
         \A n \in Names : Mine(p, n) \/ (file'[n] = file[n] /\ temp'[n] = temp[n]),
         \A id \in Ids : Uses(p, id)' =>
            Uses(p, id) \/ \A q \in Processes : ~Uses(q, id),
         OwnFiles', ManifestWhole', OwnOK(p)'
  PROVE  Inv2'
<1>1. OneUser'
  <2>1. ASSUME NEW q \in Processes \ {p}, NEW id \in Ids
        PROVE  Uses(q, id)' <=> Uses(q, id)
    BY DEF Uses
  <2>2. ASSUME NEW q \in Processes \ {p}, NEW id \in Ids
        PROVE  ~(Uses(p, id)' /\ Uses(q, id)')
    BY <2>1 DEF Inv2, OneUser
  <2>3. ASSUME NEW q \in Processes \ {p}, NEW r \in Processes \ {p}, NEW id \in Ids,
               Uses(q, id)', Uses(r, id)'
        PROVE  q = r
    BY <2>1, <2>3 DEF Inv2, OneUser
  <2>4. SUFFICES ASSUME NEW q \in Processes, NEW r \in Processes, NEW id \in Ids,
                        Uses(q, id)', Uses(r, id)'
                 PROVE  q = r
    BY DEF OneUser
  <2> QED BY <2>2, <2>3, <2>4
<1>2. ASSUME NEW q \in Processes \ {p} PROVE OwnOK(q)'
  <2>1. /\ task'[q] = task[q] /\ session'[q] = session[q] /\ fd'[q] = fd[q]
        /\ Target(q)' = Target(q) /\ OwnOK(q)
    BY DEF Target, Inv2
  <2>2. \A n \in Names : Mine(q, n) => file'[n] = file[n] /\ temp'[n] = temp[n]
    BY Apart
  <2>3. SessionOK(q)'
    <3>1. CASE session[q] # None
      BY <3>1, <2>1, <2>2, SessionIsMine DEF OwnOK, SessionOK
    <3>2. CASE session[q] = None
      BY <3>2, <2>1 DEF SessionOK
    <3> QED BY <3>1, <3>2
  <2>4. ASSUME task[q] # None PROVE SaveOK(q)'
    <3>1. CASE task[q].at \in Saves
      <4>1. file'[Target(q)] = file[Target(q)] /\ temp'[Target(q)] = temp[Target(q)]
        BY <3>1, <2>2, <2>4, TargetIsMine
      <4> QED BY <4>1, <2>1, <2>4 DEF OwnOK, SaveOK
    <3>2. CASE task[q].at \notin Saves
      BY <3>2, <2>1 DEF SaveOK
    <3> QED BY <3>1, <3>2
  <2> QED BY <2>1, <2>3, <2>4 DEF OwnOK
<1> QED BY <1>1, <1>2 DEF Inv2, OwnNames

\* A call that begins takes a session nobody works on, or keeps its own.
LEMMA BeginOwn ==
  ASSUME Inv2, Inv1', NEW p \in Processes, NEW op,
         NEW at \in {"exists", "open", "clash"}, NEW source, NEW id, NEW cp,
         Begin(p, op, at, source, id, cp),
         id \in Ids => Uses(p, id) \/ \A q \in Processes : ~Uses(q, id),
         at # "exists" => cp.session_id = id,
         op \in {"fork", "import"} => at # "open"
  PROVE  Inv2'
<1>1. /\ task'[p].op = op /\ task'[p].at = at /\ task'[p].id = id
      /\ task'[p].cp = cp
      /\ UNCHANGED <<disk, session>>
      /\ \A q \in Processes \ {p} : task'[q] = task[q]
  BY DEF Begin, Inv2, Inv1, SoundOK
<1>2. \A i \in Ids : Uses(p, i)' =>
         Uses(p, i) \/ \A q \in Processes : ~Uses(q, i)
  BY <1>1 DEF Uses
<1>3. SessionOK(p)'
  BY <1>1 DEF Inv2, OwnOK, SessionOK, disk
<1>4. SaveOK(p)'
  BY <1>1 DEF SaveOK, Saves
<1>5. OwnFiles' /\ ManifestWhole'
  BY <1>1 DEF Inv2, OwnFiles, ManifestWhole, disk
<1>6. OwnOK(p)'
  BY <1>3, <1>4 DEF OwnOK
<1> QED BY <1>1, <1>2, <1>5, <1>6, OthersOwn DEF disk

\* A step of a session leaves it ahead of its manifest.
LEMMA AdvanceOwn ==
  ASSUME Inv2, Inv1', NEW p \in Processes, Advance(p) PROVE Inv2'
<1> DEFINE a == Advanced(session[p])
           n == _path(session[p].id)
<1>1. session[p] \in SoundSessions /\ session[p] # None /\ n \in Names
  BY PathIsName DEF Inv2, Inv1, SoundOK, Advance, SoundSessions
<1>2. /\ a.id = session[p].id /\ a.cp.session_id = session[p].cp.session_id
      /\ a.cp.step = session[p].cp.step + 1
  BY <1>1, AdvancedSound DEF Advance
<1> HIDE DEF a
<1>3. /\ session'[p] = a /\ UNCHANGED <<disk, task>> /\ task'[p] = None
      /\ \A q \in Processes \ {p} : session'[q] = session[q]
  BY DEF Advance, Advanced, a, Inv2, Inv1, SoundOK
<1>4. \A i \in Ids : Uses(p, i)' => Uses(p, i)
  BY <1>1, <1>2, <1>3 DEF Uses
<1>5. OwnFiles' /\ ManifestWhole'
  BY <1>3 DEF Inv2, OwnFiles, ManifestWhole, disk
<1>6. SessionOK(p)'
  <2>1. SessionOK(p)
    BY DEF Inv2, OwnOK
  <2>2. file'[n] = file[n]
    BY <1>3 DEF disk
  <2>3. file[n] # None => file[n][1].step \in Int
    <3>1. file[n] # None => file[n][1] \in Sound
      BY <1>1 DEF Inv2, Inv1, SoundOK, SoundChunks, ManifestWhole, Whole
    <3> QED BY <3>1, StateStoreAssumption DEF Sound, Checkpoint
  <2>4. session[p].cp.step \in Int
    BY <1>1, StateStoreAssumption DEF SoundSessions, Sound, Checkpoint
  <2>5. file[n] # None => file[n][1].step <= session[p].cp.step + 1
    BY <1>1, <2>1, <2>3, <2>4 DEF SessionOK
  <2> QED BY <1>1, <1>2, <1>3, <2>1, <2>2, <2>5 DEF SessionOK
<1>7. OwnOK(p)'
  BY <1>3, <1>6 DEF OwnOK
<1> QED BY <1>3, <1>4, <1>5, <1>7, OthersOwn DEF disk

\* A call goes on to its next look.
LEMMA GoOnOwn ==
  ASSUME Inv2, Inv1', NEW p \in Processes, task[p] # None,
         NEW at \in {"read", "remove", "open"}, GoTo(p, at),
         at = "open" => task[p].at = "clash" /\ file[_path(task[p].id)] = None,
         UNCHANGED <<disk, session>>
  PROVE  Inv2'
<1>1. task[p] \in SoundTasks
  BY DEF Inv2, Inv1, SoundOK
<1>2. /\ task'[p].at = at /\ task'[p].cp = task[p].cp
      /\ task'[p].op = task[p].op /\ task'[p].id = task[p].id
      /\ \A q \in Processes \ {p} : task'[q] = task[q]
  BY <1>1 DEF GoTo, SoundTasks, Inv2, Inv1, SoundOK
<1>3. \A i \in Ids : Uses(p, i)' => Uses(p, i)
  BY <1>2 DEF Uses
<1>4. OwnFiles' /\ ManifestWhole' /\ SessionOK(p)'
  BY DEF Inv2, OwnFiles, ManifestWhole, OwnOK, SessionOK, disk
<1>5. SaveOK(p)'
  <2>1. CASE at = "open"
    <3>1. SaveOK(p) /\ Target(p)' = Target(p) /\ Target(p) = _path(task[p].id)
      BY <1>2, <2>1, TargetIsMine DEF Inv2, OwnOK, Target, Saves
    <3> QED BY <1>2, <2>1, <3>1 DEF SaveOK, Saves, disk
  <2>2. CASE at # "open"
    BY <1>2, <2>2 DEF SaveOK, Saves
  <2> QED BY <2>1, <2>2
<1>6. OwnOK(p)'
  BY <1>4, <1>5 DEF OwnOK
<1> QED BY <1>2, <1>3, <1>4, <1>6, OthersOwn DEF disk

\* A call ends and leaves a session of its own id, or none.
LEMMA EndOwn ==
  ASSUME Inv2, Inv1', NEW p \in Processes, task[p] # None, Return(p),
         NEW s, session' = [session EXCEPT ![p] = s],
         s \in {session[p], None} \/ s.id = task[p].id,
         fd' = [fd EXCEPT ![p] = fd'[p]],
         \A n \in Names : Mine(p, n) \/ (file'[n] = file[n] /\ temp'[n] = temp[n]),
         OwnFiles', ManifestWhole', SessionOK(p)'
  PROVE  Inv2'
<1>1. /\ task'[p] = None /\ session'[p] = s
      /\ \A q \in Processes \ {p} : /\ task'[q] = task[q]
                                    /\ session'[q] = session[q]
                                    /\ fd'[q] = fd[q]
  BY DEF Return, Inv2, Inv1, SoundOK
<1>2. \A i \in Ids : Uses(p, i)' => Uses(p, i)
  BY <1>1 DEF Uses
<1>3. OwnOK(p)'
  BY <1>1 DEF OwnOK
<1> QED BY <1>1, <1>2, <1>3, OthersOwn

\* A look for the file: a session that starts afresh has no manifest.
LEMMA ExistsOwn ==
  ASSUME Inv2, Inv1', NEW p \in Processes, Exists(p) PROVE Inv2'
<1>1. task[p] # None /\ task[p].at = "exists" /\ ShapeOK(p)
  BY DEF Exists, Inv2, Inv1, CallsOK
<1>2. CASE file[_path(task[p].source)] # None
  BY <1>1, <1>2, GoOnOwn DEF Exists
<1>3. CASE file[_path(task[p].source)] = None
  <2> DEFINE s == CASE task[p].op = "resume" ->
                            [id |-> task[p].id, cp |-> fresh(task[p].id)]
                    [] task[p].op = "clear" -> None
                    [] task[p].op \in {"fork", "export"} -> session[p]
  <2>1. /\ Return(p) /\ UNCHANGED <<file, temp, fd, bundle>>
        /\ session' = [session EXCEPT ![p] = s]
    BY <1>3 DEF Exists, disk
  <2>2. /\ s \in {session[p], None} \/ s.id = task[p].id
        /\ s = session[p] \/ s = None \/ /\ s.id = task[p].id
                                         /\ s.cp.session_id = s.id
                                         /\ task[p].op = "resume"
    <3>1. CASE task[p].op = "resume"
      BY <3>1 DEF fresh
    <3>2. CASE task[p].op = "clear"
      BY <3>2
    <3>3. CASE task[p].op \in {"fork", "export"}
      BY <3>3
    <3> QED BY <1>1, <3>1, <3>2, <3>3 DEF ShapeOK, Lookups
  <2> HIDE DEF s
  <2>3. SessionOK(p)'
    <3>1. session'[p] = s /\ SessionOK(p)
      BY <2>1 DEF Inv2, Inv1, SoundOK, OwnOK
    <3>2. task[p].op = "resume" => task[p].source = task[p].id
      BY <1>1 DEF ShapeOK, Lookups
    <3> QED BY <1>3, <2>1, <2>2, <3>1, <3>2 DEF SessionOK
  <2>4. OwnFiles' /\ ManifestWhole'
    BY <2>1 DEF Inv2, OwnFiles, ManifestWhole
  <2>5. fd' = [fd EXCEPT ![p] = fd'[p]]
    BY <2>1 DEF Inv2, Inv1, SoundOK
  <2> QED BY <1>1, <2>1, <2>2, <2>3, <2>4, <2>5, EndOwn
<1> QED BY <1>2, <1>3

\* Reading: what is resumed is the session's own, at the step it was saved.
LEMMA ReadOwn ==
  ASSUME Inv2, Inv1', NEW p \in Processes, Read(p) PROVE Inv2'
<1> DEFINE n == _path(task[p].source)
           f == file[n]
<1>1. /\ task[p] # None /\ task[p].at = "read" /\ ShapeOK(p)
      /\ task[p].source \in Ids /\ n \in Names
      /\ UNCHANGED <<file, temp, fd>>
  BY PathIsName DEF Read, Inv2, Inv1, CallsOK, ShapeOK, Lookups, disk
<1>2. /\ OwnFiles' /\ ManifestWhole'
      /\ fd' = [fd EXCEPT ![p] = fd'[p]]
  BY <1>1 DEF Inv2, Inv1, SoundOK, OwnFiles, ManifestWhole
<1> HIDE DEF n
<1>3. CASE Return(p) /\ session' = session
  <2>1. session' = [session EXCEPT ![p] = session[p]]
    BY <1>3 DEF Inv2, Inv1, SoundOK
  <2>2. SessionOK(p)'
    BY <1>1, <1>3 DEF Inv2, OwnOK, SessionOK
  <2> QED BY <1>1, <1>2, <1>3, <2>1, <2>2, EndOwn
<1>4. CASE /\ Whole(f) /\ task[p].op = "resume" /\ Return(p)
           /\ session' = [session EXCEPT
                            ![p] = [id |-> task[p].id, cp |-> Loaded(f)]]
  <2> DEFINE s == [id |-> task[p].id, cp |-> Loaded(f)]
  <2>1. task[p].source = task[p].id
    BY <1>1, <1>4 DEF ShapeOK, Lookups
  <2>2. f \in SoundChunks \cup {None}
    BY <1>1 DEF Inv2, Inv1, SoundOK
  <2>3. Loaded(f) = f[1] /\ f[1] \in Sound
    BY <1>4, <2>2, LoadedSound DEF Loaded
  <2>4. f[1].session_id = task[p].id
    <3>1. _path(f[1].session_id) = n
      BY <1>1, <1>4 DEF Inv2, OwnFiles, Whole
    <3>2. f[1].session_id \in Ids
      BY <2>3 DEF Sound, Checkpoint
    <3> QED BY <1>1, <2>1, <3>1, <3>2 DEF n, _path, Inv2, OwnNames
  <2>5. f[1].step <= f[1].step
    BY <2>3, StateStoreAssumption DEF Sound, Checkpoint
  <2>6. session'[p] = s
    BY <1>4 DEF Inv2, Inv1, SoundOK
  <2>7. SessionOK(p)'
    BY <1>1, <2>1, <2>3, <2>4, <2>5, <2>6 DEF SessionOK, n
  <2> QED BY <1>1, <1>2, <1>4, <2>7, EndOwn
<1>5. CASE /\ Whole(f) /\ task[p].op = "fork"
           /\ task' = [task EXCEPT ![p].at = "clash",
                                   ![p].cp = clone(Loaded(f), task[p].id)]
           /\ session' = session
  <2> DEFINE c == clone(Loaded(f), task[p].id)
             t == [task[p] EXCEPT !.at = "clash", !.cp = c]
  <2>1. task[p] \in SoundTasks /\ f \in SoundChunks \cup {None}
    BY <1>1 DEF Inv2, Inv1, SoundOK
  <2>2. c.session_id = task[p].id
    <3>1. Loaded(f) \in Checkpoint
      BY <1>5, <2>1, LoadedSound DEF Sound
    <3> QED BY <3>1 DEF clone, Checkpoint
  <2> HIDE DEF c
  <2>3. t.at = "clash" /\ t.cp = c /\ t.id = task[p].id
    BY <2>1 DEF SoundTasks
  <2>4. task' = [task EXCEPT ![p] = t]
    BY <1>5 DEF c
  <2> HIDE DEF t
  <2>5. task'[p] = t /\ \A q \in Processes \ {p} : task'[q] = task[q]
    BY <2>4 DEF Inv2, Inv1, SoundOK
  <2>6. \A i \in Ids : Uses(p, i)' => Uses(p, i)
    BY <1>1, <1>5, <2>3, <2>5 DEF Uses
  <2>7. SaveOK(p)'
    BY <2>2, <2>3, <2>5 DEF SaveOK
  <2>8. OwnOK(p)'
    BY <1>1, <1>5, <2>7 DEF Inv2, OwnOK, SessionOK
  <2> QED BY <1>1, <1>2, <1>5, <2>5, <2>6, <2>8, OthersOwn
<1> QED BY <1>3, <1>4, <1>5 DEF Read, n

\* Looking for a checkpoint of the new id: the place is found empty.
LEMMA ClashOwn ==
  ASSUME Inv2, Inv1', NEW p \in Processes, Clash(p) PROVE Inv2'
<1>1. /\ task[p] # None /\ task[p].at = "clash"
      /\ UNCHANGED <<file, temp, fd, session>>
  BY DEF Clash, disk
<1>2. CASE file[_path(task[p].id)] # None
  <2>1. /\ Return(p)
        /\ session' = [session EXCEPT ![p] = session[p]]
        /\ fd' = [fd EXCEPT ![p] = fd'[p]]
    BY <1>1, <1>2 DEF Clash, Inv2, Inv1, SoundOK
  <2>2. OwnFiles' /\ ManifestWhole' /\ SessionOK(p)'
    BY <1>1 DEF Inv2, OwnFiles, ManifestWhole, OwnOK, SessionOK
  <2> QED BY <1>1, <2>1, <2>2, EndOwn
<1>3. CASE file[_path(task[p].id)] = None
  BY <1>1, <1>3, GoOnOwn DEF Clash
<1> QED BY <1>2, <1>3

\* Opening the temporary file.
LEMMA OpenOwn ==
  ASSUME Inv2, Inv1', NEW p \in Processes, Open(p) PROVE Inv2'
<1>1. /\ task[p] # None /\ task[p].at = "open" /\ GoTo(p, "first")
      /\ UNCHANGED <<file, session, bundle>>
      /\ temp' = [temp EXCEPT ![Target(p)] = Empty]
      /\ fd' = [fd EXCEPT ![p] = "temp"]
  BY DEF Open
<1>2. /\ Mine(p, Target(p)) /\ SaveOK(p)
  BY <1>1, TargetIsMine DEF Inv2, OwnOK, Saves
<1>3. /\ task'[p].at = "first" /\ task'[p].cp = task[p].cp
      /\ task'[p].op = task[p].op /\ task'[p].id = task[p].id
      /\ Target(p) \in Names /\ Target(p)' = Target(p)
      /\ \A q \in Processes \ {p} : task'[q] = task[q]
  BY <1>1, SaveGoesOn DEF Inv2, Saves
<1>4. /\ fd'[p] = "temp" /\ \A q \in Processes \ {p} : fd'[q] = fd[q]
      /\ temp'[Target(p)] = Empty
      /\ \A n \in Names : Mine(p, n) \/ temp'[n] = temp[n]
  BY <1>1, <1>2, <1>3 DEF Inv2, Inv1, SoundOK
<1>5. Empty \in Chunks
  BY DEF Empty, Chunks
<1>6. SaveOK(p)'
  BY <1>1, <1>2, <1>3, <1>4, <1>5 DEF SaveOK, Saves
<1>7. /\ OwnFiles' /\ ManifestWhole' /\ OwnOK(p)'
  BY <1>1, <1>6 DEF Inv2, OwnFiles, ManifestWhole, OwnOK, SessionOK
<1>8. \A i \in Ids : Uses(p, i)' => Uses(p, i)
  BY <1>1, <1>3 DEF Uses
<1>9. /\ \A n \in Names : Mine(p, n) \/ (file'[n] = file[n] /\ temp'[n] = temp[n])
      /\ \A q \in Processes : session'[q] = session[q]
  BY <1>1, <1>4
<1> QED BY <1>3, <1>4, <1>7, <1>8, <1>9, OthersOwn

\* A chunk goes to the temporary file, where nobody else writes.
LEMMA WriteOwn ==
  ASSUME Inv2, Inv1', NEW p \in Processes, First(p) \/ Second(p) PROVE Inv2'
<1> DEFINE n == Target(p)
<1>1. task[p] # None /\ task[p].at \in {"first", "second"}
  BY DEF First, Second
<1>2. /\ Mine(p, n) /\ SaveOK(p) /\ n \in Names /\ task[p].cp \in Sound
      /\ fd[p] = "temp" /\ temp[n] \in SoundChunks
  <2>1. Mine(p, n) /\ SaveOK(p) /\ n \in Names
    BY <1>1, TargetIsMine DEF Inv2, OwnOK, Saves
  <2>2. fd[p] = "temp" /\ ShapeOK(p) /\ WriterOK(p)
    BY <1>1, <2>1 DEF SaveOK, Saves, Inv2, Inv1, CallsOK
  <2> QED BY <1>1, <2>1, <2>2 DEF ShapeOK, WriterOK, Saves
<1>3. PICK i \in 1 .. 2 :
         /\ Chunk(p, i)
         /\ \/ i = 1 /\ task[p].at = "first" /\ GoTo(p, "second") /\ fd' = fd
            \/ /\ i = 2 /\ task[p].at = "second" /\ GoTo(p, "replace")
               /\ fd' = [fd EXCEPT ![p] = None]
  BY DEF First, Second
<1>4. UNCHANGED <<session, bundle>>
  BY DEF First, Second
<1>5. /\ temp' = [temp EXCEPT ![n] = [temp[n] EXCEPT ![i] = task[p].cp]]
      /\ file' = file
  BY <1>2, <1>3, NoneAssumption DEF Chunk
<1>6. /\ task'[p].at = IF i = 1 THEN "second" ELSE "replace"
      /\ task'[p].cp = task[p].cp
      /\ task'[p].op = task[p].op /\ task'[p].id = task[p].id
      /\ Target(p)' = n
      /\ \A q \in Processes \ {p} : task'[q] = task[q]
  BY <1>1, <1>3, <1>4, SaveGoesOn DEF Inv2, Saves
<1> HIDE DEF n
<1>7. /\ temp'[n] = [temp[n] EXCEPT ![i] = task[p].cp]
      /\ \A m \in Names : Mine(p, m) \/ temp'[m] = temp[m]
  BY <1>2, <1>5 DEF Inv2, Inv1, SoundOK
<1>8. /\ temp'[n] \in Chunks /\ temp'[n][i] = task[p].cp
      /\ i = 2 => temp'[n][1] = temp[n][1]
  BY <1>2, <1>7 DEF SoundChunks, Sound, Chunks
<1>9. SaveOK(p)'
  <2>1. /\ task[p].cp.session_id = task[p].id
        /\ task[p].at = "second" => temp[n][1] = task[p].cp
        /\ task[p].op \in {"fork", "import"} => file[n] = None
    BY <1>1, <1>2 DEF SaveOK, Saves, n
  <2>2. CASE i = 1
    <3>1. task'[p].at = "second" /\ fd'[p] = "temp"
      BY <1>2, <1>3, <1>6, <2>2
    <3> QED BY <1>5, <1>6, <1>8, <2>1, <2>2, <3>1 DEF SaveOK
  <2>3. CASE i = 2
    <3>1. task'[p].at = "replace" /\ task[p].at = "second"
      BY <1>3, <1>6, <2>3
    <3> QED BY <1>5, <1>6, <1>8, <2>1, <2>3, <3>1 DEF SaveOK
  <2> QED BY <2>2, <2>3
<1>10. OwnFiles' /\ ManifestWhole' /\ OwnOK(p)'
  BY <1>4, <1>5, <1>9 DEF Inv2, OwnFiles, ManifestWhole, OwnOK, SessionOK
<1>11. \A j \in Ids : Uses(p, j)' => Uses(p, j)
  BY <1>1, <1>4, <1>6 DEF Uses
<1>12. /\ \A m \in Names : Mine(p, m) \/ (file'[m] = file[m] /\ temp'[m] = temp[m])
       /\ \A q \in Processes : session'[q] = session[q]
  BY <1>4, <1>5, <1>7
<1>13. \A q \in Processes \ {p} : fd'[q] = fd[q]
  BY <1>3 DEF Inv2, Inv1, SoundOK
<1> QED BY <1>6, <1>10, <1>11, <1>12, <1>13, OthersOwn

\* A file left behind is a temporary one of the process's own.
LEMMA AbandonOwn ==
  ASSUME Inv2, NEW p \in Processes, Abandon(p)
  PROVE  /\ file' = file
         /\ \A q \in Processes \ {p} : fd'[q] = fd[q]
         /\ \A n \in Names : Mine(p, n) \/ temp'[n] = temp[n]
         /\ OwnFiles' /\ ManifestWhole'
<1>1. file' = file /\ \A q \in Processes \ {p} : fd'[q] = fd[q]
  BY DEF Abandon, Inv2, Inv1, SoundOK
<1>2. ASSUME NEW n \in Names, temp'[n] # temp[n] PROVE Mine(p, n)
  <2>1. Writing(n) = {p}
    BY <1>2 DEF Abandon
  <2>2. task[p] # None /\ task[p].cp # None /\ Target(p) = n
    BY <2>1 DEF Writing
  <2>3. task[p].at \in Saves
    BY <2>2 DEF Inv2, Inv1, CallsOK, ShapeOK, SoundOK, SoundTasks, Places,
                Saves, Lookups
  <2> QED BY <2>2, <2>3, TargetIsMine
<1>3. OwnFiles' /\ ManifestWhole'
  BY <1>1 DEF Inv2, OwnFiles, ManifestWhole
<1> QED BY <1>1, <1>2, <1>3

\* A write fails.
LEMMA WriteFailsOwn ==
  ASSUME Inv2, Inv1', NEW p \in Processes, WriteFails(p) PROVE Inv2'
<1>1. /\ task[p] # None /\ Abandon(p) /\ Return(p) /\ session' = session
  BY DEF WriteFails
<1>2. session' = [session EXCEPT ![p] = session[p]]
  BY <1>1 DEF Inv2, Inv1, SoundOK
<1>3. fd' = [fd EXCEPT ![p] = fd'[p]]
  BY <1>1 DEF Abandon, Inv2, Inv1, SoundOK
<1>4. SessionOK(p)'
  BY <1>1, AbandonOwn DEF Inv2, OwnOK, SessionOK
<1> QED BY <1>1, <1>2, <1>3, <1>4, AbandonOwn, EndOwn

\* The process dies.
LEMMA CrashOwn ==
  ASSUME Inv2, Inv1', NEW p \in Processes, Crash(p) PROVE Inv2'
<1>1. /\ Abandon(p) /\ task' = [task EXCEPT ![p] = None]
      /\ session' = [session EXCEPT ![p] = None]
  BY DEF Crash
<1>2. /\ task'[p] = None /\ session'[p] = None
      /\ \A q \in Processes \ {p} : task'[q] = task[q] /\ session'[q] = session[q]
  BY <1>1 DEF Inv2, Inv1, SoundOK
<1>3. OwnOK(p)' /\ \A i \in Ids : ~Uses(p, i)'
  BY <1>2 DEF OwnOK, SessionOK, Uses
<1> QED BY <1>1, <1>2, <1>3, AbandonOwn, OthersOwn

\* Only the writer's own descriptor moves with its file.
LEMMA OthersStay ==
  ASSUME Inv2, NEW p \in Processes, NEW n, Mine(p, n), NEW moved,
         fd' = Moved(n, moved)
  PROVE  /\ fd' = [fd EXCEPT ![p] = fd'[p]]
         /\ \A q \in Processes \ {p} : fd'[q] = fd[q]
<1>1. \A q \in Processes \ {p} : q \notin Writing(n)
  BY WritingIsMine
<1>2. \A q \in Processes \ {p} : fd'[q] = fd[q]
  BY <1>1 DEF Moved
<1> QED BY <1>2 DEF Moved, Inv2, Inv1, SoundOK

\* What a call is about to move into place is whole and its own.
LEMMA ReplaceIsWhole ==
  ASSUME Inv2, NEW p \in Processes, task[p] # None, task[p].at = "replace"
  PROVE  /\ Whole(temp[Target(p)])
         /\ temp[Target(p)] \in SoundChunks
         /\ temp[Target(p)][1] = task[p].cp
         /\ temp[Target(p)][2] = task[p].cp
         /\ task[p].cp \in Sound
<1>1. SaveOK(p) /\ Target(p) \in Names /\ task[p].cp \in Sound
  BY TargetIsMine DEF Inv2, OwnOK, Saves, Inv1, CallsOK, ShapeOK
<1>2. temp[Target(p)] \in SoundChunks \cup {None}
  BY <1>1 DEF Inv2, Inv1, SoundOK
<1>3. temp[Target(p)] # None
  BY <1>1, NoneAssumption DEF SaveOK, Saves
<1> QED BY <1>1, <1>2, <1>3, SoundIsSome DEF SaveOK, Saves, Whole

\* The manifest is moved into place.
LEMMA ReplaceOwn ==
  ASSUME Inv2, Inv1', NEW p \in Processes, Replace(p) PROVE Inv2'
<1> DEFINE n == Target(p)
<1>1. /\ task[p] # None /\ task[p].at = "replace" /\ Return(p)
      /\ session' = session
  BY DEF Replace
<1>2. /\ Mine(p, n) /\ n \in Names /\ SaveOK(p) /\ ShapeOK(p)
      /\ n = _path(task[p].id) /\ task[p].cp \in Sound
  BY <1>1, TargetIsMine DEF Inv2, OwnOK, Saves, Inv1, CallsOK, ShapeOK
<1>3. /\ temp[n] \in SoundChunks
      /\ temp[n][1] = task[p].cp /\ temp[n][2] = task[p].cp
      /\ Whole(temp[n])
  BY <1>1, ReplaceIsWhole
<1>4. session' = [session EXCEPT ![p] = session[p]]
  BY <1>1 DEF Inv2, Inv1, SoundOK
<1>5. task[p].cp.session_id = task[p].id
  BY <1>1, <1>2 DEF SaveOK, Saves
<1>6. PICK moved : /\ file' = [file EXCEPT ![n] = temp[n]]
                   /\ temp' = [temp EXCEPT ![n] = None]
                   /\ fd' = Moved(n, moved)
  BY <1>3 DEF Replace, Whole
<1> HIDE DEF n
<1>7. /\ file'[n] = temp[n]
      /\ \A m \in Names \ {n} : file'[m] = file[m] /\ temp'[m] = temp[m]
  BY <1>2, <1>6 DEF Inv2, Inv1, SoundOK
<1>8. ManifestWhole'
  <2> SUFFICES ASSUME NEW m \in Names, file'[m] # None PROVE Whole(file'[m])
    BY DEF ManifestWhole, Whole
  <2> QED BY <1>3, <1>7 DEF Inv2, ManifestWhole
<1>9. OwnFiles'
  <2> SUFFICES ASSUME NEW m \in Names, NEW i \in 1 .. 2,
                      file'[m] # None, file'[m][i] # None
               PROVE  _path(file'[m][i].session_id) = m
    BY DEF OwnFiles, _path
  <2>1. CASE m = n
    <3>1. file'[m][i] = task[p].cp
      BY <1>3, <1>7, <2>1
    <3> QED BY <1>2, <1>5, <2>1, <3>1
  <2>2. CASE m # n
    BY <1>7, <2>2 DEF Inv2, OwnFiles
  <2> QED BY <2>1, <2>2
<1>10. SessionOK(p)'
  <2>1. CASE session[p] = None
    BY <1>1, <2>1 DEF SessionOK
  <2>2. CASE session[p] # None
    <3>1. session[p].id \in Ids /\ _path(session[p].id) \in Names /\ SessionOK(p)
      BY <2>2, SessionIsMine DEF Inv2, OwnOK
    <3>2. task[p].op = "checkpoint"
      BY <1>1, <1>2, <2>2 DEF ShapeOK, Saves
    <3>3. session[p].cp = task[p].cp /\ session[p].id = task[p].id
      BY <1>2, <3>2 DEF ShapeOK
    <3>4. task[p].cp.step <= task[p].cp.step
      BY <1>2, StateStoreAssumption DEF Sound, Checkpoint
    <3> QED BY <1>1, <1>2, <1>3, <1>7, <3>1, <3>3, <3>4 DEF SessionOK
  <2> QED BY <2>1, <2>2
<1>11. /\ fd' = [fd EXCEPT ![p] = fd'[p]]
       /\ \A m \in Names : Mine(p, m) \/ (file'[m] = file[m] /\ temp'[m] = temp[m])
  BY <1>2, <1>6, <1>7, OthersStay
<1> QED BY <1>1, <1>4, <1>8, <1>9, <1>10, <1>11, EndOwn

\* A session is completed, and its manifest removed.
LEMMA RemoveOwn ==
  ASSUME Inv2, Inv1', NEW p \in Processes, Remove(p) PROVE Inv2'
<1> DEFINE n == _path(task[p].source)
<1>1. /\ task[p] # None /\ task[p].at = "remove" /\ Return(p)
      /\ session' = [session EXCEPT ![p] = None]
      /\ file' = [file EXCEPT ![n] = None] /\ temp' = temp
  BY DEF Remove
<1>2. PICK moved : fd' = Moved(n, moved)
  BY DEF Remove
<1>3. ShapeOK(p)
  BY <1>1 DEF Inv2, Inv1, CallsOK
<1>4. task[p].source = task[p].id /\ task[p].id \in Ids
  BY <1>1, <1>3 DEF ShapeOK, Lookups
<1>5. Mine(p, n) /\ n \in Names
  BY <1>1, <1>4, PathIsName DEF Mine, Uses
<1> HIDE DEF n
<1>6. /\ file'[n] = None /\ \A m \in Names \ {n} : file'[m] = file[m]
      /\ session'[p] = None
  BY <1>1, <1>5 DEF Inv2, Inv1, SoundOK
<1>7. ManifestWhole'
  <2> SUFFICES ASSUME NEW m \in Names, file'[m] # None PROVE Whole(file'[m])
    BY DEF ManifestWhole, Whole
  <2> QED BY <1>6 DEF Inv2, ManifestWhole
<1>8. OwnFiles'
  <2> SUFFICES ASSUME NEW m \in Names, NEW i \in 1 .. 2,
                      file'[m] # None, file'[m][i] # None
               PROVE  _path(file'[m][i].session_id) = m
    BY DEF OwnFiles, _path
  <2> QED BY <1>6 DEF Inv2, OwnFiles
<1>9. SessionOK(p)'
  BY <1>6 DEF SessionOK
<1>10. /\ fd' = [fd EXCEPT ![p] = fd'[p]]
       /\ \A m \in Names : Mine(p, m) \/ (file'[m] = file[m] /\ temp'[m] = temp[m])
  BY <1>1, <1>2, <1>5, <1>6, OthersStay
<1> QED BY <1>1, <1>7, <1>8, <1>9, <1>10, EndOwn

\* The strengthened invariant holds at first,
LEMMA InitOwn == ASSUME Exclusive, OwnNames, Init PROVE Inv2
BY InitInv DEF Init, Inv2, OneUser, Uses, OwnFiles, ManifestWhole, OwnOK,
               SessionOK

\* and every step keeps it.
LEMMA NextOwn == ASSUME Inv2, [Next]_vars PROVE Inv2'
<1>1. Inv1'
  BY StepInv, StutterInv DEF Inv2, Next
<1>2. CASE UNCHANGED vars
  <2>1. /\ UNCHANGED <<file, temp, fd, session, task>>
    BY <1>2 DEF vars, disk
  <2>2. OneUser' /\ OwnFiles' /\ ManifestWhole'
    BY <2>1 DEF Inv2, OneUser, Uses, OwnFiles, ManifestWhole
  <2>3. ASSUME NEW p \in Processes PROVE OwnOK(p)'
    BY <2>1 DEF Inv2, OwnOK, SessionOK, SaveOK, Target
  <2> QED BY <1>1, <2>2, <2>3 DEF Inv2, OwnNames
<1>3. CASE Next
  <2>1. ASSUME NEW p \in Processes, NEW id \in Ids, resume(p, id) PROVE Inv2'
    <3>1. /\ Begin(p, "resume", "exists", id, id, None)
          /\ \A q \in Processes : ~Uses(q, id)
      BY <2>1 DEF resume, Free, Inv2
    <3> QED BY <1>1, <3>1, BeginOwn
  <2>2. ASSUME NEW p \in Processes, NEW id \in Ids, export_bundle(p, id)
        PROVE  Inv2'
    <3>1. Begin(p, "export", "exists", id, None, None)
      BY <2>2 DEF export_bundle
    <3> QED BY <1>1, <3>1, BeginOwn, StateStoreAssumption
  <2>3. ASSUME NEW p \in Processes, NEW id \in Ids, NEW new_id \in Ids,
               fork(p, id, new_id)
        PROVE  Inv2'
    <3>1. /\ Begin(p, "fork", "exists", id, new_id, None)
          /\ \A q \in Processes : ~Uses(q, new_id)
      BY <2>3 DEF fork, Free, Inv2
    <3> QED BY <1>1, <3>1, BeginOwn
  <2>4. ASSUME NEW p \in Processes, NEW overwrite \in BOOLEAN,
               import_bundle(p, overwrite)
        PROVE  Inv2'
    <3>1. \A q \in Processes : ~Uses(q, bundle.session_id)
      BY <2>4 DEF import_bundle, Free, Inv2
    <3>2. CASE overwrite
      <4>1. Begin(p, "overwrite", "open", None, bundle.session_id, bundle)
        BY <2>4, <3>2 DEF import_bundle
      <4> QED BY <1>1, <3>1, <4>1, BeginOwn
    <3>3. CASE ~overwrite
      <4>1. Begin(p, "import", "clash", None, bundle.session_id, bundle)
        BY <2>4, <3>3 DEF import_bundle
      <4> QED BY <1>1, <3>1, <4>1, BeginOwn
    <3> QED BY <3>2, <3>3
  <2>5. ASSUME NEW p \in Processes, checkpoint(p) PROVE Inv2'
    <3>1. Begin(p, "checkpoint", "open", None, session[p].id, session[p].cp)
      BY <2>5 DEF checkpoint
    <3>2. session[p] # None
      BY <3>1 DEF Begin
    <3>3. Uses(p, session[p].id) /\ session[p].cp.session_id = session[p].id
      BY <3>2 DEF Uses, Inv2, OwnOK, SessionOK
    <3> QED BY <1>1, <3>1, <3>3, BeginOwn
  <2>6. ASSUME NEW p \in Processes, complete(p) PROVE Inv2'
    <3>1. Begin(p, "clear", "exists", session[p].id, session[p].id, None)
      BY <2>6 DEF complete
    <3>2. Uses(p, session[p].id)
      BY <3>1 DEF Begin, Uses
    <3> QED BY <1>1, <3>1, <3>2, BeginOwn
  <2>7. ASSUME NEW p \in Processes, SystemCall(p) PROVE Inv2'
    BY <1>1, <2>7, ExistsOwn, ReadOwn, ClashOwn, OpenOwn, WriteOwn,
       WriteFailsOwn, ReplaceOwn, RemoveOwn DEF SystemCall
  <2> QED BY <1>1, <1>3, <2>1, <2>2, <2>3, <2>4, <2>5, <2>6, <2>7,
             AdvanceOwn, CrashOwn DEF Next
<1> QED BY <1>2, <1>3

\* The strengthened invariant always holds.
LEMMA Inv2Always == Exclusive /\ OwnNames /\ Spec => []Inv2
<1>1. Exclusive /\ OwnNames /\ Init => Inv2
  BY InitOwn
<1>2. Inv2 /\ [Next]_vars => Inv2'
  BY NextOwn
<1> QED BY <1>1, <1>2, PTL DEF Spec

\* save() is atomic: whatever crashes or fails, and whenever, a manifest that
\* can be seen is one that was written in full.
THEOREM ManifestsStayWhole == Exclusive /\ OwnNames /\ Spec => []ManifestWhole
<1>1. Inv2 => ManifestWhole
  BY DEF Inv2
<1> QED BY Inv2Always, <1>1, PTL

\* A process changes manifests only by its own rename or removal.
LEMMA ManifestsChange ==
  ASSUME Inv2, [Next]_vars, file' # file
  PROVE  \E p \in Processes : Replace(p) \/ Remove(p)
<1>1. ASSUME NEW p \in Processes, First(p) \/ Second(p) PROVE FALSE
  <2>1. task[p] # None /\ task[p].at \in {"first", "second"}
    BY <1>1 DEF First, Second
  <2>2. fd[p] = "temp"
    BY <2>1 DEF Inv2, OwnOK, SaveOK, Saves
  <2>3. PICK i \in 1 .. 2 : Chunk(p, i)
    BY <1>1 DEF First, Second
  <2>4. fd[p] # "file"
    BY <2>2
  <2> QED BY <2>3, <2>4 DEF Chunk
<1>2. ASSUME NEW p \in Processes, Exists(p) \/ Read(p) \/ Clash(p) \/ Open(p)
      PROVE  FALSE
  BY <1>2 DEF Exists, Read, Clash, Open, disk
<1>3. ASSUME NEW p \in Processes, WriteFails(p) \/ Crash(p) PROVE FALSE
  BY <1>3 DEF WriteFails, Crash, Abandon
<1>4. ASSUME NEW p \in Processes, Advance(p) PROVE FALSE
  BY <1>4 DEF Advance, disk
<1>5. ASSUME NEW p \in Processes, NEW op, NEW at, NEW source, NEW id, NEW cp,
             Begin(p, op, at, source, id, cp)
      PROVE  FALSE
  BY <1>5 DEF Begin, disk
<1>6. ~UNCHANGED vars
  BY DEF vars, disk
<1>7. PICK p \in Processes :
         \/ \E id \in Ids : resume(p, id) \/ export_bundle(p, id)
         \/ \E id, new_id \in Ids : fork(p, id, new_id)
         \/ \E overwrite \in BOOLEAN : import_bundle(p, overwrite)
         \/ Advance(p) \/ checkpoint(p) \/ complete(p)
         \/ SystemCall(p)
         \/ Crash(p)
  BY <1>6 DEF Next
<1> QED
  BY <1>1, <1>2, <1>3, <1>4, <1>5, <1>7
  DEF resume, export_bundle, fork, import_bundle, checkpoint, complete,
      SystemCall

\* A stored session never falls back: save() replaces a manifest by one of the
\* same session that is at least as far, unless the caller of import_bundle()
\* asked for the overwrite.
THEOREM ProgressIsKept == Exclusive /\ OwnNames /\ Spec => ProgressKept
<1> DEFINE Kept(n) ==
      \/ file'[n] \in {file[n], None} \/ file[n] = None
      \/ \E p \in Processes : /\ task[p] # None /\ task'[p] = None
                              /\ task[p].op = "overwrite"
      \/ /\ file'[n][1].session_id = file[n][1].session_id
         /\ file'[n][1].step >= file[n][1].step
<1>1. ASSUME Inv2, [Next]_vars, NEW n \in Names PROVE Kept(n)
  <2>1. CASE file' = file
    BY <2>1
  <2>2. CASE file' # file
    <3>1. PICK p \in Processes : Replace(p) \/ Remove(p)
      BY <1>1, <2>2, ManifestsChange
    <3>2. CASE Remove(p)
      <4>1. \E m : file' = [file EXCEPT ![m] = None]
        BY <3>2 DEF Remove
      <4>2. file'[n] \in {file[n], None}
        BY <4>1, <1>1 DEF Inv2, Inv1, SoundOK
      <4> QED BY <4>2
    <3>3. CASE Replace(p) /\ n # Target(p)
      <4>1. file' = [file EXCEPT ![Target(p)] = temp[Target(p)]]
        BY <2>2, <3>3 DEF Replace, disk
      <4>2. file'[n] = file[n]
        BY <3>3, <4>1, <1>1 DEF Inv2, Inv1, SoundOK
      <4> QED BY <4>2
    <3>4. CASE Replace(p) /\ n = Target(p) /\ file[n] # None
      <4>1. /\ task[p] # None /\ task[p].at = "replace" /\ task'[p] = None
            /\ file' = [file EXCEPT ![n] = temp[n]]
        BY <2>2, <3>4, <1>1 DEF Replace, disk, Return, Inv2, Inv1, SoundOK
      <4>2. /\ file'[n][1] = task[p].cp /\ task[p].cp \in Sound
            /\ task[p].cp.session_id = task[p].id
            /\ n = _path(task[p].id) /\ SaveOK(p) /\ ShapeOK(p)
        <5>1. /\ temp[n][1] = task[p].cp /\ task[p].cp \in Sound
          BY <1>1, <3>4, <4>1, ReplaceIsWhole
        <5>2. SaveOK(p) /\ ShapeOK(p)
          BY <1>1, <4>1 DEF Inv2, OwnOK, Inv1, CallsOK
        <5>3. n = _path(task[p].id)
          BY <1>1, <3>4, <4>1, TargetIsMine DEF Saves
        <5>4. file'[n] = temp[n]
          BY <4>1, <1>1 DEF Inv2, Inv1, SoundOK
        <5> QED BY <4>1, <5>1, <5>2, <5>3, <5>4 DEF SaveOK, Saves
      <4>3. CASE task[p].op = "overwrite"
        BY <4>1, <4>3
      <4>4. CASE task[p].op \in {"fork", "import"}
        BY <3>4, <4>1, <4>2, <4>4 DEF SaveOK, Saves
      <4>5. CASE task[p].op = "checkpoint"
        <5>1. /\ session[p] # None /\ task[p].id = session[p].id
              /\ task[p].cp = session[p].cp
          BY <4>2, <4>5 DEF ShapeOK
        <5>2. SessionOK(p)
          BY <1>1 DEF Inv2, OwnOK
        <5>3. file[n][1].step <= task[p].cp.step
          BY <3>4, <4>2, <5>1, <5>2 DEF SessionOK
        <5>4. file[n] \in SoundChunks /\ Whole(file[n])
          BY <1>1, <3>4 DEF Inv2, Inv1, SoundOK, ManifestWhole
        <5>5. file[n][1] \in Sound /\ _path(file[n][1].session_id) = n
          BY <1>1, <3>4, <5>4 DEF Whole, SoundChunks, Inv2, OwnFiles
        <5>6. /\ file[n][1].session_id \in Ids /\ task[p].cp.session_id \in Ids
              /\ file[n][1].step \in Int /\ task[p].cp.step \in Int
          BY <4>2, <5>5, StateStoreAssumption DEF Sound, Checkpoint
        <5>7. file[n][1].session_id = task[p].cp.session_id
          BY <1>1, <4>2, <5>5, <5>6 DEF Inv2, OwnNames, _path
        <5>8. task[p].cp.step >= file[n][1].step
          BY <5>3, <5>6
        <5> QED BY <4>2, <5>7, <5>8
      <4> QED BY <4>1, <4>2, <4>3, <4>4, <4>5 DEF ShapeOK, Saves
    <3>5. CASE file[n] = None
      BY <3>5
    <3> QED BY <3>1, <3>2, <3>3, <3>4, <3>5
  <2> QED BY <2>1, <2>2
<1>2. Inv2 /\ [Next]_vars => [\A n \in Names : Kept(n)]_vars
  BY <1>1
<1> QED BY Inv2Always, <1>2, PTL DEF Spec, ProgressKept

\* fork() never overwrites a checkpoint stored under the new id, nor does
\* import_bundle() without overwrite: from the look for one to the rename, the
\* place stays empty.
THEOREM NothingOverwritten == Exclusive /\ OwnNames /\ Spec => NeverOverwritten
<1> DEFINE Spared(p) ==
      /\ task[p] # None /\ task[p].op \in {"fork", "import"}
      /\ task[p].at = "replace" /\ task'[p] = None /\ file' # file
      => file[Target(p)] = None
<1>1. ASSUME Inv2, NEW p \in Processes PROVE Spared(p)
  BY <1>1 DEF Inv2, OwnOK, SaveOK, Saves
<1>2. Inv2 /\ [Next]_vars => [\A p \in Processes : Spared(p)]_vars
  BY <1>1
<1> QED BY Inv2Always, <1>2, PTL DEF Spec, NeverOverwritten

=============================================================================
