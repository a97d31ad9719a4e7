---------------------------- MODULE WorkerProcess ----------------------------
(***************************************************************************)
(* One worker process and its AOF shard (src/src/process_worker.py over    *)
(* persistence.py, store.py and commands.py), with its deaths and          *)
(* restarts.  A command is two steps, because a process can die between    *)
(* them: it is executed in memory (Execute), then logged and answered      *)
(* (Log).  Recovery replays one line per step.                             *)
(***************************************************************************)
EXTENDS CommandOps, AofOps

CONSTANTS Values,
          TTLs,         \* arguments of EXPIRE; None: not an integer
          Ops,          \* the commands that clients send
          Policies,     \* the fsync policies considered
          EveryN,       \* fsync_every_n
          MayTear,      \* an append that was cut short may leave part of a line
          MaxRecords,   \* bound on the length of the file
          MaxCrashes,   \* bound on the deaths
          MaxTime       \* bound on the clock

ASSUME WorkerAssumption ==
  /\ None \notin Values
  /\ TTLs \subseteq Int \cup {None}
  /\ Ops \subseteq {"SET", "GET", "DEL", "EXPIRE", "TTL", "FLUSHALL", "PING", "OTHER"}
  /\ Policies \subseteq {"always", "every_n", "never"}
  /\ EveryN \in Nat \ {0}
  /\ MayTear \in BOOLEAN
  /\ MaxRecords \in Nat /\ MaxCrashes \in Nat /\ MaxTime \in Nat

VARIABLES
  file,      \* the pieces of the shard, as a reader of the file finds them
  synced,    \* how many of them an fsync has covered
  policy,
  aof,       \* AofPersistence: [next, writes] (_next_sequence, _writes_since_fsync)
  store,
  now,
  mode,      \* "down", "replaying", "serving"
  cursor,    \* the next piece to replay
  began,     \* when the replay began                         (history)
  pending,   \* the write executed and not logged yet, or None
  crashes,
  memory,    \* memory[n + 1]: what clients last saw with n pieces  (history)
  answered   \* the pieces whose command was answered                (history)

vars == <<file, synced, policy, aof, store, now, mode, cursor, began,
          pending, crashes, memory, answered>>

disk    == <<file, synced>>
history == <<memory, answered>>

Commands ==
  {cmd \in [op : Ops, key : Keys, arg : Values \cup TTLs \cup {None}] :
     cmd.arg \in CASE cmd.op = "SET" -> Values [] cmd.op = "EXPIRE" -> TTLs
                   [] OTHER -> {None}}

\* "None pending" is told from every command.
ASSUME PendingAssumption == None \notin Commands

\* What a client can know of a store.
Contents(s) == [data |-> s.data, expiresAt |-> s.expiresAt]

Down == /\ mode' = "down" /\ cursor' = 1 /\ began' = 0 /\ pending' = None
        /\ store' = NewStore /\ aof' = [next |-> 0, writes |-> 0]
        /\ UNCHANGED <<policy, now>>

Init ==
  /\ file = <<>> /\ synced = 0 /\ policy \in Policies
  /\ mode = "down" /\ cursor = 1 /\ began = 0 /\ pending = None
  /\ store = NewStore /\ aof = [next |-> 0, writes |-> 0]
  /\ now = 0 /\ crashes = 0
  /\ memory = <<Contents(NewStore)>> /\ answered = {}

-----------------------------------------------------------------------------
(* The clock of the host. *)
Tick ==
  /\ now < MaxTime
  /\ now' = now + 1
  /\ UNCHANGED <<disk, policy, aof, store, mode, cursor, began, pending, crashes, history>>

(* worker_entry: the constructor finds the next sequence number ...        *)
Start ==
  /\ mode = "down"
  /\ mode' = "replaying" /\ cursor' = 1 /\ began' = now
  /\ aof' = [next |-> NextSequence(file), writes |-> 0]
  /\ UNCHANGED <<disk, policy, store, now, pending, crashes, history>>

(* ... and run replays the file, line by line ...                          *)
ReplayLine ==
  /\ mode = "replaying" /\ cursor <= Len(file)
  /\ store' = IF Parses(file, cursor)
              THEN ApplyReplayRequest(store, file[cursor].record.cmd, now)
              ELSE store
  /\ cursor' = cursor + 1
  /\ UNCHANGED <<disk, policy, aof, now, mode, began, pending, crashes, history>>

(* ... before it takes the first request from its queue.                   *)
Serve ==
  /\ mode = "replaying" /\ cursor > Len(file)
  /\ mode' = "serving" /\ began' = 0
  /\ memory' = [memory EXCEPT ![Len(memory)] = Contents(store)]
  /\ UNCHANGED <<disk, policy, aof, store, now, cursor, pending, crashes, answered>>

(* _handle_request: the command is executed, and answered now if it is not *)
(* logged.                                                                 *)
Execute(cmd) ==
  LET done == ExecuteCommand(store, cmd, now)
  IN  /\ mode = "serving" /\ pending = None
      /\ store' = done.store
      /\ \/ /\ IsWrite(cmd, done) /\ Len(file) < MaxRecords
            /\ pending' = cmd /\ UNCHANGED memory
         \/ /\ ~ IsWrite(cmd, done) /\ UNCHANGED pending
            /\ memory' = [memory EXCEPT ![Len(memory)] = Contents(done.store)]
      /\ UNCHANGED <<disk, policy, aof, now, mode, cursor, began, crashes, answered>>

(* append_request, then the answer. *)
Log ==
  /\ pending # None
  /\ LET writes == aof.writes + 1
         fsync  == Fsyncs(policy, writes, EveryN)
     IN  /\ file' = Append(file, Piece([seq |-> aof.next, cmd |-> pending], "whole"))
         /\ synced' = IF fsync THEN Len(file') ELSE synced
         /\ aof' = [next |-> aof.next + 1, writes |-> IF fsync THEN 0 ELSE writes]
  /\ pending' = None
  /\ memory' = Append(memory, Contents(store))
  /\ answered' = answered \cup {Len(file')}
  /\ UNCHANGED <<policy, store, now, mode, cursor, began, crashes>>

(* The expiration cycle of the loop. *)
Cycle ==
  /\ mode = "serving" /\ pending = None
  /\ store' = ProcessExpirations(store, now)
  /\ UNCHANGED <<disk, policy, aof, now, mode, cursor, began, pending, crashes, history>>

(* _handle_control "shutdown": close() and the end of the loop. *)
Stop ==
  /\ mode = "serving" /\ pending = None
  /\ synced' = IF FsyncsAtClose(policy, aof.writes) THEN Len(file) ELSE synced
  /\ Down
  /\ UNCHANGED <<file, crashes, history>>

-----------------------------------------------------------------------------
(* Deaths. *)

\* What may be left of a line that was to be written.
Parts(part) == CASE ~ MayTear      -> {part}
                 [] part = "whole" -> {"whole", "bare", "torn"}
                 [] part = "bare"  -> {"bare", "torn"}
                 [] part = "torn"  -> {"torn"}

\* A file, and what clients have seen, with one more piece.
Extend(left, piece, contents) ==
  [file   |-> Append(left.file, piece),
   memory |-> Append(left.memory, IF piece.part = "torn"
                                  THEN left.memory[Len(left.memory)]
                                  ELSE contents)]

\* The write in progress may or may not have reached the file, or in part
\* (the append was interrupted, or failed with an OSError: the disk is full).
AfterDeath ==
  LET left == [file |-> file, memory |-> memory]
  IN  {left} \cup
      {Extend(left, Piece([seq |-> aof.next, cmd |-> pending], part), Contents(store)) :
         part \in IF pending = None THEN {} ELSE Parts("whole")}

\* The first n pieces of it, and these with a part of the next one.
Kept(left, n) == [file   |-> SubSeq(left.file, 1, n),
                  memory |-> SubSeq(left.memory, 1, n + 1)]
Cut(left, n)  == {Extend(Kept(left, n), Piece(left.file[n + 1].record, part),
                         left.memory[n + 2]) : part \in Parts(left.file[n + 1].part)}

\* The page cache is lost with the host: any part of the file that no fsync
\* has covered may be missing from its end.
AfterPowerLoss ==
  UNION {{Kept(left, synced)} \cup UNION {Cut(left, n) : n \in synced .. Len(left.file) - 1}
           : left \in AfterDeath}

(* The process is killed, or an exception ends it. *)
ProcessCrash ==
  /\ mode # "down" /\ crashes < MaxCrashes
  /\ \E left \in AfterDeath : file' = left.file /\ memory' = left.memory
  /\ crashes' = crashes + 1
  /\ Down
  /\ UNCHANGED <<synced, answered>>

(* The host goes down with it. *)
PowerLoss ==
  /\ crashes < MaxCrashes
  /\ \E left \in AfterPowerLoss :
       /\ file' = left.file /\ memory' = left.memory
  /\ synced' = Len(file')
  /\ answered' = answered \cap DOMAIN file'
  /\ crashes' = crashes + 1
  /\ Down

-----------------------------------------------------------------------------
Next == \/ Tick \/ Start \/ ReplayLine \/ Serve
        \/ \E cmd \in Commands : Execute(cmd)
        \/ Log \/ Cycle \/ Stop
        \/ ProcessCrash \/ PowerLoss

Spec == Init /\ [][Next]_vars

-----------------------------------------------------------------------------
\* The commands that may be logged, and the pieces of a file.
Writes == {cmd \in Commands : cmd.op \in {"SET", "DEL", "EXPIRE"}
                             /\ (cmd.op = "EXPIRE" => cmd.arg # None)}
Pieces == [record : [seq : Nat, cmd : Writes], part : {"whole", "bare", "torn"}]

\* What clients may have been told of a store.
IsView(c) == /\ IsDict(c.data, Keys) /\ \A k \in DOMAIN c.data : c.data[k] \in Values
             /\ IsDict(c.expiresAt, Keys)
             /\ \A k \in DOMAIN c.expiresAt : c.expiresAt[k] \in Int
Told(m)   == m \in Seq(Range(m)) /\ \A c \in Range(m) : IsView(c)

(* Type invariant. *)
TypeOK ==
  /\ file \in Seq(Pieces)
  /\ synced \in 0 .. Len(file) /\ answered \subseteq DOMAIN file
  /\ policy \in Policies
  /\ aof \in [next : Nat, writes : Nat]
  /\ StoreOK(store, Values)
  /\ now \in 0 .. MaxTime /\ crashes \in 0 .. MaxCrashes
  /\ mode \in {"down", "replaying", "serving"}
  /\ cursor \in 1 .. Len(file) + 1 /\ began \in 0 .. now
  /\ pending \in Writes \cup {None} /\ (pending # None => mode = "serving")
  /\ Told(memory) /\ Len(memory) = Len(file) + 1

\* The replay is complete; no request has been taken yet.
Recovered == mode = "replaying" /\ cursor > Len(file)

\* What clients knew before the process died.
Remembered == memory[Len(memory)]

\* No record has been appended to a line that lacks its newline.
Intact == \A i \in 1 .. Len(file) - 1 : file[i].part = "whole"

\* The records a reader finds of a key, and the command of the last one.
RecordsOf(k) == {i \in DOMAIN file : Parses(file, i) /\ file[i].record.cmd.key = k}
LastOp(k) == IF RecordsOf(k) = {} THEN "none"
             ELSE file[Max(RecordsOf(k))].record.cmd.op

\* The replay has taken as long as some lifetime that the key once had.
Outlasted(k) ==
  \E i \in RecordsOf(k) : /\ file[i].record.cmd.op = "EXPIRE"
                          /\ file[i].record.cmd.arg > 0
                          /\ file[i].record.cmd.arg * Second <= now - began

(* Recovery brings back the keys and values that the clients had last seen *)
(* (or the last write, if it was not answered): the log lacks no write     *)
(* that was answered, holds them in the order of their execution, and      *)
(* replaying it has the effect that executing them had, whatever deaths    *)
(* and earlier recoveries lie between.  Nothing else comes back, except    *)
(* keys whose lifetime had run out, as the log has no record of that; and  *)
(* nothing is missing, except keys with a lifetime, when the replay was as *)
(* slow as that (it reads the clock anew for every record).  A torn last   *)
(* line is skipped; what an append to it does is AnsweredWritesReadable's  *)
(* matter.                                                                 *)
RecoversMemory ==
  Recovered /\ Intact =>
    /\ \A k \in DOMAIN Remembered.data :
         \/ k \in DOMAIN store.data /\ store.data[k] = Remembered.data[k]
         \/ k \notin DOMAIN store.data /\ LastOp(k) = "EXPIRE" /\ Outlasted(k)
    /\ \A k \in DOMAIN store.data \ DOMAIN Remembered.data :
         LastOp(k) = "EXPIRE"

(* With deadlines: a key that still had time to live when the process is   *)
(* back, and that is back too, does not expire earlier than the clients    *)
(* were told (the log keeps the seconds of EXPIRE, not the deadline, so    *)
(* that it may well expire later), and a key without a deadline gets none. *)
KeepsLiveKeys ==
  LET deadline == Remembered.expiresAt
      live     == {k \in DOMAIN Remembered.data \cap DOMAIN store.data :
                     k \in DOMAIN deadline => deadline[k] > now}
  IN  Recovered /\ Intact =>
        \A k \in live :
          /\ (k \in DOMAIN store.expiresAt) = (k \in DOMAIN deadline)
          /\ k \in DOMAIN deadline => store.expiresAt[k] >= deadline[k]

(* README.md:133: "always" means "Maximum durability".  Every write that   *)
(* was answered would be found again.                                      *)
AnsweredWritesReadable ==
  policy = "always" => \A i \in answered : Parses(file, i)

(* The sequence numbers of the records a reader finds increase along the   *)
(* file, and the next one continues them, through restarts that reuse the  *)
(* numbers of records that were lost.                                      *)
SequencesIncrease ==
  LET readable == {i \in DOMAIN file : Parses(file, i)}
  IN  /\ \A i, j \in readable : i < j => file[i].record.seq < file[j].record.seq
      /\ mode # "down" => \A i \in readable : file[i].record.seq < aof.next

(* What a death may cost: with "always" no write that was answered is ever *)
(* lost, with "every_n" less than n of them for this life of the process   *)
(* and for each earlier one (the count of unsynced appends starts again    *)
(* with the process).                                                      *)
LossBounded ==
  [][Cardinality(answered \ answered')
       <= CASE policy = "always"  -> 0
            [] policy = "every_n" -> (crashes + 1) * (EveryN - 1)
            [] policy = "never"   -> Cardinality(answered)]_vars

=============================================================================
