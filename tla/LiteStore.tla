------------------------------- MODULE LiteStore -------------------------------
(***************************************************************************)
(* A whole server, from a client's line to the files and back              *)
(* (src/src/server.py over protocol.py, router.py, worker.py, commands.py, *)
(* store.py and persistence.py), through stops, deaths and restarts.       *)
(*                                                                         *)
(* mode "single": the workers are objects of the runtime's process, one    *)
(* file holds the writes of all.  mode "multi": each worker is a process   *)
(* with a file of its own.  Requests are one step each: in single mode no  *)
(* await lies between routing and logging; in multi mode WorkerPool and    *)
(* WorkerProcess have the steps in between.  Keys have no lifetimes here,  *)
(* and expiration cycles no effect; torn lines are in WorkerProcess.       *)
(***************************************************************************)
EXTENDS RouterOps, ProtocolOps, AofOps

CONSTANTS Modes,        \* the modes considered, "single" and "multi"
          Counts,       \* the numbers of workers considered
          Resizable,    \* the modes whose number of workers may change at a restart
          Verbs,        \* the commands that clients send
          Texts,        \* words that are not numbers
          MaxRecords    \* bound on the records in all files

ASSUME LiteStoreAssumption ==
  /\ Modes \subseteq {"single", "multi"} /\ Resizable \subseteq Modes
  /\ Counts \subseteq Nat \ {0} /\ Counts # {} /\ IsFiniteSet(Counts)
  /\ \A n \in Numbers : n <= 0
  /\ None \notin Keys \cup {"INVALID_REQUEST", "UNKNOWN_COMMAND", "WRONG_ARITY"}
  /\ MaxRecords \in Nat

VARIABLES
  mode,      \* _use_multiprocessing
  hash,      \* key -> the number that SHA-256 makes of it
  count,     \* config.worker_count
  up,
  stores,    \* worker -> its MemoryStore
  files,     \* log -> its pieces, as a reader of the file finds them
  buffer,    \* the records that Python holds back since a write of them failed
  next,      \* log -> _next_sequence
  left,      \* log -> the pieces that the replay has yet to come to
  exchange   \* the last line of a client and the lines it was answered  (history)

vars == <<mode, hash, count, up, stores, files, buffer, next, left, exchange>>

config == <<mode, hash, count, up>>
logs   == <<files, buffer, next>>

Workers == 0 .. count - 1
Logs    == IF mode = "single" THEN {0} ELSE 0 .. Max(Counts) - 1

\* _aof_path_for_worker: the log of a worker.
LogOf(w) == IF mode = "single" THEN 0 ELSE w

\* Everything is written for the moment 0, as there are no lifetimes.
Now == 0

\* The stores of n workers at their start.
NewStores(n) == [w \in 0 .. n - 1 |-> NewStore]

NoExchange == [line |-> None, lines |-> <<>>]

Init ==
  /\ mode \in Modes /\ count \in Counts /\ up = FALSE
  /\ hash \in [Keys -> 0 .. Max(Counts) - 1]
  /\ stores = NewStores(count)
  /\ files = [f \in Logs |-> <<>>] /\ buffer = <<>>
  /\ next = [f \in Logs |-> 0] /\ left = [f \in Logs |-> <<>>]
  /\ exchange = NoExchange

-----------------------------------------------------------------------------
(* LiteStoreRuntime.start, and WorkerPool.start_all: empty stores, and the *)
(* logs are opened.                                                        *)
Start(n) ==
  /\ ~ up /\ up' = TRUE
  /\ n = count \/ mode \in Resizable
  /\ count' = n
  /\ stores' = NewStores(n)
  /\ next' = [f \in Logs |-> NextSequence(files[f])]
  /\ left' = files
  /\ UNCHANGED <<mode, hash, files, buffer, exchange>>

\* StoreWorker.execute (and _handle_request of process_worker.py): what worker
\* w makes of a command.
Executed(w, cmd) == ExecuteCommand(stores[w], cmd, Now)

\* Mutated _replay_persistence: every record goes to the first worker.
ReplayUnrouted(cmd) == [stores EXCEPT ![0] = Executed(0, cmd).store]

\* _replay_persistence: the record is executed like a request.
ReplayRouted(cmd) ==
  LET w == RouteRequest(hash, cmd, count)
  IN  [stores EXCEPT ![w] = Executed(w, cmd).store]

\* WorkerProcess.run: the worker replays what its own log has.
ReplayShard(f, cmd) == [stores EXCEPT ![f] = ApplyReplayRequest(@, cmd, Now)]

(* One record of a replay. *)
ReplayLine(f) ==
  /\ up /\ left[f] # <<>> /\ (mode = "multi" => f \in Workers)
  /\ LET cmd == Head(left[f]).record.cmd
     IN  stores' = IF mode = "single" THEN ReplayRouted(cmd) ELSE ReplayShard(f, cmd)
  /\ left' = [left EXCEPT ![f] = Tail(@)]
  /\ UNCHANGED <<config, logs, exchange>>

-----------------------------------------------------------------------------
\* In single mode the server listens when all is replayed.
Listening == up /\ (mode = "single" => left[0] = <<>>)

\* What the worker's response becomes on its way: WorkerResponse has no values.
Relayed(response) ==
  IF mode = "multi" /\ response[1] = "ARRAY" THEN Array(<<>>) ELSE response

Exchange(words, response) ==
  exchange' = [line |-> words, lines |-> SerializeResponse(response)]

(* _process_command_bytes, for a line that does not parse. *)
Refuse(words) ==
  /\ Listening /\ ParseError(words) # None
  /\ Exchange(words, Error(ParseError(words)))
  /\ UNCHANGED <<config, logs, stores, left>>

\* _is_persisted_write, and _is_write of process_worker.py.
IsPersistedWrite(cmd, done) == IsWrite(cmd, done)

\* The record of a command, and all those that are to be written with it.
Unwritten(f, cmd) == Append(buffer, Piece([seq |-> next[f], cmd |-> cmd], "whole"))

Room == FoldSet(LAMBDA f, sum : sum + Len(files[f]), Len(buffer), Logs) < MaxRecords

\* append_request: the record, and all that was held back before, reach the
\* file ...
AppendRequest(f, cmd) ==
  /\ files' = [files EXCEPT ![f] = @ \o Unwritten(f, cmd)]
  /\ buffer' = <<>>
  /\ next' = [next EXCEPT ![f] = @ + 1]

\* ... or it fails with an OSError: what could not be written is held back,
\* and _next_sequence stays as it is.
AppendFails(cmd) ==
  LET all == Unwritten(0, cmd)
  IN  /\ \E n \in 0 .. Len(all) :
           /\ files' = [files EXCEPT ![0] = @ \o SubSeq(all, 1, n)]
           /\ buffer' = SubSeq(all, n + 1, Len(all))
      /\ UNCHANGED next

(* _dispatch_request: the worker executes the command; if that is to be    *)
(* logged, it is; or in single mode that fails, and the client is told so  *)
(* although memory has changed (in multi mode it ends the worker, see      *)
(* WorkerProcess).                                                         *)
Dispatch(words) ==
  /\ Listening /\ ParseError(words) = None
  /\ LET cmd      == ParseCommand(words)
         w        == RouteRequest(hash, cmd, count)
         done     == Executed(w, cmd)
         response == Relayed(Response(cmd, done))
     IN  /\ left[LogOf(w)] = <<>>
         /\ stores' = [stores EXCEPT ![w] = done.store]
         /\ \/ /\ ~ IsPersistedWrite(cmd, done)
               /\ Exchange(words, response) /\ UNCHANGED logs
            \/ /\ IsPersistedWrite(cmd, done) /\ Room
               /\ Exchange(words, response) /\ AppendRequest(LogOf(w), cmd)
            \/ /\ mode = "single" /\ IsPersistedWrite(cmd, done) /\ Room
               /\ Exchange(words, Error("PERSISTENCE_ERROR")) /\ AppendFails(cmd)
  /\ UNCHANGED <<config, left>>

(* The server ends.  close() writes what is held back, or part of it if it *)
(* still fails; a process that is killed writes nothing.                   *)
Stop ==
  /\ up /\ up' = FALSE
  /\ \E n \in 0 .. Len(buffer) :
       files' = IF n = 0 THEN files
                ELSE [files EXCEPT ![0] = @ \o SubSeq(buffer, 1, n)]
  /\ stores' = NewStores(count) /\ buffer' = <<>>
  /\ next' = [f \in Logs |-> 0] /\ left' = [f \in Logs |-> <<>>]
  /\ exchange' = NoExchange
  /\ UNCHANGED <<mode, hash, count>>

-----------------------------------------------------------------------------
\* The values that a SET may have, and the lines considered.
Values == {<<x>> : x \in Texts \cup {NullWord}} \cup {<<x, y>> : x, y \in Texts}

\* "No value" is not a value, nor a name in the answer to KEYS.
ASSUME ValuesAssumption == None \notin Values \cup {<<k>> : k \in Keys}

AllLines ==
  {<<>>, <<"NOPE">>} \cup {<<verb>> : verb \in {"PING", "KEYS", "FLUSHALL", "MGET"}}
    \cup {<<verb, k>> : verb \in {"SET", "GET", "DEL", "TTL", "KEYS"}, k \in Keys}
    \cup {<<"SET", k>> \o value : k \in Keys, value \in Values}
    \cup {<<"EXPIRE", k, seconds>> : k \in Keys, seconds \in Numbers \cup Texts}
    \cup {<<"MGET", k, l>> : k, l \in Keys}

Lines == {words \in AllLines : words = <<>> \/ words[1] \in Verbs \cup {"NOPE"}}

Next == \/ \E n \in Counts : Start(n)
        \/ \E f \in Logs : ReplayLine(f)
        \/ \E words \in Lines : Refuse(words) \/ Dispatch(words)
        \/ Stop

Spec == Init /\ [][Next]_vars

-----------------------------------------------------------------------------
\* What a log may hold: the writes that clients send, in whole lines.
Writes == [op : {"SET"}, key : Keys, arg : Values]
            \cup [op : {"DEL"}, key : Keys, arg : {None}]
            \cup [op : {"EXPIRE"}, key : Keys, arg : Numbers]
Pieces == [record : [seq : Nat, cmd : Writes], part : {"whole"}]

(* Type invariant. *)
TypeOK ==
  /\ mode \in Modes /\ count \in Counts /\ up \in BOOLEAN
  /\ hash \in [Keys -> Nat]
  /\ DOMAIN stores = Workers
  /\ \A w \in Workers : StoreOK(stores[w], Values) /\ stores[w].expiresAt = EmptyDict
  /\ DOMAIN files = Logs /\ DOMAIN next = Logs /\ DOMAIN left = Logs
  /\ \A f \in Logs : /\ files[f] \in Seq(Pieces) /\ left[f] \in Seq(Pieces)
                     /\ next[f] \in Nat /\ Len(left[f]) <= Len(files[f])
  /\ buffer \in Seq(Pieces) /\ (mode = "multi" \/ ~ up => buffer = <<>>)

(* README.md:142: "routing is deterministic, so the same key always lands  *)
(* on the same partition": a key is never in a store that its requests do  *)
(* not go to, where it could be neither read nor removed, also when a      *)
(* restart has changed the number of workers and the replay has moved it.  *)
KeysStayHome ==
  \A w \in Workers : \A k \in DOMAIN stores[w].data : RouteKey(hash, k, count) = w

(* README.md:145: "monotonic sequencing".  The records of a log carry      *)
(* numbers that increase, and the next continues them, except that a       *)
(* failed append leaves its number to the next record.                     *)
SequencesOrdered ==
  \A f \in Logs :
    LET all    == files[f] \o (IF mode = "single" THEN buffer ELSE <<>>)
        seq(i) == all[i].record.seq
    IN  /\ \A i, j \in DOMAIN all : i < j => IF mode = "single" THEN seq(i) <= seq(j)
                                                                ELSE seq(i) < seq(j)
        /\ up => \A i \in DOMAIN all : IF mode = "single" THEN seq(i) <= next[f]
                                                          ELSE seq(i) < next[f]

-----------------------------------------------------------------------------
(* The whole implements the map (KeyValueMap). *)

\* The write that a record stands for.
WriteOf(cmd) == [key |-> cmd.key, value |-> IF cmd.op = "SET" THEN cmd.arg ELSE None]

\* What a log says of a key: its last record counts.
Recovered(pieces, k) ==
  LET records == {i \in DOMAIN pieces : pieces[i].record.cmd.key = k}
  IN  IF records = {} THEN None ELSE WriteOf(pieces[Max(records)].record.cmd).value

Home(k) == RouteKey(hash, k, count)

\* What is durable of a key, and what is seen of it: what its worker has, once
\* that has replayed its log.
DurableAt(k) == Recovered(files[LogOf(Home(k))], k)
SeenAt(k) == IF up /\ left[LogOf(Home(k))] = <<>>
             THEN Lookup(stores[Home(k)].data, k, None)
             ELSE DurableAt(k)

\* The same as maps, and the writes held back.
Seen     == [k \in {l \in Keys : SeenAt(l) # None} |-> SeenAt(k)]
Durable  == [k \in {l \in Keys : DurableAt(l) # None} |-> DurableAt(k)]
Doubtful == [i \in DOMAIN buffer |-> WriteOf(buffer[i].record.cmd)]

Abstract == INSTANCE KeyValueMap
  WITH seen     <- Seen,
       durable  <- Durable,
       doubtful <- Doubtful,
       Past     <- Numbers,
       line     <- exchange.line,
       answer   <- ReadAnswer(exchange.lines)

(* The documentation has no limits on the commands about all keys.         *)
(* README.md:176-178: MGET answers "*N array of $value / $-1 entries",     *)
(* KEYS "*N array of matching key names", FLUSHALL ":N (number of keys     *)
(* removed)"; interfaces.py:32: "all live key names"; interfaces.py:35:    *)
(* "Delete all keys".                                                      *)
ImplementsKeyValueMap == Abstract!Spec

\* The keys of the first worker, to which route_request sends those commands.
FirstKeys == {k \in Keys : Home(k) = 0}

\* What they do: MGET and KEYS know the keys of the first worker only, or in
\* multi mode answer an empty array (Relayed); FLUSHALL removes the keys of the
\* first worker from memory, and from no log.
Partly ==
  \/ mode = "single" /\ (Abstract!MGet(FirstKeys) \/ Abstract!KeyNames(FirstKeys))
  \/ /\ mode = "multi"
     /\ exchange'.line \in Abstract!WellFormed /\ exchange'.line[1] \in {"MGET", "KEYS"}
     /\ Abstract!Answer(Array(<<>>))
  \/ /\ exchange'.line = <<"FLUSHALL">>
     /\ ReadAnswer(exchange'.lines) = Integer(Cardinality(DOMAIN Seen \cap FirstKeys))
     /\ Seen' = Drop(Seen, FirstKeys) /\ UNCHANGED <<Durable, Doubtful>>

(* Sharding, routing, logging and recovery together are that map in all    *)
(* else: no restart, with whatever number of workers, and no refused write *)
(* loses, revives or misplaces what clients were told (server.py:200-224), *)
(* and the three commands do exactly their part of it.                     *)
ImplementsMapInPart ==
  Abstract!Init /\ [][Abstract!Keyed \/ Partly]_(Abstract!vars)

=============================================================================
