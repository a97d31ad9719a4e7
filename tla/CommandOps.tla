------------------------------ MODULE CommandOps ------------------------------
(***************************************************************************)
(* The commands a worker executes (src/src/commands.py) and replays        *)
(* (MemoryStore.apply_replay_request), as operators on a store.            *)
(*                                                                         *)
(* A command is a record [op, key, arg]: arg is the value of a SET and the *)
(* seconds of an EXPIRE, None if they are not an integer; the key of an    *)
(* MGET is the sequence of its keys, the arg of a KEYS the set of the      *)
(* names its pattern matches.  "OTHER" is a command that is refused.       *)
(***************************************************************************)
EXTENDS StoreOps, Responses, SequencesExt

Command(op, key, arg) == [op |-> op, key |-> key, arg |-> arg]

\* execute_command, with every reading of the clock the same: the store after
\* it, the reply, and whether that is an error.
ExecuteCommand(s, cmd, now) ==
  LET read(reply)     == [store |-> ProcessExpirations(s, now),
                          reply |-> reply, error |-> FALSE]
      done(result)    == [store |-> result.store,
                          reply |-> result.reply, error |-> FALSE]
      refused         == [store |-> s, reply |-> None, error |-> TRUE]
  IN  CASE cmd.op = "SET" ->
             done([store |-> SetKey(s, cmd.key, cmd.arg, now), reply |-> None])
        [] cmd.op = "GET"      -> read(ValueOf(s, cmd.key, now))
        [] cmd.op = "DEL"      -> done(DeleteKey(s, cmd.key, now))
        [] cmd.op = "EXPIRE"   ->
             IF cmd.arg = None THEN refused
             ELSE done(ExpireKey(s, cmd.key, cmd.arg, now, now))
        [] cmd.op = "TTL"      -> done(KeyTtl(s, cmd.key, now, now))
        [] cmd.op = "MGET"     ->
             read([i \in DOMAIN cmd.key |-> ValueOf(s, cmd.key[i], now)])
        [] cmd.op = "KEYS"     -> read(KeysMatching(s, cmd.arg, now))
        [] cmd.op = "FLUSHALL" -> done(Flush(s, now))
        [] cmd.op = "PING"     -> [store |-> s, reply |-> None, error |-> FALSE]
        [] cmd.op = "OTHER"    -> refused

\* The response it builds; the keys are listed in any order, each a word.
Response(cmd, done) ==
  IF done.error THEN Error("INVALID_REQUEST")
  ELSE CASE cmd.op = "PING" -> Simple("PONG")
         [] cmd.op = "SET"  -> Simple("OK")
         [] cmd.op = "GET"  -> IF done.reply = None THEN Null ELSE Bulk(done.reply)
         [] cmd.op = "MGET" -> Array(done.reply)
         [] cmd.op = "KEYS" -> LET names == SetToSeq(done.reply)
                               IN  Array([i \in DOMAIN names |-> <<names[i]>>])
         [] cmd.op \in {"DEL", "EXPIRE", "TTL", "FLUSHALL"} -> Integer(done.reply)

\* Mutated _is_write: DEL is forgotten.
IsWriteNoDel(cmd, done) ==
  /\ ~ done.error
  /\ cmd.op = "SET" \/ (cmd.op = "EXPIRE" /\ done.reply = 1)

\* _is_write: whether a command that was executed goes to the log.
IsWrite(cmd, done) ==
  /\ ~ done.error
  /\ \/ cmd.op \in {"SET", "DEL"}
     \/ cmd.op = "EXPIRE" /\ done.reply = 1

\* Mutated apply_replay_request: a SET leaves the deadline of the key alone.
ReplayKeepingExpiry(s, cmd, now) ==
  LET p == ProcessExpirations(s, now)
  IN  CASE cmd.op = "SET"    -> [p EXCEPT !.data = Put(@, cmd.key, cmd.arg)]
        [] cmd.op = "DEL"    -> DeleteKey(p, cmd.key, now).store
        [] cmd.op = "EXPIRE" -> ExpireKey(p, cmd.key, cmd.arg, now, now).store
        [] cmd.op = "FLUSHALL" -> Flush(p, now).store

\* apply_replay_request: the writes again, after one more expiration cycle.
ApplyReplayRequest(s, cmd, now) ==
  LET p == ProcessExpirations(s, now)
  IN  CASE cmd.op = "SET"      -> SetKey(p, cmd.key, cmd.arg, now)
        [] cmd.op = "DEL"      -> DeleteKey(p, cmd.key, now).store
        [] cmd.op = "EXPIRE"   -> ExpireKey(p, cmd.key, cmd.arg, now, now).store
        [] cmd.op = "FLUSHALL" -> Flush(p, now).store

=============================================================================
