------------------------------ MODULE KeyValueMap ------------------------------
(***************************************************************************)
(* What the documentation promises the clients of a whole server that may  *)
(* stop and start again, as long as no key has a lifetime: one map,        *)
(* whatever the number of workers, files and processes behind it.  A       *)
(* client sends a line, a sequence of words, and gets one answer           *)
(* (README.md:168-178; the methods of StoreInterface, interfaces.py:12-36).*)
(*                                                                         *)
(* A write that is answered has been made in memory and is durable.  One   *)
(* that is refused because of the log has been made in memory too, and may *)
(* become durable later, in its turn, or never.  MGET and KEYS answer for  *)
(* the whole map and FLUSHALL deletes all of it, for good: these three the *)
(* server keeps in part only (ImplementsMapInPart of LiteStore).           *)
(***************************************************************************)
EXTENDS Integers, SequencesExt, Dicts, Responses

CONSTANTS Keys,
          Values,    \* of a SET: sequences of words
          Past,      \* the words for a number of seconds that is not positive
          Lines,     \* the lines that clients send
          NullWord,  \* the word "-1"
          None

VARIABLES
  seen,      \* key -> value: the map that clients read
  durable,   \* key -> value: the map that a restart brings back
  doubtful,  \* the refused writes that are not durable yet
  line,      \* the last line of a client, None after a stop
  answer     \* what it was answered

vars == <<seen, durable, doubtful, line, answer>>

Init == /\ seen = EmptyDict /\ durable = EmptyDict
        /\ doubtful = <<>> /\ line = None /\ answer = None

-----------------------------------------------------------------------------
\* A write sets a key, or removes it (value None).
Write(key, value) == [key |-> key, value |-> value]

\* The map after some writes: of those to one key the last counts.
Written(map, writes) ==
  LET own(k)   == {i \in DOMAIN writes : writes[i].key = k}
      value(k) == IF own(k) = {} THEN Lookup(map, k, None)
                  ELSE writes[Max(own(k))].value
  IN  [k \in {l \in Keys : value(l) # None} |-> value(k)]

\* The first n of the writes become durable, the others wait.
Persist(writes, n) ==
  /\ durable' = Written(durable, SubSeq(writes, 1, n))
  /\ doubtful' = SubSeq(writes, n + 1, Len(writes))

\* A write, durable with all that were refused before it; or refused.
Change(w, response) ==
  LET writes == Append(doubtful, w)
  IN  /\ seen' = Written(seen, <<w>>)
      /\ \/ answer' = response /\ Persist(writes, Len(writes))
         \/ /\ answer' = Error("PERSISTENCE_ERROR")
            /\ \E n \in 0 .. Len(writes) : Persist(writes, n)

Answer(response) == answer' = response /\ UNCHANGED <<seen, durable, doubtful>>

-----------------------------------------------------------------------------
\* What the map has at a key.
At(k) == IF k \in DOMAIN seen THEN seen[k] ELSE None

\* What a client hears of a value: "-1" is `$-1` on the wire, and so is none
\* (README.md:172).
Heard(value) == IF value = <<NullWord>> THEN None ELSE value

Set(k, v) == line' = <<"SET", k>> \o v /\ Change(Write(k, v), Simple("OK"))

Get(k) == /\ line' = <<"GET", k>>
          /\ LET value == Heard(At(k))
             IN  Answer(IF value = None THEN Null ELSE Bulk(value))

Del(k) == /\ line' = <<"DEL", k>>
          /\ Change(Write(k, None), Integer(IF At(k) = None THEN 0 ELSE 1))

Expire(k, seconds) ==
  /\ line' = <<"EXPIRE", k, seconds>>
  /\ IF At(k) = None THEN Answer(Integer(0)) ELSE Change(Write(k, None), Integer(1))

Ttl(k) == /\ line' = <<"TTL", k>>
          /\ Answer(Integer(IF At(k) = None THEN -2 ELSE -1))

Ping == line' = <<"PING">> /\ Answer(Simple("PONG"))

-----------------------------------------------------------------------------
(* The commands about all keys; the first two as far as some keys go. *)

\* A value for each key that is asked for.
MGet(known) ==
  /\ line' \in Lines /\ line' # <<>> /\ line'[1] = "MGET" /\ Len(line') > 1
  /\ Answer(Array([i \in 1 .. Len(line') - 1 |->
                     IF line'[i + 1] \in known THEN Heard(At(line'[i + 1])) ELSE None]))

\* The names of all keys that match, in any order.
ListNames(words, names) ==
  /\ line' = words
  /\ \E order \in SetToSeqs(DOMAIN seen \cap names) :
       Answer(Array([i \in DOMAIN order |-> Heard(<<order[i]>>)]))

KeyNames(known) == \/ ListNames(<<"KEYS">>, known)
                   \/ \E k \in Keys : ListNames(<<"KEYS", k>>, known \cap {k})

\* Every key is deleted, and how many there were is the answer.
FlushAll == /\ line' = <<"FLUSHALL">>
            /\ seen' = EmptyDict /\ durable' = EmptyDict /\ doubtful' = <<>>
            /\ answer' = Integer(Cardinality(DOMAIN seen))

-----------------------------------------------------------------------------
\* The lines above.
WellFormed ==
  {<<"PING">>, <<"FLUSHALL">>, <<"KEYS">>}
    \cup {<<"SET", k>> \o v : k \in Keys, v \in Values}
    \cup {<<verb, k>> : verb \in {"GET", "DEL", "TTL", "KEYS"}, k \in Keys}
    \cup {<<"EXPIRE", k, seconds>> : k \in Keys, seconds \in Past}
    \cup {words \in Lines : words # <<>> /\ words[1] = "MGET" /\ Len(words) > 1}

Refuse == /\ \E code \in {"INVALID_REQUEST", "UNKNOWN_COMMAND", "WRONG_ARITY"} :
               Answer(Error(code))
          /\ line' \in Lines \ WellFormed

(* The server stops, or dies. *)
Restart == /\ \E n \in 0 .. Len(doubtful) :
                durable' = Written(durable, SubSeq(doubtful, 1, n))
           /\ seen' = durable' /\ doubtful' = <<>> /\ line' = None /\ answer' = None

\* All but the commands about all keys.
Keyed == \/ \E k \in Keys : \/ \E v \in Values : Set(k, v)
                            \/ \E seconds \in Past : Expire(k, seconds)
                            \/ Get(k) \/ Del(k) \/ Ttl(k)
         \/ Ping \/ Refuse \/ Restart

Next == Keyed \/ MGet(Keys) \/ KeyNames(Keys) \/ FlushAll

Spec == Init /\ [][Next]_vars

=============================================================================
