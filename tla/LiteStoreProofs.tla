---------------------------- MODULE LiteStoreProofs ----------------------------
(***************************************************************************)
(* A whole server, for any keys, values, numbers of workers and routings,  *)
(* through any number of stops, deaths, refused writes and restarts.       *)
(***************************************************************************)
EXTENDS LiteStore, StoreLemmas, SequenceTheorems

\* A store without lifetimes whose keys are all in H.
Fits(s, H) ==
  StoreOK(s, Values) /\ s.expiresAt = EmptyDict /\ DOMAIN s.data \subseteq H

\* What a worker is given to execute.
IsCommand(cmd) ==
  /\ cmd.op \in {"SET", "GET", "DEL", "EXPIRE", "TTL", "MGET", "KEYS", "FLUSHALL", "PING"}
  /\ cmd.op \in {"SET", "GET", "DEL", "EXPIRE", "TTL"} => cmd.key \in Keys
  /\ cmd.op = "SET" => cmd.arg \in Values
  /\ cmd.op = "EXPIRE" => cmd.arg \in Numbers \cup {None}

\* The keys that are routed to worker w.
HomeKeys(w) == {k \in Keys : RouteKey(hash, k, count) = w}

\* The log of a worker of multi mode has only its own keys.
Routed(pieces, w) ==
  \A i \in DOMAIN pieces : pieces[i].record.cmd.key \in HomeKeys(w)

LogsRouted ==
  mode = "multi" => \A f \in Logs : Routed(files[f], f) /\ Routed(left[f], f)
-----------------------------------------------------------------------------
(* What the methods do to a store without lifetimes. *)

LEMMA DropNone == \A S : Drop(EmptyDict, S) = EmptyDict
BY DEF Drop, Restrict, EmptyDict

LEMMA ProcessFits ==
  ASSUME NEW s, NEW H, Fits(s, H)
  PROVE  Fits(ProcessExpirations(s, Now), H)
<1>. DEFINE p == ProcessExpirations(s, Now)
            expired == {k \in PopDue(s.wheel, Now).due \cap DOMAIN s.expiresAt :
                          s.expiresAt[k] <= Now}
<1>1. StoreOK(p, Values)
  BY ProcessOK DEF Fits, Now
<1>2. p.data = Drop(s.data, expired) /\ p.expiresAt = Drop(s.expiresAt, expired)
  BY DEF ProcessExpirations
<1>3. IsDict(s.data, Keys) /\ s.expiresAt = EmptyDict /\ DOMAIN s.data \subseteq H
  BY StoreParts DEF Fits
<1>. HIDE DEF p, expired
<1>4. DOMAIN p.data \subseteq H
  <2>1. DOMAIN Drop(s.data, expired) = DOMAIN s.data \ expired
    BY <1>3, DropDict
  <2>. QED BY <1>2, <1>3, <2>1
<1>5. p.expiresAt = EmptyDict
  BY <1>2, <1>3, DropNone
<1>. QED BY <1>1, <1>4, <1>5 DEF Fits, p

LEMMA NewFits == \A H : Fits(NewStore, H)
BY NewStoreOK, EmptyIsDict DEF Fits, NewStore

LEMMA SetFits ==
  ASSUME NEW s, NEW H, Fits(s, H), NEW k \in Keys \cap H, NEW v \in Values
  PROVE  Fits(SetKey(s, k, v, Now), H)
<1>. DEFINE p == ProcessExpirations(s, Now)
            r == SetKey(s, k, v, Now)
<1>1. StoreOK(r, Values)
  BY SetKeyOK DEF Fits, Now
<1>2. r.data = Put(p.data, k, v) /\ r.expiresAt = Drop(p.expiresAt, {k})
  BY DEF SetKey, ClearExpiry, ProcessExpirations
<1>3. Fits(p, H)
  BY ProcessFits
<1>. HIDE DEF p, r
<1>4. IsDict(p.data, Keys) /\ p.expiresAt = EmptyDict /\ DOMAIN p.data \subseteq H
  BY <1>3, StoreParts DEF Fits
<1>5. DOMAIN r.data \subseteq H
  <2>1. DOMAIN Put(p.data, k, v) = DOMAIN p.data \cup {k}
    BY <1>4, PutDict
  <2>. QED BY <1>2, <1>4, <2>1
<1>6. r.expiresAt = EmptyDict
  BY <1>2, <1>4, DropNone
<1>. QED BY <1>1, <1>5, <1>6 DEF Fits, r

LEMMA DeleteFits ==
  ASSUME NEW s, NEW H, Fits(s, H), NEW k \in Keys
  PROVE  Fits(DeleteKey(s, k, Now).store, H)
<1>. DEFINE p == ProcessExpirations(s, Now)
            r == DeleteKey(s, k, Now).store
<1>1. StoreOK(r, Values)
  BY DeleteKeyOK DEF Fits, Now
<1>2. \/ r = p
      \/ r.data = Drop(p.data, {k}) /\ r.expiresAt = Drop(p.expiresAt, {k})
  BY DEF DeleteKey, ClearExpiry, ProcessExpirations
<1>3. Fits(p, H)
  BY ProcessFits
<1>. HIDE DEF p, r
<1>4. IsDict(p.data, Keys) /\ p.expiresAt = EmptyDict /\ DOMAIN p.data \subseteq H
  BY <1>3, StoreParts DEF Fits
<1>5. DOMAIN r.data \subseteq H
  <2>1. DOMAIN Drop(p.data, {k}) = DOMAIN p.data \ {k}
    BY <1>4, DropDict
  <2>. QED BY <1>2, <1>4, <2>1
<1>6. r.expiresAt = EmptyDict
  BY <1>2, <1>4, DropNone
<1>. QED BY <1>1, <1>5, <1>6 DEF Fits, r

LEMMA ExpireFits ==
  ASSUME NEW s, NEW H, Fits(s, H), NEW k \in Keys, NEW n \in Numbers
  PROVE  Fits(ExpireKey(s, k, n, Now, Now).store, H)
<1>. DEFINE p == ProcessExpirations(s, Now)
<1>1. Fits(p, H) /\ Fits(DeleteKey(p, k, Now).store, H)
  BY ProcessFits, DeleteFits
<1>2. n \in Int /\ n <= 0
  BY NumbersAssumption, LiteStoreAssumption
<1>3. ExpireKey(s, k, n, Now, Now).store \in {p, DeleteKey(p, k, Now).store}
  BY <1>2 DEF ExpireKey
<1>. QED BY <1>1, <1>3

LEMMA TtlFits ==
  ASSUME NEW s, NEW H, Fits(s, H), NEW k \in Keys
  PROVE  Fits(KeyTtl(s, k, Now, Now).store, H)
<1>. DEFINE p == ProcessExpirations(s, Now)
<1>1. Fits(p, H) /\ Fits(DeleteKey(p, k, Now).store, H)
  BY ProcessFits, DeleteFits
<1>2. KeyTtl(s, k, Now, Now).store \in {p, DeleteKey(p, k, Now).store}
  BY DEF KeyTtl
<1>. QED BY <1>1, <1>2

\* execute_command: a key comes only by a SET of it, a lifetime not at all.
LEMMA ExecuteFits ==
  ASSUME NEW s, NEW H, Fits(s, H), NEW cmd, IsCommand(cmd),
         cmd.op = "SET" => cmd.key \in H
  PROVE  Fits(ExecuteCommand(s, cmd, Now).store, H)
<1>. DEFINE r == ExecuteCommand(s, cmd, Now).store
<1>0. Fits(ProcessExpirations(s, Now), H)
  BY ProcessFits
<1>1. CASE cmd.op = "SET"
  <2>1. r = SetKey(s, cmd.key, cmd.arg, Now)
    BY <1>1 DEF ExecuteCommand
  <2>. QED BY <2>1, <1>1, SetFits DEF IsCommand
<1>2. CASE cmd.op = "DEL"
  <2>1. r = DeleteKey(s, cmd.key, Now).store
    BY <1>2 DEF ExecuteCommand
  <2>. QED BY <2>1, <1>2, DeleteFits DEF IsCommand
<1>3. CASE cmd.op = "EXPIRE"
  <2>1. CASE cmd.arg = None
    BY <2>1, <1>3 DEF ExecuteCommand
  <2>2. CASE cmd.arg # None
    <3>1. r = ExpireKey(s, cmd.key, cmd.arg, Now, Now).store
      BY <2>2, <1>3 DEF ExecuteCommand
    <3>. QED BY <3>1, <2>2, <1>3, ExpireFits DEF IsCommand
  <2>. QED BY <2>1, <2>2
<1>4. CASE cmd.op = "TTL"
  <2>1. r = KeyTtl(s, cmd.key, Now, Now).store
    BY <1>4 DEF ExecuteCommand
  <2>. QED BY <2>1, <1>4, TtlFits DEF IsCommand
<1>5. CASE cmd.op \in {"GET", "MGET", "KEYS"}
  <2>1. r = ProcessExpirations(s, Now)
    BY <1>5 DEF ExecuteCommand
  <2>. QED BY <2>1, <1>0
<1>6. CASE cmd.op = "FLUSHALL"
  <2>1. r = NewStore
    BY <1>6 DEF ExecuteCommand, Flush
  <2>. QED BY <2>1, NewFits
<1>7. CASE cmd.op = "PING"
  <2>1. r = s
    BY <1>7 DEF ExecuteCommand
  <2>. QED BY <2>1
<1>. QED BY <1>1, <1>2, <1>3, <1>4, <1>5, <1>6, <1>7 DEF IsCommand

\* apply_replay_request, likewise.
LEMMA ReplayFits ==
  ASSUME NEW s, NEW H, Fits(s, H), NEW cmd \in Writes, cmd.key \in H
  PROVE  Fits(ApplyReplayRequest(s, cmd, Now), H)
<1>. DEFINE p == ProcessExpirations(s, Now)
            r == ApplyReplayRequest(s, cmd, Now)
<1>0. Fits(p, H) /\ cmd.key \in Keys
  BY ProcessFits DEF Writes
<1>1. CASE cmd.op = "SET"
  <2>1. r = SetKey(p, cmd.key, cmd.arg, Now) /\ cmd.arg \in Values
    BY <1>1 DEF ApplyReplayRequest, Writes
  <2>. QED BY <2>1, <1>0, SetFits
<1>2. CASE cmd.op = "DEL"
  <2>1. r = DeleteKey(p, cmd.key, Now).store
    BY <1>2 DEF ApplyReplayRequest
  <2>. QED BY <2>1, <1>0, DeleteFits
<1>3. CASE cmd.op = "EXPIRE"
  <2>1. r = ExpireKey(p, cmd.key, cmd.arg, Now, Now).store /\ cmd.arg \in Numbers
    BY <1>3 DEF ApplyReplayRequest, Writes
  <2>. QED BY <2>1, <1>0, ExpireFits
<1>. QED BY <1>1, <1>2, <1>3 DEF Writes
-----------------------------------------------------------------------------
(* What a line that parses asks for. *)

LEMMA ArityFacts ==
  /\ DOMAIN Arities = {"PING", "SET", "GET", "DEL", "EXPIRE", "TTL", "MGET", "KEYS",
                       "FLUSHALL"}
  /\ Arities["SET"] = {2} /\ Arities["EXPIRE"] = {2}
  /\ Arities["GET"] = {1} /\ Arities["DEL"] = {1} /\ Arities["TTL"] = {1}
BY DEF Arities

LEMMA ParsedWords ==
  ASSUME NEW words, ParseError(words) = None
  PROVE  /\ words[1] \in DOMAIN Arities
         /\ Len(SplitCommand(words)) \in Arities[words[1]]
BY LiteStoreAssumption DEF ParseError

\* What is known of a command that came from a client.
Asked(cmd) ==
  /\ IsCommand(cmd)
  /\ cmd.op \in {"SET", "DEL"} => cmd \in Writes
  /\ cmd.op = "EXPIRE" /\ cmd.arg # None => cmd \in Writes

\* The value of a SET is what follows its first two words.
LEMMA WordsAfterTwo ==
  ASSUME NEW S, NEW a \in S, NEW b \in S, NEW value \in Seq(S), value # <<>>,
         NEW words, words = <<a, b>> \o value
  PROVE  /\ words[1] = a /\ words[2] = b /\ Len(words) = 2 + Len(value)
         /\ SubSeq(words, 3, Len(words)) = value
<1>. DEFINE two == <<a, b>>
<1>1. two \in Seq(S) /\ Len(two) = 2 /\ two[1] = a /\ two[2] = b
  OBVIOUS
<1>2. Len(value) \in Nat \ {0}
  BY EmptySeq
<1>. HIDE DEF two
<1>3. words = two \o value
  BY DEF two
<1>4. Len(words) = 2 + Len(value) /\ words[1] = a /\ words[2] = b
  <2>1. /\ Len(two \o value) = Len(two) + Len(value)
        /\ \A i \in 1 .. Len(two) + Len(value) :
             (two \o value)[i] = IF i <= Len(two) THEN two[i] ELSE value[i - Len(two)]
    BY ONLY <1>1, value \in Seq(S), ConcatProperties
  <2>2. 1 \in 1 .. 2 + Len(value) /\ 2 \in 1 .. 2 + Len(value)
    BY <1>2
  <2>. QED BY <1>1, <1>3, <2>1, <2>2
<1>5. /\ 3 \in Len(two) + 1 .. Len(two) + Len(value)
      /\ 2 + Len(value) \in Len(two) + 1 .. Len(two) + Len(value)
  BY <1>1, <1>2
<1>6. SubSeq(two \o value, 3, 2 + Len(value))
        = SubSeq(value, 3 - Len(two), 2 + Len(value) - Len(two))
  <2>1. \A m, n \in Len(two) + 1 .. Len(two) + Len(value) :
          SubSeq(two \o value, m, n) = SubSeq(value, m - Len(two), n - Len(two))
    BY ONLY <1>1, value \in Seq(S), SubSeqOfConcat2
  <2>. QED BY ONLY <1>5, <2>1
<1>7. 3 - Len(two) = 1 /\ 2 + Len(value) - Len(two) = Len(value)
  BY <1>1, <1>2
<1>8. SubSeq(value, 1, Len(value)) = value
  BY SubSeqFull
<1>. QED BY <1>3, <1>4, <1>6, <1>7, <1>8

\* A line that sets a key, in its words.
LEMMA SetWords ==
  ASSUME NEW k \in Keys, NEW value \in Values, NEW words, words = <<"SET", k>> \o value
  PROVE  words # <<>> /\ words[1] = "SET" /\ SplitCommand(words) = <<k, value>>
<1>. DEFINE S == {"SET", k, NullWord} \cup Texts
<1>1. value \in Seq(S) /\ Len(value) \in {1, 2}
  <2>1. CASE \E x \in Texts \cup {NullWord} : value = <<x>>
    BY <2>1
  <2>2. CASE \E x, y \in Texts : value = <<x, y>>
    BY <2>2
  <2>. QED BY <2>1, <2>2 DEF Values
<1>2. words[1] = "SET" /\ words[2] = k /\ Len(words) = 2 + Len(value)
      /\ SubSeq(words, 3, Len(words)) = value
  <2>1. "SET" \in S /\ k \in S
    OBVIOUS
  <2>. HIDE DEF S
  <2>2. value # <<>>
    BY <1>1, EmptySeq
  <2>. QED BY <2>1, <2>2, <1>1, WordsAfterTwo
<1>3. Len(words) >= 3
  BY <1>1, <1>2
<1>4. words # <<>>
  BY <1>3, EmptySeq
<1>. QED BY <1>2, <1>3, <1>4 DEF SplitCommand

\* The forms that a line has.
LEMMA LineForms ==
  ASSUME NEW words \in Lines
  PROVE  \/ words = <<>> \/ words = <<"NOPE">>
         \/ \E verb \in {"PING", "KEYS", "FLUSHALL", "MGET"} : words = <<verb>>
         \/ \E verb \in {"SET", "GET", "DEL", "TTL", "KEYS"}, k \in Keys : words = <<verb, k>>
         \/ \E k \in Keys, value \in Values : words = <<"SET", k>> \o value
         \/ \E k \in Keys, seconds \in Numbers \cup Texts : words = <<"EXPIRE", k, seconds>>
         \/ \E k, l \in Keys : words = <<"MGET", k, l>>
<1>. DEFINE Set(k, value) == <<"SET", k>> \o value
            L1 == {<<verb>> : verb \in {"PING", "KEYS", "FLUSHALL", "MGET"}}
            L2 == {<<verb, k>> : verb \in {"SET", "GET", "DEL", "TTL", "KEYS"}, k \in Keys}
            L3 == {Set(k, value) : k \in Keys, value \in Values}
            L4 == {<<"EXPIRE", k, seconds>> : k \in Keys, seconds \in Numbers \cup Texts}
            L5 == {<<"MGET", k, l>> : k, l \in Keys}
<1>1. AllLines = {<<>>, <<"NOPE">>} \cup L1 \cup L2 \cup L3 \cup L4 \cup L5
  BY ONLY DEF AllLines
<1>2. words \in L1 => \E verb \in {"PING", "KEYS", "FLUSHALL", "MGET"} : words = <<verb>>
  OBVIOUS
<1>3. words \in L2 => \E verb \in {"SET", "GET", "DEL", "TTL", "KEYS"}, k \in Keys :
                       words = <<verb, k>>
  OBVIOUS
<1>4. words \in L3 => \E k \in Keys, value \in Values : words = <<"SET", k>> \o value
  <2>1. words \in L3 => \E k \in Keys, value \in Values : words = Set(k, value)
    <3>. HIDE DEF Set
    <3>. QED OBVIOUS
  <2>. HIDE DEF L3
  <2>. QED BY <2>1
<1>5. words \in L4 => \E k \in Keys, seconds \in Numbers \cup Texts :
                       words = <<"EXPIRE", k, seconds>>
  OBVIOUS
<1>6. words \in L5 => \E k, l \in Keys : words = <<"MGET", k, l>>
  OBVIOUS
<1>7. words \in AllLines
  BY DEF Lines
<1>. HIDE DEF L1, L2, L3, L4, L5
<1>. QED BY <1>1, <1>2, <1>3, <1>4, <1>5, <1>6, <1>7

LEMMA ParsedCommand ==
  ASSUME NEW words \in Lines, ParseError(words) = None
  PROVE  Asked(ParseCommand(words))
<1>. USE DEF Asked, IsCommand, Writes, ParseCommand, RequestOf, Command
<1>0. words[1] \in DOMAIN Arities /\ Len(SplitCommand(words)) \in Arities[words[1]]
  BY ParsedWords
<1>1. CASE words = <<>> \/ words = <<"NOPE">>
  <2>1. CASE words = <<>>
    BY <2>1, LiteStoreAssumption DEF ParseError
  <2>2. CASE words = <<"NOPE">>
    BY <2>2, <1>0, ArityFacts
  <2>. QED BY <1>1, <2>1, <2>2
<1>2. ASSUME NEW verb \in {"PING", "KEYS", "FLUSHALL", "MGET"}, words = <<verb>>
      PROVE  Asked(ParseCommand(words))
  BY <1>2
<1>3. ASSUME NEW verb \in {"SET", "GET", "DEL", "TTL", "KEYS"}, NEW k \in Keys,
             words = <<verb, k>>
      PROVE  Asked(ParseCommand(words))
  <2>1. SplitCommand(words) = <<k>>
    BY <1>3 DEF SplitCommand
  <2>2. verb # "SET"
    BY <1>0, <1>3, <2>1, ArityFacts
  <2>. QED BY <1>3, <2>1, <2>2
<1>4. ASSUME NEW k \in Keys, NEW value \in Values, words = <<"SET", k>> \o value
      PROVE  Asked(ParseCommand(words))
  <2>1. words[1] = "SET" /\ SplitCommand(words) = <<k, value>>
    BY <1>4, SetWords
  <2>. QED BY <1>4, <2>1
<1>5. ASSUME NEW k \in Keys, NEW seconds \in Numbers \cup Texts,
             words = <<"EXPIRE", k, seconds>>
      PROVE  Asked(ParseCommand(words))
  <2>1. SplitCommand(words) = <<k, seconds>>
    BY <1>5 DEF SplitCommand
  <2>. QED BY <1>5, <2>1
<1>6. ASSUME NEW k \in Keys, NEW l \in Keys, words = <<"MGET", k, l>>
      PROVE  Asked(ParseCommand(words))
  BY <1>6
<1>. HIDE DEF Asked
<1>. QED BY <1>1, <1>2, <1>3, <1>4, <1>5, <1>6, LineForms, Zenon

\* route_request sends a command to a worker there is, and one with a key to
\* the worker that is home to it.
LEMMA RouteOK ==
  ASSUME TypeOK, NEW cmd, IsCommand(cmd)
  PROVE  /\ RouteRequest(hash, cmd, count) \in Workers
         /\ cmd.op = "SET" => cmd.key \in HomeKeys(RouteRequest(hash, cmd, count))
         /\ cmd \in Writes => cmd.key \in HomeKeys(RouteRequest(hash, cmd, count))
<1>1. count \in Nat \ {0} /\ hash \in [Keys -> Nat]
  BY LiteStoreAssumption DEF TypeOK
<1>2. \A n \in Nat : n % count \in 0 .. count - 1
  BY <1>1
<1>3. \A k \in Keys : RouteKey(hash, k, count) \in Workers
  BY <1>1, <1>2 DEF RouteKey, Workers
<1>4. 0 \in Workers
  BY <1>1 DEF Workers
<1>5. cmd.op \in {"SET", "DEL", "EXPIRE"} =>
        RouteRequest(hash, cmd, count) = RouteKey(hash, cmd.key, count)
  BY LiteStoreAssumption DEF RouteRequest, KeyOf, IsCommand
<1>6. RouteRequest(hash, cmd, count) \in Workers
  BY <1>3, <1>4 DEF RouteRequest, KeyOf, IsCommand
<1>7. cmd \in Writes => cmd.op \in {"SET", "DEL", "EXPIRE"}
  BY DEF Writes
<1>. QED BY <1>5, <1>6, <1>7 DEF HomeKeys, IsCommand
-----------------------------------------------------------------------------
(* Type correctness. *)

LEMMA LogFacts ==
  ASSUME TypeOK
  PROVE  /\ count \in Nat \ {0} /\ \A w \in Workers : LogOf(w) \in Logs
         /\ mode = "single" => Logs = {0}
         /\ mode \in {"single", "multi"}
<1>1. Max(Counts) \in Counts /\ \A n \in Counts : n <= Max(Counts)
  <2>1. Counts \subseteq Int /\ Counts # {} /\ IsFiniteSet(Counts)
    BY LiteStoreAssumption
  <2>. QED BY <2>1, MaxOK
<1>2. count \in Nat \ {0} /\ Max(Counts) \in Nat /\ count <= Max(Counts)
  BY <1>1, LiteStoreAssumption DEF TypeOK
<1>3. mode \in {"single", "multi"}
  BY LiteStoreAssumption DEF TypeOK
<1>4. \A w \in Workers : LogOf(w) \in Logs
  BY <1>2, <1>3 DEF Workers, Logs, LogOf
<1>. QED BY <1>2, <1>3, <1>4 DEF Logs

LEMMA StoresFit ==
  ASSUME TypeOK
  PROVE  /\ \A w \in Workers : Fits(stores[w], Keys)
         /\ KeysStayHome <=> \A w \in Workers : Fits(stores[w], HomeKeys(w))
<1>1. ASSUME NEW w \in Workers PROVE Fits(stores[w], Keys)
  <2>1. StoreOK(stores[w], Values) /\ stores[w].expiresAt = EmptyDict
    BY DEF TypeOK
  <2>2. DOMAIN stores[w].data \subseteq Keys
    BY <2>1, StoreParts DEF IsDict
  <2>. QED BY <2>1, <2>2 DEF Fits
<1>2. \A w \in Workers : DOMAIN stores[w].data \subseteq Keys
  BY <1>1 DEF Fits
<1>3. \A w \in Workers : Fits(stores[w], HomeKeys(w)) <=>
        \A k \in DOMAIN stores[w].data : RouteKey(hash, k, count) = w
  BY <1>1, <1>2 DEF Fits, HomeKeys
<1>. QED BY <1>1, <1>3 DEF KeysStayHome

\* A worker executes a command; all others are as they were.
LEMMA ExecutedStores ==
  ASSUME TypeOK, NEW cmd, IsCommand(cmd)
  PROVE  LET w   == RouteRequest(hash, cmd, count)
             new == [stores EXCEPT ![w] = Executed(w, cmd).store]
         IN  /\ w \in Workers /\ DOMAIN new = Workers
             /\ \A v \in Workers : Fits(new[v], Keys)
             /\ KeysStayHome => \A v \in Workers : Fits(new[v], HomeKeys(v))
<1>. DEFINE w   == RouteRequest(hash, cmd, count)
            s   == Executed(w, cmd).store
            new == [stores EXCEPT ![w] = s]
<1>1. w \in Workers /\ (cmd.op = "SET" => cmd.key \in HomeKeys(w))
  BY RouteOK
<1>2. DOMAIN stores = Workers
  BY DEF TypeOK
<1>3. cmd.op = "SET" => cmd.key \in Keys
  BY DEF IsCommand
<1>. HIDE DEF w
<1>4. Fits(s, Keys)
  BY <1>1, <1>3, StoresFit, ExecuteFits DEF Executed
<1>5. KeysStayHome => Fits(s, HomeKeys(w))
  BY <1>1, StoresFit, ExecuteFits DEF Executed
<1>. HIDE DEF s
<1>6. DOMAIN new = Workers /\ new[w] = s
      /\ \A v \in Workers \ {w} : new[v] = stores[v]
  BY <1>1, <1>2
<1>. HIDE DEF new
<1>7. /\ w \in Workers /\ DOMAIN new = Workers
      /\ \A v \in Workers : Fits(new[v], Keys)
      /\ KeysStayHome => \A v \in Workers : Fits(new[v], HomeKeys(v))
  BY <1>1, <1>4, <1>5, <1>6, StoresFit
<1>. QED BY <1>7 DEF new, s, w

\* A worker of multi mode replays a record of its own log.
LEMMA ReplayedStores ==
  ASSUME TypeOK, NEW w \in Workers, NEW cmd \in Writes
  PROVE  LET new == ReplayShard(w, cmd)
         IN  /\ DOMAIN new = Workers
             /\ \A v \in Workers : Fits(new[v], Keys)
             /\ KeysStayHome /\ cmd.key \in HomeKeys(w) =>
                  \A v \in Workers : Fits(new[v], HomeKeys(v))
<1>. DEFINE s   == ApplyReplayRequest(stores[w], cmd, Now)
            new == ReplayShard(w, cmd)
<1>1. DOMAIN stores = Workers /\ cmd.key \in Keys
  BY DEF TypeOK, Writes
<1>2. Fits(s, Keys)
  BY <1>1, StoresFit, ReplayFits
<1>3. KeysStayHome /\ cmd.key \in HomeKeys(w) => Fits(s, HomeKeys(w))
  BY StoresFit, ReplayFits
<1>4. DOMAIN new = Workers /\ new[w] = s
      /\ \A v \in Workers \ {w} : new[v] = stores[v]
  BY <1>1 DEF ReplayShard
<1>. HIDE DEF new, s
<1>5. /\ DOMAIN new = Workers
      /\ \A v \in Workers : Fits(new[v], Keys)
      /\ KeysStayHome /\ cmd.key \in HomeKeys(w) =>
           \A v \in Workers : Fits(new[v], HomeKeys(v))
  BY <1>2, <1>3, <1>4, StoresFit
<1>. QED BY <1>5 DEF new

\* Only the writes of Writes are logged.
LEMMA PersistedWrite ==
  ASSUME NEW w, NEW cmd, Asked(cmd), IsPersistedWrite(cmd, Executed(w, cmd))
  PROVE  cmd \in Writes
<1>1. CASE cmd.op \in {"SET", "DEL"}
  BY <1>1 DEF Asked
<1>2. CASE cmd.op = "EXPIRE"
  <2>1. cmd.arg = None => Executed(w, cmd).error = TRUE
    BY <1>2 DEF Executed, ExecuteCommand
  <2>. QED BY <1>2, <2>1 DEF Asked, IsPersistedWrite, IsWrite
<1>. QED BY <1>1, <1>2 DEF IsPersistedWrite, IsWrite

LEMMA UnwrittenOK ==
  ASSUME TypeOK, NEW f \in Logs, NEW cmd \in Writes
  PROVE  /\ Piece([seq |-> next[f], cmd |-> cmd], "whole") \in Pieces
         /\ Unwritten(f, cmd) \in Seq(Pieces)
<1>1. Piece([seq |-> next[f], cmd |-> cmd], "whole") \in Pieces
  BY DEF TypeOK, Pieces, Piece
<1>2. buffer \in Seq(Pieces)
  BY DEF TypeOK
<1>. QED BY <1>1, <1>2, AppendProperties DEF Unwritten

\* A log grows.
LEMMA Grown ==
  ASSUME NEW L, NEW old, DOMAIN old = L, \A g \in L : old[g] \in Seq(Pieces),
         NEW f \in L, NEW more \in Seq(Pieces)
  PROVE  LET new == [old EXCEPT ![f] = old[f] \o more]
         IN  /\ DOMAIN new = L
             /\ \A g \in L : new[g] \in Seq(Pieces) /\ Len(old[g]) <= Len(new[g])
<1>. DEFINE new == [old EXCEPT ![f] = old[f] \o more]
<1>1. /\ old[f] \o more \in Seq(Pieces)
      /\ Len(old[f] \o more) = Len(old[f]) + Len(more)
      /\ Len(old[f]) \in Nat /\ Len(more) \in Nat
  BY ConcatProperties, LenProperties
<1>2. DOMAIN new = L /\ new[f] = old[f] \o more /\ \A g \in L \ {f} : new[g] = old[g]
  OBVIOUS
<1>3. \A g \in L : Len(old[g]) \in Nat
  BY LenProperties
<1>. HIDE DEF new
<1>4. ASSUME NEW g \in L PROVE new[g] \in Seq(Pieces) /\ Len(old[g]) <= Len(new[g])
  <2>1. CASE g = f
    BY <2>1, <1>1, <1>2
  <2>2. CASE g # f
    BY <2>2, <1>2, <1>3
  <2>. QED BY <2>1, <2>2
<1>5. DOMAIN new = L /\ \A g \in L : new[g] \in Seq(Pieces) /\ Len(old[g]) <= Len(new[g])
  BY <1>2, <1>4
<1>. QED BY <1>5 DEF new
\* Commands change what the types speak of in one of three ways: no log grows,
\* one does, or what was to be written is divided between file and buffer.
LEMMA DispatchLogs ==
  ASSUME TypeOK, NEW words \in Lines, Dispatch(words)
  PROVE  LET cmd == ParseCommand(words)
             w   == RouteRequest(hash, cmd, count)
         IN  /\ Asked(cmd) /\ w \in Workers /\ up
             /\ stores' = [stores EXCEPT ![w] = Executed(w, cmd).store]
             /\ \/ UNCHANGED logs
                \/ cmd \in Writes /\ AppendRequest(LogOf(w), cmd)
                \/ cmd \in Writes /\ mode = "single" /\ AppendFails(cmd)
<1>. DEFINE cmd == ParseCommand(words)
            w   == RouteRequest(hash, cmd, count)
            done == Executed(w, cmd)
            response == Relayed(Response(cmd, done))
<1>1. ParseError(words) = None /\ up
  BY DEF Dispatch, Listening
<1>2. Asked(cmd)
  BY <1>1, ParsedCommand
<1>3. w \in Workers
  BY <1>2, RouteOK DEF Asked
<1>4. /\ stores' = [stores EXCEPT ![w] = done.store]
      /\ \/ /\ ~ IsPersistedWrite(cmd, done)
            /\ Exchange(words, response) /\ UNCHANGED logs
         \/ /\ IsPersistedWrite(cmd, done) /\ Room
            /\ Exchange(words, response) /\ AppendRequest(LogOf(w), cmd)
         \/ /\ mode = "single" /\ IsPersistedWrite(cmd, done) /\ Room
            /\ Exchange(words, Error("PERSISTENCE_ERROR")) /\ AppendFails(cmd)
  BY DEF Dispatch
<1>5. IsPersistedWrite(cmd, done) => cmd \in Writes
  BY <1>2, PersistedWrite
<1>. HIDE DEF cmd, w
<1>6. /\ Asked(cmd) /\ w \in Workers /\ up
      /\ stores' = [stores EXCEPT ![w] = Executed(w, cmd).store]
      /\ \/ UNCHANGED logs
         \/ cmd \in Writes /\ AppendRequest(LogOf(w), cmd)
         \/ cmd \in Writes /\ mode = "single" /\ AppendFails(cmd)
  BY <1>1, <1>2, <1>3, <1>4, <1>5
<1>. QED BY <1>6 DEF cmd, w

\* The parts of TypeOK that speak of the logs and of the stores.
LogsOK ==
  /\ DOMAIN files = Logs /\ DOMAIN next = Logs /\ DOMAIN left = Logs
  /\ \A f \in Logs : /\ files[f] \in Seq(Pieces) /\ left[f] \in Seq(Pieces)
                     /\ next[f] \in Nat /\ Len(left[f]) <= Len(files[f])
  /\ buffer \in Seq(Pieces) /\ (mode = "multi" \/ ~ up => buffer = <<>>)

StoresOK == DOMAIN stores = Workers /\ \A w \in Workers : Fits(stores[w], Keys)

LEMMA TypeParts ==
  TypeOK <=> /\ mode \in Modes /\ count \in Counts /\ up \in BOOLEAN
             /\ hash \in [Keys -> Nat] /\ LogsOK /\ StoresOK
<1>1. TypeOK => \A w \in Workers : Fits(stores[w], Keys)
  BY StoresFit
<1>2. StoresOK => \A w \in Workers : StoreOK(stores[w], Values)
                                     /\ stores[w].expiresAt = EmptyDict
  BY DEF StoresOK, Fits
<1>. QED BY <1>1, <1>2 DEF TypeOK, LogsOK, StoresOK

LEMMA TypePartsNext ==
  ASSUME mode' \in Modes, count' \in Counts, up' \in BOOLEAN, hash' \in [Keys -> Nat],
         LogsOK', StoresOK'
  PROVE  TypeOK'
BY DEF TypeOK, LogsOK, StoresOK, Fits

LEMMA NewStoresFit ==
  ASSUME NEW n
  PROVE  /\ DOMAIN NewStores(n) = 0 .. n - 1
         /\ \A w \in 0 .. n - 1 : \A H : Fits(NewStores(n)[w], H)
BY NewFits DEF NewStores

LEMMA InitTypes == ASSUME Init PROVE TypeOK
<1>1. count \in Nat \ {0} /\ Max(Counts) \in Nat
  <2>1. Counts \subseteq Int /\ Counts # {} /\ IsFiniteSet(Counts)
    BY LiteStoreAssumption
  <2>2. Max(Counts) \in Counts
    BY <2>1, MaxOK
  <2>. QED BY <2>2, LiteStoreAssumption DEF Init
<1>2. hash \in [Keys -> Nat]
  <2>1. 0 .. Max(Counts) - 1 \subseteq Nat
    BY <1>1
  <2>. QED BY <2>1 DEF Init
<1>3. StoresOK
  BY NewStoresFit DEF Init, StoresOK, Workers
<1>4. LogsOK
  <2>1. <<>> \in Seq(Pieces) /\ Len(<<>>) = 0
    BY EmptySeq
  <2>. QED BY <2>1 DEF Init, LogsOK
<1>. QED BY <1>2, <1>3, <1>4, TypeParts DEF Init

LEMMA AppendTypes ==
  ASSUME TypeOK, NEW f \in Logs, NEW cmd \in Writes, AppendRequest(f, cmd),
         UNCHANGED <<config, left>>
  PROVE  LogsOK'
<1>1. LogsOK /\ Unwritten(f, cmd) \in Seq(Pieces)
  BY TypeParts, UnwrittenOK
<1>2. /\ DOMAIN files' = Logs
      /\ \A g \in Logs : files'[g] \in Seq(Pieces) /\ Len(files[g]) <= Len(files'[g])
  <2>1. /\ DOMAIN files = Logs /\ \A g \in Logs : files[g] \in Seq(Pieces)
        /\ files' = [files EXCEPT ![f] = files[f] \o Unwritten(f, cmd)]
    BY <1>1 DEF LogsOK, AppendRequest
  <2>. QED BY <1>1, <2>1, Grown
<1>3. DOMAIN next' = Logs /\ \A g \in Logs : next'[g] \in Nat
  BY <1>1 DEF LogsOK, AppendRequest
<1>4. buffer' = <<>> /\ <<>> \in Seq(Pieces) /\ left' = left /\ Logs' = Logs
  BY EmptySeq DEF AppendRequest, config, Logs
<1>5. \A g \in Logs : Len(left[g]) \in Nat /\ Len(files[g]) \in Nat /\ Len(files'[g]) \in Nat
  BY <1>1, <1>2, LenProperties DEF LogsOK
<1>6. \A g \in Logs : Len(left[g]) <= Len(files'[g])
  BY <1>1, <1>2, <1>5 DEF LogsOK
<1>. QED BY <1>1, <1>2, <1>3, <1>4, <1>6 DEF LogsOK
\* However much of a sequence reaches the file, both parts are sequences of
\* pieces.
LEMMA Divided ==
  ASSUME NEW s \in Seq(Pieces), NEW n \in 0 .. Len(s)
  PROVE  /\ SubSeq(s, 1, n) \in Seq(Pieces) /\ Len(SubSeq(s, 1, n)) = n
         /\ SubSeq(s, n + 1, Len(s)) \in Seq(Pieces)
         /\ SubSeq(s, 1, n) \o SubSeq(s, n + 1, Len(s)) = s
<1>1. Len(s) \in Nat /\ \A i \in 1 .. Len(s) : s[i] \in Pieces
  BY LenProperties, ElementOfSeq
<1>2. SubSeq(s, 1, n) \in Seq(Pieces) /\ Len(SubSeq(s, 1, n)) = n
  BY <1>1, SubSeqProperties
<1>3. SubSeq(s, n + 1, Len(s)) \in Seq(Pieces)
  BY <1>1, SubSeqProperties
<1>4. SubSeq(s, 1, n) \o SubSeq(s, n + 1, Len(s)) = SubSeq(s, 1, Len(s))
  <2>1. 1 \in 1 .. Len(s) + 1 /\ n \in 1 - 1 .. Len(s) /\ Len(s) \in n .. Len(s)
    BY <1>1
  <2>. QED BY <2>1, ConcatAdjacentSubSeq
<1>. QED BY <1>2, <1>3, <1>4, SubSeqFull

LEMMA FailTypes ==
  ASSUME TypeOK, up, NEW cmd \in Writes, mode = "single", AppendFails(cmd),
         UNCHANGED <<config, left>>
  PROVE  LogsOK'
<1>. DEFINE all == Unwritten(0, cmd)
<1>1. LogsOK /\ Logs = {0} /\ all \in Seq(Pieces)
  BY TypeParts, UnwrittenOK, LogFacts
<1>2. /\ \E n \in 0 .. Len(all) :
           /\ files' = [files EXCEPT ![0] = @ \o SubSeq(all, 1, n)]
           /\ buffer' = SubSeq(all, n + 1, Len(all))
      /\ next' = next
  BY DEF AppendFails
<1>. HIDE DEF all
<1>3. PICK n \in 0 .. Len(all) :
           /\ files' = [files EXCEPT ![0] = @ \o SubSeq(all, 1, n)]
           /\ buffer' = SubSeq(all, n + 1, Len(all))
  BY <1>2
<1>4. SubSeq(all, 1, n) \in Seq(Pieces) /\ buffer' \in Seq(Pieces)
  BY <1>1, <1>3, Divided
<1>5. /\ DOMAIN files' = Logs
      /\ \A g \in Logs : files'[g] \in Seq(Pieces) /\ Len(files[g]) <= Len(files'[g])
  <2>1. /\ DOMAIN files = Logs /\ \A g \in Logs : files[g] \in Seq(Pieces)
        /\ files' = [files EXCEPT ![0] = files[0] \o SubSeq(all, 1, n)] /\ 0 \in Logs
    BY <1>1, <1>3 DEF LogsOK
  <2>. QED BY <1>4, <2>1, Grown
<1>6. left' = left /\ Logs' = Logs /\ up' = up /\ mode' = mode
  BY DEF config, Logs
<1>7. \A g \in Logs : Len(left[g]) \in Nat /\ Len(files[g]) \in Nat /\ Len(files'[g]) \in Nat
  BY <1>1, <1>5, LenProperties DEF LogsOK
<1>8. \A g \in Logs : Len(left[g]) <= Len(files'[g])
  BY <1>1, <1>5, <1>7 DEF LogsOK
<1>. QED BY <1>1, <1>2, <1>4, <1>5, <1>6, <1>8 DEF LogsOK

LEMMA StartTypes ==
  ASSUME TypeOK, NEW n \in Counts, Start(n)
  PROVE  TypeOK'
<1>1. LogsOK /\ mode \in Modes /\ hash \in [Keys -> Nat]
  BY TypeParts
<1>2. /\ up' = TRUE /\ count' = n /\ stores' = NewStores(n) /\ ~ up
      /\ next' = [f \in Logs |-> NextSequence(files[f])] /\ left' = files
      /\ mode' = mode /\ hash' = hash /\ files' = files /\ buffer' = buffer
  BY DEF Start
<1>3. Logs' = Logs
  BY <1>2 DEF Logs
<1>4. ASSUME NEW f \in Logs PROVE NextSequence(files[f]) \in Nat
  <2>1. files[f] \in Seq(Pieces)
    BY <1>1 DEF LogsOK
  <2>2. ASSUME NEW i \in DOMAIN files[f] PROVE files[f][i].record.seq \in Nat
    <3>1. files[f][i] \in Pieces
      BY <2>1, LenProperties, ElementOfSeq
    <3>. QED BY <3>1 DEF Pieces
  <2>. QED BY <2>1, <2>2, NextSequenceOK
<1>5. \A f \in Logs : Len(files[f]) \in Nat
  BY <1>1, LenProperties DEF LogsOK
<1>6. LogsOK'
  BY <1>1, <1>2, <1>3, <1>4, <1>5 DEF LogsOK
<1>7. StoresOK'
  BY <1>2, NewStoresFit DEF StoresOK, Workers
<1>. QED BY <1>1, <1>2, <1>6, <1>7, TypePartsNext

LEMMA ReplayTypes ==
  ASSUME TypeOK, NEW f \in Logs, ReplayLine(f)
  PROVE  /\ TypeOK'
         /\ LET cmd == Head(left[f]).record.cmd
                w   == RouteRequest(hash, cmd, count)
            IN  /\ cmd \in Writes /\ left[f] # <<>> /\ left' = [left EXCEPT ![f] = Tail(@)]
                /\ \/ /\ mode = "single" /\ IsCommand(cmd)
                      /\ stores' = [stores EXCEPT ![w] = Executed(w, cmd).store]
                   \/ /\ mode = "multi" /\ f \in Workers
                      /\ stores' = ReplayShard(f, cmd)
<1>. DEFINE cmd == Head(left[f]).record.cmd
            w   == RouteRequest(hash, cmd, count)
<1>1. LogsOK /\ mode \in {"single", "multi"}
  BY TypeParts, LogFacts
<1>2. /\ up /\ left[f] # <<>> /\ (mode = "multi" => f \in Workers)
      /\ left' = [left EXCEPT ![f] = Tail(@)]
      /\ stores' = IF mode = "single" THEN ReplayRouted(cmd) ELSE ReplayShard(f, cmd)
      /\ UNCHANGED <<mode, hash, count, up, files, buffer, next>>
  BY DEF ReplayLine, config, logs
<1>3. /\ Head(left[f]) \in Pieces /\ Tail(left[f]) \in Seq(Pieces)
      /\ Len(Tail(left[f])) <= Len(left[f]) /\ Len(Tail(left[f])) \in Nat
      /\ Len(left[f]) \in Nat /\ Len(files[f]) \in Nat
  <2>1. left[f] \in Seq(Pieces) /\ files[f] \in Seq(Pieces)
    BY <1>1 DEF LogsOK
  <2>2. /\ Head(left[f]) \in Pieces /\ Tail(left[f]) \in Seq(Pieces)
        /\ Len(Tail(left[f])) = Len(left[f]) - 1 /\ Len(left[f]) \in Nat
        /\ Len(Tail(left[f])) \in Nat /\ Len(files[f]) \in Nat
    BY <1>2, <2>1, HeadTailProperties, LenProperties
  <2>. QED BY <2>2
<1>4. cmd \in Writes
  BY <1>3 DEF Pieces
<1>5. IsCommand(cmd)
  BY <1>4 DEF IsCommand, Writes
<1>. HIDE DEF cmd
<1>6. Logs' = Logs /\ Workers' = Workers
  BY <1>2 DEF Logs, Workers
<1>7. /\ DOMAIN left' = Logs
      /\ \A g \in Logs : left'[g] \in Seq(Pieces) /\ Len(left'[g]) <= Len(files[g])
  <2>1. left'[f] = Tail(left[f]) /\ DOMAIN left' = Logs
        /\ \A g \in Logs \ {f} : left'[g] = left[g]
    BY <1>1, <1>2 DEF LogsOK
  <2>2. Len(left[f]) <= Len(files[f])
    BY <1>1 DEF LogsOK
  <2>3. left'[f] \in Seq(Pieces) /\ Len(left'[f]) <= Len(files[f])
    BY <1>3, <2>1, <2>2
  <2>. QED BY <1>1, <2>1, <2>3 DEF LogsOK
<1>8. LogsOK'
  BY <1>1, <1>2, <1>6, <1>7 DEF LogsOK
<1>9. StoresOK' => TypeOK'
  BY <1>2, <1>8, TypeParts, TypePartsNext
<1>10. CASE mode = "single"
  <2>1. stores' = [stores EXCEPT ![w] = Executed(w, cmd).store]
    BY <1>2, <1>10 DEF ReplayRouted
  <2>2. StoresOK'
    BY <1>5, <1>6, <2>1, ExecutedStores DEF StoresOK
  <2>. QED BY <1>2, <1>4, <1>5, <1>8, <1>10, <1>9, <2>1, <2>2 DEF cmd
<1>11. CASE mode = "multi"
  <2>1. stores' = ReplayShard(f, cmd) /\ f \in Workers
    BY <1>2, <1>11
  <2>2. StoresOK'
    BY <1>4, <1>6, <2>1, ReplayedStores DEF StoresOK
  <2>. QED BY <1>2, <1>4, <1>8, <1>11, <1>9, <2>1, <2>2 DEF cmd
<1>. QED BY <1>1, <1>10, <1>11
LEMMA StopTypes ==
  ASSUME TypeOK, Stop
  PROVE  /\ TypeOK'
         /\ \E n \in 0 .. Len(buffer) :
              files' = IF n = 0 THEN files
                       ELSE [files EXCEPT ![0] = @ \o SubSeq(buffer, 1, n)]
<1>1. LogsOK /\ mode \in Modes /\ count \in Counts /\ hash \in [Keys -> Nat]
  BY TypeParts
<1>2. /\ \E n \in 0 .. Len(buffer) :
           files' = IF n = 0 THEN files
                    ELSE [files EXCEPT ![0] = @ \o SubSeq(buffer, 1, n)]
      /\ up' = FALSE /\ stores' = NewStores(count) /\ buffer' = <<>>
      /\ next' = [f \in Logs |-> 0] /\ left' = [f \in Logs |-> <<>>]
      /\ UNCHANGED <<mode, hash, count>>
  BY DEF Stop
<1>3. Logs' = Logs
  BY <1>2 DEF Logs
<1>4. <<>> \in Seq(Pieces) /\ Len(<<>>) = 0
  BY EmptySeq
<1>5. /\ DOMAIN files' = Logs
      /\ \A g \in Logs : files'[g] \in Seq(Pieces)
  <2>1. PICK n \in 0 .. Len(buffer) :
               files' = IF n = 0 THEN files
                        ELSE [files EXCEPT ![0] = @ \o SubSeq(buffer, 1, n)]
    BY <1>2
  <2>2. CASE n = 0
    BY <1>1, <2>1, <2>2 DEF LogsOK
  <2>3. CASE n # 0
    <3>1. mode = "single"
      BY <2>3, <1>1, <1>4, LogFacts DEF LogsOK
    <3>2. buffer \in Seq(Pieces) /\ 0 \in Logs
      BY <1>1, <3>1, LogFacts DEF LogsOK
    <3>3. SubSeq(buffer, 1, n) \in Seq(Pieces)
      BY <3>2, Divided
    <3>4. files' = [files EXCEPT ![0] = files[0] \o SubSeq(buffer, 1, n)]
      BY <2>1, <2>3
    <3>5. DOMAIN files = Logs /\ \A g \in Logs : files[g] \in Seq(Pieces)
      BY <1>1 DEF LogsOK
    <3>. QED BY <3>2, <3>3, <3>4, <3>5, Grown
  <2>. QED BY <2>2, <2>3
<1>6. \A g \in Logs : 0 <= Len(files'[g])
  BY <1>5, LenProperties
<1>7. LogsOK'
  BY <1>2, <1>3, <1>4, <1>5, <1>6 DEF LogsOK
<1>8. StoresOK'
  BY <1>2, NewStoresFit DEF StoresOK, Workers
<1>. QED BY <1>1, <1>2, <1>7, <1>8, TypePartsNext

LEMMA DispatchTypes ==
  ASSUME TypeOK, NEW words \in Lines, Dispatch(words)
  PROVE  TypeOK'
<1>. DEFINE cmd == ParseCommand(words)
            w   == RouteRequest(hash, cmd, count)
<1>1. /\ Asked(cmd) /\ w \in Workers /\ up
      /\ stores' = [stores EXCEPT ![w] = Executed(w, cmd).store]
      /\ \/ UNCHANGED logs
         \/ cmd \in Writes /\ AppendRequest(LogOf(w), cmd)
         \/ cmd \in Writes /\ mode = "single" /\ AppendFails(cmd)
  BY DispatchLogs
<1>2. UNCHANGED <<config, left>>
  BY DEF Dispatch
<1>. HIDE DEF cmd
<1>3. LogsOK'
  <2>1. CASE UNCHANGED logs
    BY <2>1, <1>2, TypeParts DEF LogsOK, logs, config, Logs
  <2>2. CASE cmd \in Writes /\ AppendRequest(LogOf(w), cmd)
    <3>1. LogOf(w) \in Logs
      BY <1>1, LogFacts
    <3>. QED BY <2>2, <3>1, <1>2, AppendTypes
  <2>3. CASE cmd \in Writes /\ mode = "single" /\ AppendFails(cmd)
    BY <2>3, <1>1, <1>2, FailTypes
  <2>. QED BY <1>1, <2>1, <2>2, <2>3
<1>4. StoresOK'
  <2>1. IsCommand(cmd)
    BY <1>1 DEF Asked
  <2>2. Workers' = Workers
    BY <1>2 DEF Workers, config
  <2>. QED BY <1>1, <2>1, <2>2, ExecutedStores DEF StoresOK
<1>. QED BY <1>2, <1>3, <1>4, TypeParts, TypePartsNext DEF config

LEMMA StepTypes == TypeOK /\ [Next]_vars => TypeOK'
<1>. SUFFICES ASSUME TypeOK, [Next]_vars PROVE TypeOK'
  OBVIOUS
<1>1. ASSUME NEW n \in Counts, Start(n) PROVE TypeOK'
  BY <1>1, StartTypes
<1>2. ASSUME NEW f \in Logs, ReplayLine(f) PROVE TypeOK'
  BY <1>2, ReplayTypes
<1>3. ASSUME NEW words \in Lines, Refuse(words) PROVE TypeOK'
  BY <1>3 DEF Refuse, config, logs, TypeOK, Logs, Workers
<1>4. ASSUME NEW words \in Lines, Dispatch(words) PROVE TypeOK'
  BY <1>4, DispatchTypes
<1>5. CASE Stop
  BY <1>5, StopTypes
<1>6. CASE UNCHANGED vars
  BY <1>6 DEF vars, TypeOK, Logs, Workers
<1>. QED BY <1>1, <1>2, <1>3, <1>4, <1>5, <1>6 DEF Next

(* Each log is a sequence of writes with numbers, in every mode; a replay  *)
(* has at most the file before it; every store is one that commands can    *)
(* make, without lifetimes.                                                *)
THEOREM TypeCorrect == Spec => []TypeOK
<1>1. Init => TypeOK
  BY InitTypes
<1>2. TypeOK /\ [Next]_vars => TypeOK'
  BY StepTypes
<1>. QED BY <1>1, <1>2, PTL DEF Spec
-----------------------------------------------------------------------------
(* Keys stay home. *)

LEMMA NewStoresHome ==
  ASSUME NEW n, stores' = NewStores(n), count' = n
  PROVE  KeysStayHome'
<1>1. \A w \in 0 .. n - 1 : Fits(stores'[w], {})
  BY NewStoresFit
<1>. QED BY <1>1 DEF KeysStayHome, Workers, Fits

LEMMA StoresHome ==
  ASSUME UNCHANGED <<hash, count>>,
         \A w \in Workers : Fits(stores'[w], HomeKeys(w))
  PROVE  KeysStayHome'
BY DEF KeysStayHome, Workers, Fits, HomeKeys

LEMMA AppendRoutes ==
  ASSUME TypeOK, LogsRouted, mode = "multi", NEW w \in Workers, NEW cmd \in Writes,
         cmd.key \in HomeKeys(w), AppendRequest(w, cmd)
  PROVE  \A f \in Logs : Routed(files'[f], f)
<1>. DEFINE p == Piece([seq |-> next[w], cmd |-> cmd], "whole")
<1>1. /\ LogsOK /\ w \in Logs /\ p \in Pieces
      /\ \A f \in Logs : Routed(files[f], f)
  BY TypeParts, LogFacts, UnwrittenOK DEF LogsRouted, LogOf
<1>2. files[w] \in Seq(Pieces) /\ DOMAIN files = Logs /\ buffer = <<>>
  BY <1>1 DEF LogsOK
<1>3. p.record.cmd = cmd
  BY DEF Piece
<1>. HIDE DEF p
<1>4. Unwritten(w, cmd) = <<p>>
  BY <1>2 DEF Unwritten, p
<1>5. files'[w] = Append(files[w], p)
  <2>1. files'[w] = files[w] \o <<p>>
    BY <1>1, <1>2, <1>4 DEF AppendRequest
  <2>. QED BY <2>1, <1>1, <1>2, AppendIsConcat
<1>6. /\ files'[w] \in Seq(Pieces) /\ Len(files'[w]) = Len(files[w]) + 1
      /\ \A i \in 1 .. Len(files[w]) : files'[w][i] = files[w][i]
      /\ files'[w][Len(files[w]) + 1] = p
  BY <1>1, <1>2, <1>5, AppendProperties
<1>7. /\ DOMAIN files[w] = 1 .. Len(files[w]) /\ Len(files[w]) \in Nat
      /\ DOMAIN files'[w] = 1 .. Len(files[w]) + 1
  BY <1>2, <1>6, LenProperties
<1>8. ASSUME NEW i \in DOMAIN files'[w]
      PROVE  files'[w][i].record.cmd.key \in HomeKeys(w)
  <2>1. CASE i = Len(files[w]) + 1
    BY <2>1, <1>3, <1>6
  <2>2. CASE i \in DOMAIN files[w]
    <3>1. files[w][i].record.cmd.key \in HomeKeys(w)
      BY <2>2, <1>1 DEF Routed
    <3>. QED BY <2>2, <3>1, <1>6, <1>7
  <2>. QED BY <2>1, <2>2, <1>7
<1>9. \A f \in Logs \ {w} : files'[f] = files[f]
  BY <1>2 DEF AppendRequest
<1>. QED BY <1>1, <1>8, <1>9 DEF Routed

LEMMA DispatchHome ==
  ASSUME TypeOK, KeysStayHome, LogsRouted, NEW words \in Lines, Dispatch(words)
  PROVE  KeysStayHome' /\ LogsRouted'
<1>. DEFINE cmd == ParseCommand(words)
            w   == RouteRequest(hash, cmd, count)
<1>1. /\ Asked(cmd) /\ w \in Workers /\ up
      /\ stores' = [stores EXCEPT ![w] = Executed(w, cmd).store]
      /\ \/ UNCHANGED logs
         \/ cmd \in Writes /\ AppendRequest(LogOf(w), cmd)
         \/ cmd \in Writes /\ mode = "single" /\ AppendFails(cmd)
  BY DispatchLogs
<1>2. UNCHANGED <<config, left>>
  BY DEF Dispatch
<1>. HIDE DEF cmd
<1>3. IsCommand(cmd)
  BY <1>1 DEF Asked
<1>4. KeysStayHome'
  <2>1. \A v \in Workers : Fits(stores'[v], HomeKeys(v))
    BY <1>1, <1>3, ExecutedStores
  <2>. QED BY <2>1, <1>2, StoresHome DEF config
<1>5. cmd \in Writes => cmd.key \in HomeKeys(w)
  BY <1>3, RouteOK
<1>. HIDE DEF w
<1>6. ASSUME mode = "multi" PROVE \A f \in Logs : Routed(files'[f], f) /\ Routed(left'[f], f)
  <2>1. \A f \in Logs : Routed(files[f], f) /\ Routed(left[f], f)
    BY <1>6 DEF LogsRouted
  <2>2. CASE UNCHANGED logs
    BY <2>1, <2>2, <1>2 DEF logs
  <2>3. CASE cmd \in Writes /\ AppendRequest(LogOf(w), cmd)
    <3>1. AppendRequest(w, cmd)
      BY <2>3, <1>6 DEF LogOf
    <3>. QED BY <2>1, <2>3, <3>1, <1>1, <1>2, <1>5, <1>6, AppendRoutes
  <2>. QED BY <2>2, <2>3, <1>1, <1>6
<1>7. LogsRouted'
  BY <1>6, <1>2 DEF config, Logs, Routed, HomeKeys, LogsRouted
<1>. QED BY <1>4, <1>7
LEMMA ReplayHome ==
  ASSUME TypeOK, KeysStayHome, LogsRouted, NEW f \in Logs, ReplayLine(f)
  PROVE  KeysStayHome' /\ LogsRouted'
<1>. DEFINE cmd == Head(left[f]).record.cmd
            w   == RouteRequest(hash, cmd, count)
<1>1. /\ cmd \in Writes /\ left[f] # <<>> /\ left' = [left EXCEPT ![f] = Tail(@)]
      /\ \/ /\ mode = "single" /\ IsCommand(cmd)
            /\ stores' = [stores EXCEPT ![w] = Executed(w, cmd).store]
         \/ /\ mode = "multi" /\ f \in Workers
            /\ stores' = ReplayShard(f, cmd)
  BY ReplayTypes
<1>2. UNCHANGED <<mode, hash, count, files>>
  BY DEF ReplayLine, config, logs
<1>3. LogsOK
  BY TypeParts
<1>4. left[f] \in Seq(Pieces) /\ DOMAIN left = Logs
  BY <1>3 DEF LogsOK
<1>5. /\ Len(left[f]) \in Nat \ {0} /\ Head(left[f]) = left[f][1]
      /\ Tail(left[f]) \in Seq(Pieces) /\ Len(Tail(left[f])) = Len(left[f]) - 1
      /\ \A i \in 1 .. Len(Tail(left[f])) : Tail(left[f])[i] = left[f][i + 1]
      /\ DOMAIN left[f] = 1 .. Len(left[f])
  <2>1. Len(left[f]) \in Nat \ {0}
    BY <1>1, <1>4, EmptySeq
  <2>2. Head(left[f]) = left[f][1]
    BY <2>1
  <2>. QED BY <1>1, <1>4, <2>1, <2>2, HeadTailProperties, LenProperties
<1>6. DOMAIN Tail(left[f]) = 1 .. Len(left[f]) - 1
  BY <1>5, LenProperties
<1>7. ASSUME mode = "multi"
      PROVE  /\ cmd.key \in HomeKeys(f)
             /\ \A g \in Logs : Routed(files[g], g) /\ Routed(left'[g], g)
  <2>1. \A g \in Logs : Routed(files[g], g) /\ Routed(left[g], g)
    BY <1>7 DEF LogsRouted
  <2>2. \A i \in 1 .. Len(left[f]) : left[f][i].record.cmd.key \in HomeKeys(f)
    BY <2>1, <1>5 DEF Routed
  <2>3. cmd.key \in HomeKeys(f)
    BY <2>2, <1>5
  <2>4. Routed(Tail(left[f]), f)
    <3>1. ASSUME NEW i \in 1 .. Len(left[f]) - 1
          PROVE  Tail(left[f])[i].record.cmd.key \in HomeKeys(f)
      <4>1. i + 1 \in 1 .. Len(left[f]) /\ Tail(left[f])[i] = left[f][i + 1]
        BY <1>5
      <4>. QED BY <4>1, <2>2
    <3>. QED BY <3>1, <1>6 DEF Routed
  <2>. HIDE DEF cmd
  <2>5. left'[f] = Tail(left[f]) /\ \A g \in Logs \ {f} : left'[g] = left[g]
    BY <1>1, <1>4
  <2>. QED BY <2>1, <2>3, <2>4, <2>5
<1>. HIDE DEF cmd
<1>8. LogsRouted'
  BY <1>7, <1>2 DEF LogsRouted, Routed, HomeKeys, Logs
<1>9. \A v \in Workers : Fits(stores'[v], HomeKeys(v))
  BY <1>1, <1>7, ExecutedStores, ReplayedStores
<1>. QED BY <1>2, <1>8, <1>9, StoresHome

LEMMA StopHome ==
  ASSUME TypeOK, LogsRouted, Stop
  PROVE  KeysStayHome' /\ LogsRouted'
<1>1. /\ stores' = NewStores(count) /\ left' = [f \in Logs |-> <<>>]
      /\ UNCHANGED <<mode, hash, count>>
  BY DEF Stop
<1>2. KeysStayHome'
  BY <1>1, NewStoresHome
<1>3. ASSUME mode = "multi" PROVE files' = files
  <2>1. Len(buffer) = 0
    BY <1>3, TypeParts, EmptySeq DEF LogsOK
  <2>2. \E n \in 0 .. Len(buffer) :
          files' = IF n = 0 THEN files
                   ELSE [files EXCEPT ![0] = @ \o SubSeq(buffer, 1, n)]
    BY StopTypes
  <2>. QED BY <2>1, <2>2
<1>4. \A f : Routed(<<>>, f)
  BY DEF Routed
<1>5. mode = "multi" => \A f \in Logs : Routed(files'[f], f) /\ Routed(left'[f], f)
  BY <1>1, <1>3, <1>4 DEF LogsRouted
<1>6. LogsRouted'
  BY <1>1, <1>5 DEF LogsRouted, Routed, HomeKeys, Logs
<1>. QED BY <1>2, <1>6

\* The number of workers of multi mode stays.
LEMMA StartHome ==
  ASSUME "multi" \notin Resizable, TypeOK, LogsRouted, NEW n \in Counts, Start(n)
  PROVE  KeysStayHome' /\ LogsRouted'
<1>1. /\ stores' = NewStores(n) /\ count' = n /\ left' = files
      /\ n = count \/ mode \in Resizable
      /\ UNCHANGED <<mode, hash, files>>
  BY DEF Start
<1>2. KeysStayHome'
  BY <1>1, NewStoresHome
<1>3. LogsRouted'
  BY <1>1 DEF LogsRouted, Routed, HomeKeys, Logs
<1>. QED BY <1>2, <1>3

LEMMA SameHome ==
  ASSUME KeysStayHome, LogsRouted, UNCHANGED <<mode, hash, count, stores, files, left>>
  PROVE  KeysStayHome' /\ LogsRouted'
<1>1. KeysStayHome'
  BY DEF KeysStayHome, Workers
<1>2. LogsRouted'
  BY DEF LogsRouted, Logs, Routed, HomeKeys
<1>. QED BY <1>1, <1>2

LEMMA InitHome == ASSUME Init PROVE KeysStayHome /\ LogsRouted
<1>1. KeysStayHome
  <2>1. stores = NewStores(count)
    BY DEF Init
  <2>2. \A w \in Workers : Fits(stores[w], {})
    BY <2>1, NewStoresFit DEF Workers
  <2>. QED BY <2>2 DEF KeysStayHome, Fits
<1>2. LogsRouted
  BY DEF Init, LogsRouted, Routed
<1>. QED BY <1>1, <1>2

(* No key is ever in a store that its requests do not go to: not by a      *)
(* request, and not by the replay of a log that was written before a       *)
(* restart.  In single mode the number of workers may change at each; in   *)
(* multi mode a log is replayed where it was written, whatever worker its  *)
(* keys belong to by then, and so there the number has to stay.            *)
THEOREM KeysAreHome ==
  ASSUME "multi" \notin Resizable
  PROVE  Spec => []KeysStayHome
<1>. DEFINE Inv == TypeOK /\ KeysStayHome /\ LogsRouted
<1>1. Init => Inv
  BY InitTypes, InitHome
<1>2. Inv /\ [Next]_vars => Inv'
  <2>. SUFFICES ASSUME Inv, [Next]_vars PROVE Inv'
    OBVIOUS
  <2>0. TypeOK'
    BY StepTypes
  <2>1. ASSUME NEW n \in Counts, Start(n) PROVE KeysStayHome' /\ LogsRouted'
    BY <2>1, StartHome
  <2>2. ASSUME NEW f \in Logs, ReplayLine(f) PROVE KeysStayHome' /\ LogsRouted'
    BY <2>2, ReplayHome
  <2>3. ASSUME NEW words \in Lines, Refuse(words) PROVE KeysStayHome' /\ LogsRouted'
    BY <2>3, SameHome DEF Refuse, config, logs
  <2>4. ASSUME NEW words \in Lines, Dispatch(words) PROVE KeysStayHome' /\ LogsRouted'
    BY <2>4, DispatchHome
  <2>5. ASSUME Stop PROVE KeysStayHome' /\ LogsRouted'
    BY <2>5, StopHome
  <2>6. ASSUME UNCHANGED vars PROVE KeysStayHome' /\ LogsRouted'
    <3>1. UNCHANGED <<mode, hash, count, stores, files, left>>
      BY <2>6 DEF vars
    <3>. QED BY <3>1, SameHome
  <2>7. KeysStayHome' /\ LogsRouted'
    BY <2>1, <2>2, <2>3, <2>4, <2>5, <2>6 DEF Next
  <2>. QED BY <2>0, <2>7
<1>3. Inv => KeysStayHome
  OBVIOUS
<1>. QED BY <1>1, <1>2, <1>3, PTL DEF Spec
-----------------------------------------------------------------------------
(* The numbers of the records. *)

\* A log, with what is held back of it.
All(f) == files[f] \o (IF mode = "single" THEN buffer ELSE <<>>)

\* The numbers rise, or at least do not fall; and n continues them.
Rising(all, weakly) ==
  \A i, j \in DOMAIN all :
    i < j => IF weakly THEN all[i].record.seq <= all[j].record.seq
                       ELSE all[i].record.seq < all[j].record.seq
Below(all, n, weakly) ==
  \A i \in DOMAIN all : IF weakly THEN all[i].record.seq <= n
                                  ELSE all[i].record.seq < n

LEMMA OrderedParts ==
  SequencesOrdered <=>
    \A f \in Logs : /\ Rising(All(f), mode = "single")
                    /\ up => Below(All(f), next[f], mode = "single")
BY DEF SequencesOrdered, Rising, Below, All

LEMMA OrderedPartsNext ==
  SequencesOrdered' <=>
    \A f \in Logs' : /\ Rising(All(f)', mode' = "single")
                     /\ up' => Below(All(f)', next'[f], mode' = "single")
BY DEF SequencesOrdered, Rising, Below, All

LEMMA AllTyped ==
  ASSUME TypeOK, NEW f \in Logs
  PROVE  All(f) \in Seq(Pieces) /\ (mode = "multi" \/ ~ up => All(f) = files[f])
<1>1. files[f] \in Seq(Pieces) /\ buffer \in Seq(Pieces)
      /\ (mode = "multi" \/ ~ up => buffer = <<>>)
  BY TypeParts DEF LogsOK
<1>2. files[f] \o buffer \in Seq(Pieces) /\ files[f] \o <<>> = files[f]
  BY <1>1, ConcatProperties, ConcatEmptySeq
<1>. QED BY <1>1, <1>2, LogFacts DEF All

\* A record with the number that is next continues the log.
LEMMA AppendRises ==
  ASSUME NEW all \in Seq(Pieces), NEW p \in Pieces, NEW weakly \in BOOLEAN,
         Rising(all, weakly), Below(all, p.record.seq, weakly)
  PROVE  /\ Rising(Append(all, p), weakly)
         /\ Below(Append(all, p), p.record.seq + 1, weakly)
         /\ weakly => Below(Append(all, p), p.record.seq, weakly)
<1>. DEFINE more == Append(all, p)
<1>1. /\ more \in Seq(Pieces) /\ Len(more) = Len(all) + 1
      /\ \A i \in 1 .. Len(all) : more[i] = all[i]
      /\ more[Len(all) + 1] = p
  BY AppendProperties
<1>. HIDE DEF more
<1>2. /\ DOMAIN all = 1 .. Len(all) /\ Len(all) \in Nat
      /\ DOMAIN more = 1 .. Len(all) + 1
  BY <1>1, LenProperties
<1>3. \A i \in DOMAIN more : more[i].record.seq \in Nat
  <2>1. \A i \in DOMAIN more : more[i] \in Pieces
    BY <1>1, <1>2, ElementOfSeq
  <2>. QED BY <2>1 DEF Pieces
<1>4. p.record.seq \in Nat
  BY DEF Pieces
<1>5. ASSUME NEW i \in DOMAIN all
      PROVE  /\ i \in DOMAIN more /\ more[i].record.seq = all[i].record.seq
             /\ IF weakly THEN more[i].record.seq <= p.record.seq
                          ELSE more[i].record.seq < p.record.seq
  BY <1>1, <1>2 DEF Below
<1>6. Rising(more, weakly)
  <2>. SUFFICES ASSUME NEW i \in DOMAIN more, NEW j \in DOMAIN more, i < j
                PROVE  IF weakly THEN more[i].record.seq <= more[j].record.seq
                                 ELSE more[i].record.seq < more[j].record.seq
    BY DEF Rising
  <2>1. i \in DOMAIN all
    BY <1>2
  <2>2. CASE j = Len(all) + 1
    BY <2>1, <2>2, <1>1, <1>5
  <2>3. CASE j \in DOMAIN all
    BY <2>1, <2>3, <1>5 DEF Rising
  <2>. QED BY <2>2, <2>3, <1>2
<1>7. \A i \in DOMAIN more : more[i].record.seq <= p.record.seq
  <2>1. ASSUME NEW i \in DOMAIN more PROVE more[i].record.seq <= p.record.seq
    <3>1. CASE i \in DOMAIN all
      BY <3>1, <1>3, <1>4, <1>5
    <3>2. CASE i = Len(all) + 1
      BY <3>2, <1>1, <1>4
    <3>. QED BY <3>1, <3>2, <1>2
  <2>. QED BY <2>1
<1>8. \A i \in DOMAIN more : more[i].record.seq < p.record.seq + 1
                             /\ more[i].record.seq <= p.record.seq + 1
  BY <1>3, <1>4, <1>7
<1>. QED BY <1>6, <1>7, <1>8 DEF Below, more

\* What is lost of the end of a log leaves the rest in order.
LEMMA BeginningRises ==
  ASSUME NEW all \in Seq(Pieces), NEW less \in Seq(Pieces), NEW weakly \in BOOLEAN,
         Len(less) <= Len(all), \A i \in 1 .. Len(less) : less[i] = all[i],
         Rising(all, weakly)
  PROVE  Rising(less, weakly)
<1>1. /\ DOMAIN less = 1 .. Len(less) /\ DOMAIN all = 1 .. Len(all)
      /\ Len(less) \in Nat /\ Len(all) \in Nat
  BY LenProperties
<1>2. \A i \in DOMAIN less : i \in DOMAIN all /\ less[i] = all[i]
  BY <1>1
<1>. QED BY <1>2 DEF Rising

LEMMA StartOrdered ==
  ASSUME TypeOK, SequencesOrdered, NEW n \in Counts, Start(n)
  PROVE  SequencesOrdered'
<1>1. /\ ~ up /\ next' = [f \in Logs |-> NextSequence(files[f])]
      /\ UNCHANGED <<mode, files, buffer>> /\ Logs' = Logs
  BY DEF Start, Logs
<1>2. ASSUME NEW f \in Logs
      PROVE  Rising(All(f)', mode' = "single") /\ Below(All(f)', next'[f], mode' = "single")
  <2>1. All(f)' = All(f) /\ All(f) = files[f] /\ files[f] \in Seq(Pieces)
    BY <1>1, AllTyped, TypeParts DEF All, LogsOK
  <2>2. Rising(All(f), mode = "single")
    BY OrderedParts
  <2>3. \A i \in DOMAIN files[f] : files[f][i] \in Pieces
    BY <2>1, LenProperties, ElementOfSeq
  <2>4. \A i \in DOMAIN files[f] : files[f][i].record.seq \in Nat
    BY <2>3 DEF Pieces
  <2>5. ASSUME NEW i \in DOMAIN files[f] PROVE Parses(files[f], i)
    <3>1. i \in 1 .. Len(files[f]) /\ Len(files[f]) \in Nat /\ DOMAIN files[f] = 1 .. Len(files[f])
      BY <2>1, LenProperties
    <3>2. i = 1 \/ i - 1 \in DOMAIN files[f]
      BY <3>1
    <3>3. \A j \in DOMAIN files[f] : files[f][j].part = "whole"
      BY <2>3 DEF Pieces
    <3>. QED BY <3>2, <3>3 DEF Parses
  <2>6. /\ NextSequence(files[f]) \in Nat
        /\ \A i \in DOMAIN files[f] : files[f][i].record.seq < NextSequence(files[f])
    BY <2>1, <2>4, <2>5, NextSequenceOK
  <2>7. next'[f] = NextSequence(files[f])
    BY <1>1
  <2>8. Below(files[f], next'[f], mode = "single")
    BY <2>4, <2>6, <2>7 DEF Below
  <2>. QED BY <1>1, <2>1, <2>2, <2>8
<1>. QED BY <1>1, <1>2, OrderedPartsNext
LEMMA Regrouped ==
  \A s, t, u \in Seq(Pieces) : (s \o t) \o u = s \o (t \o u)
BY ConcatAssociative

\* What is written, with all that was held back before, goes to the end.
LEMMA WrittenLast ==
  ASSUME TypeOK, NEW f \in Logs, NEW cmd \in Writes, mode = "multi" => buffer = <<>>
  PROVE  files[f] \o Unwritten(f, cmd)
           = Append(All(f), Piece([seq |-> next[f], cmd |-> cmd], "whole"))
<1>. DEFINE p == Piece([seq |-> next[f], cmd |-> cmd], "whole")
<1>1. /\ files[f] \in Seq(Pieces) /\ buffer \in Seq(Pieces) /\ p \in Pieces
      /\ <<p>> \in Seq(Pieces)
  BY TypeParts, UnwrittenOK DEF LogsOK
<1>2. Unwritten(f, cmd) = Append(buffer, p)
  BY DEF Unwritten
<1>. HIDE DEF p
<1>3. Unwritten(f, cmd) = buffer \o <<p>>
  BY <1>1, <1>2, AppendIsConcat
<1>4. files[f] \o (buffer \o <<p>>) = (files[f] \o buffer) \o <<p>>
  BY <1>1, Regrouped
<1>5. files[f] \o buffer \in Seq(Pieces)
  BY <1>1, ConcatProperties
<1>6. (files[f] \o buffer) \o <<p>> = Append(files[f] \o buffer, p)
  BY <1>1, <1>5, AppendIsConcat
<1>7. All(f) = files[f] \o buffer
  BY LogFacts DEF All
<1>. QED BY <1>3, <1>4, <1>6, <1>7 DEF p

LEMMA RecordRises ==
  ASSUME TypeOK, up, SequencesOrdered, NEW f \in Logs, NEW cmd \in Writes
  PROVE  LET more == Append(All(f), Piece([seq |-> next[f], cmd |-> cmd], "whole"))
         IN  /\ Rising(more, mode = "single")
             /\ Below(more, next[f] + 1, mode = "single")
             /\ mode = "single" => Below(more, next[f], mode = "single")
<1>. DEFINE p == Piece([seq |-> next[f], cmd |-> cmd], "whole")
<1>1. All(f) \in Seq(Pieces) /\ p \in Pieces /\ p.record.seq = next[f]
  BY AllTyped, UnwrittenOK DEF Piece
<1>2. Rising(All(f), mode = "single") /\ Below(All(f), next[f], mode = "single")
  BY OrderedParts
<1>. HIDE DEF p
<1>. DEFINE weakly == mode = "single"
<1>3. weakly \in BOOLEAN /\ Rising(All(f), weakly) /\ Below(All(f), p.record.seq, weakly)
  BY <1>1, <1>2
<1>. HIDE DEF weakly
<1>4. /\ Rising(Append(All(f), p), weakly)
      /\ Below(Append(All(f), p), p.record.seq + 1, weakly)
      /\ weakly => Below(Append(All(f), p), p.record.seq, weakly)
  BY <1>1, <1>3, AppendRises
<1>. QED BY <1>1, <1>4 DEF p, weakly

LEMMA AppendOrdered ==
  ASSUME TypeOK, up, SequencesOrdered, NEW f \in Logs, NEW cmd \in Writes,
         AppendRequest(f, cmd), UNCHANGED config
  PROVE  SequencesOrdered'
<1>. DEFINE more == Append(All(f), Piece([seq |-> next[f], cmd |-> cmd], "whole"))
<1>1. /\ DOMAIN files = Logs /\ DOMAIN next = Logs
      /\ mode = "multi" => buffer = <<>>
      /\ mode \in {"single", "multi"} /\ (mode = "single" => Logs = {0})
  BY TypeParts, LogFacts DEF LogsOK
<1>2. /\ files' = [files EXCEPT ![f] = files[f] \o Unwritten(f, cmd)]
      /\ buffer' = <<>> /\ next' = [next EXCEPT ![f] = next[f] + 1]
      /\ mode' = mode /\ up' = up /\ Logs' = Logs
  BY DEF AppendRequest, config, Logs
<1>3. files'[f] = more /\ next'[f] = next[f] + 1
  BY <1>1, <1>2, WrittenLast
<1>4. /\ Rising(more, mode = "single") /\ Below(more, next[f] + 1, mode = "single")
      /\ more \in Seq(Pieces)
  BY RecordRises, AllTyped, UnwrittenOK, AppendProperties
<1>. HIDE DEF more
<1>5. All(f)' = more
  <2>1. All(f)' = more \o <<>>
    BY <1>2, <1>3 DEF All
  <2>. QED BY <2>1, <1>4, ConcatEmptySeq
<1>6. ASSUME NEW g \in Logs, g # f
      PROVE  All(g)' = All(g) /\ next'[g] = next[g]
  <2>1. files'[g] = files[g] /\ next'[g] = next[g]
    BY <1>1, <1>2, <1>6
  <2>2. mode # "single"
    BY <1>1, <1>6
  <2>. QED BY <2>1, <2>2, <1>2 DEF All
<1>7. ASSUME NEW g \in Logs
      PROVE  Rising(All(g)', mode' = "single") /\ Below(All(g)', next'[g], mode' = "single")
  <2>1. CASE g = f
    BY <2>1, <1>2, <1>3, <1>4, <1>5
  <2>2. CASE g # f
    <3>1. Rising(All(g), mode = "single") /\ Below(All(g), next[g], mode = "single")
      BY OrderedParts
    <3>. QED BY <2>2, <3>1, <1>2, <1>6
  <2>. QED BY <2>1, <2>2
<1>. QED BY <1>2, <1>7, OrderedPartsNext

LEMMA FailOrdered ==
  ASSUME TypeOK, up, SequencesOrdered, NEW cmd \in Writes, mode = "single",
         AppendFails(cmd), UNCHANGED config
  PROVE  SequencesOrdered'
<1>. DEFINE all == Unwritten(0, cmd)
            more == Append(All(0), Piece([seq |-> next[0], cmd |-> cmd], "whole"))
<1>1. /\ Logs = {0} /\ DOMAIN files = {0} /\ files[0] \in Seq(Pieces) /\ all \in Seq(Pieces)
  BY TypeParts, LogFacts, UnwrittenOK DEF LogsOK
<1>2. /\ \E n \in 0 .. Len(all) :
           /\ files' = [files EXCEPT ![0] = @ \o SubSeq(all, 1, n)]
           /\ buffer' = SubSeq(all, n + 1, Len(all))
      /\ next' = next /\ mode' = mode /\ up' = up /\ Logs' = Logs
  BY DEF AppendFails, config, Logs
<1>3. files[0] \o all = more
  BY <1>1, WrittenLast
<1>4. Rising(more, mode = "single") /\ Below(more, next[0], mode = "single")
  BY <1>1, RecordRises
<1>. HIDE DEF all, more
<1>5. PICK n \in 0 .. Len(all) :
           /\ files' = [files EXCEPT ![0] = @ \o SubSeq(all, 1, n)]
           /\ buffer' = SubSeq(all, n + 1, Len(all))
  BY <1>2
<1>6. All(0)' = more
  <2>1. /\ SubSeq(all, 1, n) \in Seq(Pieces) /\ SubSeq(all, n + 1, Len(all)) \in Seq(Pieces)
        /\ SubSeq(all, 1, n) \o SubSeq(all, n + 1, Len(all)) = all
    BY <1>1, Divided
  <2>2. files'[0] = files[0] \o SubSeq(all, 1, n)
    BY <1>1, <1>5
  <2>3. All(0)' = (files[0] \o SubSeq(all, 1, n)) \o SubSeq(all, n + 1, Len(all))
    BY <1>2, <1>5, <2>2 DEF All
  <2>4. (files[0] \o SubSeq(all, 1, n)) \o SubSeq(all, n + 1, Len(all))
          = files[0] \o (SubSeq(all, 1, n) \o SubSeq(all, n + 1, Len(all)))
    BY <1>1, <2>1, Regrouped
  <2>. QED BY <2>1, <2>3, <2>4, <1>3
<1>7. \A g \in Logs : /\ Rising(All(g)', mode' = "single")
                      /\ Below(All(g)', next'[g], mode' = "single")
  BY <1>1, <1>2, <1>4, <1>6
<1>. QED BY <1>2, <1>7, OrderedPartsNext

LEMMA StopOrdered ==
  ASSUME TypeOK, SequencesOrdered, Stop
  PROVE  SequencesOrdered'
<1>1. /\ up' = FALSE /\ buffer' = <<>> /\ mode' = mode /\ Logs' = Logs
  BY DEF Stop, Logs
<1>2. TypeOK'
  BY StopTypes
<1>3. PICK n \in 0 .. Len(buffer) :
        files' = IF n = 0 THEN files
                 ELSE [files EXCEPT ![0] = @ \o SubSeq(buffer, 1, n)]
  BY StopTypes
<1>4. /\ DOMAIN files = Logs /\ buffer \in Seq(Pieces)
      /\ mode = "multi" => buffer = <<>>
      /\ \A g \in Logs : files[g] \in Seq(Pieces)
  BY TypeParts DEF LogsOK
<1>5. ASSUME NEW g \in Logs PROVE Rising(All(g)', mode' = "single")
  <2>1. /\ files'[g] \in Seq(Pieces) /\ All(g)' = files'[g]
        /\ All(g) \in Seq(Pieces) /\ Rising(All(g), mode = "single")
    <3>1. files'[g] \in Seq(Pieces)
      BY <1>1, <1>2 DEF TypeOK
    <3>2. All(g)' = files'[g] \o <<>>
      BY <1>1 DEF All
    <3>. QED BY <3>1, <3>2, AllTyped, OrderedParts, ConcatEmptySeq
  <2>2. /\ Len(files'[g]) <= Len(All(g))
        /\ \A i \in 1 .. Len(files'[g]) : files'[g][i] = All(g)[i]
    <3>1. /\ Len(files[g]) \in Nat /\ Len(buffer) \in Nat
          /\ Len(files[g] \o buffer) = Len(files[g]) + Len(buffer)
          /\ \A i \in 1 .. Len(files[g]) + Len(buffer) :
               (files[g] \o buffer)[i] = IF i <= Len(files[g]) THEN files[g][i]
                                         ELSE buffer[i - Len(files[g])]
      BY <1>4, ConcatProperties, LenProperties
    <3>2. CASE mode = "multi"
      <4>1. n = 0
        BY <1>4, <3>2, EmptySeq
      <4>2. files' = files
        BY <4>1, <1>3
      <4>3. All(g) = files[g]
        BY <3>2, AllTyped
      <4>. QED BY <4>2, <4>3, <3>1
    <3>3. CASE mode = "single"
      <4>1. All(g) = files[g] \o buffer /\ g = 0
        BY <3>3, LogFacts DEF All
      <4>2. CASE n = 0
        <5>1. files'[g] = files[g]
          BY <4>2, <1>3
        <5>. QED BY <4>1, <5>1, <3>1
      <4>3. CASE n # 0
        <5>1. files'[g] = files[g] \o SubSeq(buffer, 1, n)
          BY <4>1, <4>3, <1>3, <1>4
        <5>2. /\ SubSeq(buffer, 1, n) \in Seq(Pieces) /\ Len(SubSeq(buffer, 1, n)) = n
              /\ \A i \in 1 .. n : SubSeq(buffer, 1, n)[i] = buffer[i]
          <6>1. \A i \in 1 .. n : buffer[i] \in Pieces
            BY <1>4, <3>1, ElementOfSeq
          <6>2. \A i \in 1 .. n - 1 + 1 : SubSeq(buffer, 1, n)[i] = buffer[1 + i - 1]
            BY <6>1, SubSeqProperties
          <6>. QED BY <6>2, <1>4, Divided
        <5>3. /\ Len(files'[g]) = Len(files[g]) + n
              /\ \A i \in 1 .. Len(files[g]) + n :
                   files'[g][i] = IF i <= Len(files[g]) THEN files[g][i]
                                  ELSE SubSeq(buffer, 1, n)[i - Len(files[g])]
          BY <5>1, <5>2, <1>4, ConcatProperties
        <5>4. ASSUME NEW i \in 1 .. Len(files[g]) + n PROVE files'[g][i] = All(g)[i]
          <6>1. All(g)[i] = IF i <= Len(files[g]) THEN files[g][i]
                            ELSE buffer[i - Len(files[g])]
            BY <3>1, <4>1
          <6>2. i > Len(files[g]) => i - Len(files[g]) \in 1 .. n
            BY <3>1
          <6>3. CASE i <= Len(files[g])
            BY <5>3, <6>1, <6>3
          <6>4. CASE i > Len(files[g])
            <7>1. SubSeq(buffer, 1, n)[i - Len(files[g])] = buffer[i - Len(files[g])]
              BY <5>2, <6>2, <6>4
            <7>2. ~ (i <= Len(files[g]))
              BY <3>1, <6>4
            <7>. QED BY <5>3, <6>1, <7>1, <7>2
          <6>. QED BY <3>1, <6>3, <6>4
        <5>5. Len(All(g)) = Len(files[g]) + Len(buffer) /\ n <= Len(buffer)
          BY <3>1, <4>1
        <5>. QED BY <5>3, <5>4, <5>5, <3>1
      <4>. QED BY <4>2, <4>3
    <3>. QED BY <3>2, <3>3, LogFacts
  <2>. DEFINE weakly == mode = "single"
  <2>3. weakly \in BOOLEAN /\ Rising(All(g), weakly)
    BY <2>1
  <2>. HIDE DEF weakly
  <2>4. Rising(files'[g], weakly)
    BY <2>1, <2>2, <2>3, BeginningRises
  <2>. QED BY <2>1, <2>4, <1>1 DEF weakly
<1>. QED BY <1>1, <1>5, OrderedPartsNext

LEMMA SameOrder ==
  ASSUME SequencesOrdered, UNCHANGED <<mode, up, files, buffer, next>>,
         Logs' = Logs
  PROVE  SequencesOrdered'
BY ZenonT(60) DEF SequencesOrdered

LEMMA DispatchOrdered ==
  ASSUME TypeOK, SequencesOrdered, NEW words \in Lines, Dispatch(words)
  PROVE  SequencesOrdered'
<1>. DEFINE cmd == ParseCommand(words)
            w   == RouteRequest(hash, cmd, count)
<1>1. /\ w \in Workers /\ up
      /\ \/ UNCHANGED logs
         \/ cmd \in Writes /\ AppendRequest(LogOf(w), cmd)
         \/ cmd \in Writes /\ mode = "single" /\ AppendFails(cmd)
  BY DispatchLogs
<1>2. UNCHANGED config /\ LogOf(w) \in Logs
  BY <1>1, LogFacts DEF Dispatch
<1>. HIDE DEF cmd, w
<1>3. CASE UNCHANGED logs
  BY <1>2, <1>3, SameOrder DEF logs, config, Logs
<1>4. CASE cmd \in Writes /\ AppendRequest(LogOf(w), cmd)
  BY <1>1, <1>2, <1>4, AppendOrdered
<1>5. CASE cmd \in Writes /\ mode = "single" /\ AppendFails(cmd)
  BY <1>1, <1>2, <1>5, FailOrdered
<1>. QED BY <1>1, <1>3, <1>4, <1>5

(* The numbers of a log rise from record to record, across restarts and    *)
(* across appends that fail in whatever part; those that fail, in single   *)
(* mode, leave their number to the next, and the numbers never fall.       *)
THEOREM NumbersRise == Spec => []SequencesOrdered
<1>. DEFINE Inv == TypeOK /\ SequencesOrdered
<1>1. Init => Inv
  <2>. SUFFICES ASSUME Init PROVE SequencesOrdered
    BY InitTypes
  <2>1. up = FALSE /\ buffer = <<>> /\ files = [f \in Logs |-> <<>>]
    BY DEF Init
  <2>2. \A f \in Logs : All(f) = <<>> \o <<>>
    BY <2>1 DEF All
  <2>3. <<>> \o <<>> = <<>>
    BY EmptySeq, ConcatEmptySeq
  <2>4. \A f \in Logs : Rising(All(f), mode = "single")
    BY <2>2, <2>3 DEF Rising
  <2>. QED BY <2>1, <2>4, OrderedParts
<1>2. Inv /\ [Next]_vars => Inv'
  <2>. SUFFICES ASSUME TypeOK, SequencesOrdered, [Next]_vars PROVE SequencesOrdered'
    BY StepTypes
  <2>1. ASSUME NEW n \in Counts, Start(n) PROVE SequencesOrdered'
    BY <2>1, StartOrdered
  <2>2. ASSUME NEW f \in Logs, ReplayLine(f) PROVE SequencesOrdered'
    BY <2>2, SameOrder DEF ReplayLine, config, logs, Logs
  <2>3. ASSUME NEW words \in Lines, Refuse(words) PROVE SequencesOrdered'
    BY <2>3, SameOrder DEF Refuse, config, logs, Logs
  <2>4. ASSUME NEW words \in Lines, Dispatch(words) PROVE SequencesOrdered'
    BY <2>4, DispatchOrdered
  <2>5. CASE Stop
    BY <2>5, StopOrdered
  <2>6. CASE UNCHANGED vars
    BY <2>6, SameOrder DEF vars, Logs
  <2>. QED BY <2>1, <2>2, <2>3, <2>4, <2>5, <2>6 DEF Next
<1>3. Inv => SequencesOrdered
  OBVIOUS
<1>. QED BY <1>1, <1>2, <1>3, PTL DEF Spec

=============================================================================
