------------------------- MODULE WorkerProcessProofs -------------------------
(***************************************************************************)
(* A worker and its log, for any keys, values and lifetimes, any fsync     *)
(* policy, and any number of deaths of the process or of its host.         *)
(***************************************************************************)
EXTENDS WorkerProcess, StoreLemmas, SequenceTheorems

\* Piece i is a whole line; or it is what a reader may take for one, if
\* nothing follows.
Whole(pieces, i) == (i = 1 \/ pieces[i - 1].part = "whole") /\ pieces[i].part = "whole"
Open(pieces, i)  == (i = 1 \/ pieces[i - 1].part = "whole") /\ pieces[i].part # "torn"

\* Each number is above those of the whole lines before it.
Ordered(pieces) ==
  \A i, j \in DOMAIN pieces :
    i < j /\ Whole(pieces, i) /\ Open(pieces, j) =>
      pieces[i].record.seq < pieces[j].record.seq

Continued(pieces, n) ==
  \A i \in DOMAIN pieces : Parses(pieces, i) => pieces[i].record.seq < n

\* What a loss of power would cost of the answered writes, and how much that
\* may be.
Unsynced == answered \cap (synced + 1 .. Len(file))

Owed == /\ policy = "always" => Unsynced = {}
        /\ policy = "every_n" =>
             /\ Cardinality(Unsynced) <= crashes * (EveryN - 1) + aof.writes
             /\ aof.writes < EveryN
        /\ mode = "down" => aof.writes = 0

-----------------------------------------------------------------------------
(* What a death leaves. *)

\* What clients may have been told.
Seen == {memory[i] : i \in DOMAIN memory} \cup {Contents(store)}

\* The file a is the beginning of b, or of what was to become b.
Shorter(a, b) ==
  /\ Len(a) <= Len(b)
  /\ \A i \in DOMAIN a : /\ a[i].record = b[i].record
                         /\ i < Len(a) => a[i] = b[i]
                         /\ a[i].part = "whole" => b[i].part = "whole"
                         /\ a[i].part # "torn" => b[i].part # "torn"

\* A piece of the write in progress, if there is one, may be in the file.
LEMMA DeathLeaves ==
  ASSUME TypeOK, NEW rest \in AfterDeath
  PROVE  /\ rest.memory \in Seq(Seen) /\ Len(rest.memory) = Len(rest.file) + 1
         /\ rest.file \in Seq(Pieces)
         /\ Len(file) <= Len(rest.file)
         /\ \/ rest.file = file
            \/ /\ pending \in Writes /\ pending # None
               /\ \E part \in {"whole", "bare", "torn"} :
                    rest.file = Append(file, Piece([seq |-> aof.next, cmd |-> pending], part))
<1>1. memory \in Seq(Seen) /\ Len(memory) = Len(file) + 1 /\ file \in Seq(Pieces)
      /\ Len(file) \in Nat /\ aof.next \in Nat /\ Contents(store) \in Seen
      /\ pending \in Writes \cup {None}
  BY DEF TypeOK, Told, Seen, Range
<1>2. CASE rest = [file |-> file, memory |-> memory]
  BY <1>1, <1>2
<1>3. ASSUME pending # None, NEW part \in Parts("whole"),
             rest = Extend([file |-> file, memory |-> memory],
                           Piece([seq |-> aof.next, cmd |-> pending], part),
                           Contents(store))
      PROVE  /\ rest.memory \in Seq(Seen) /\ Len(rest.memory) = Len(rest.file) + 1
             /\ rest.file \in Seq(Pieces)
             /\ Len(file) <= Len(rest.file)
             /\ part \in {"whole", "bare", "torn"}
             /\ rest.file = Append(file, Piece([seq |-> aof.next, cmd |-> pending], part))
  <2>. DEFINE piece == Piece([seq |-> aof.next, cmd |-> pending], part)
  <2>1. part \in {"whole", "bare", "torn"}
    BY <1>3 DEF Parts
  <2>2. piece \in Pieces
    BY <1>1, <1>3, <2>1 DEF Piece, Pieces
  <2>3. rest.file = Append(file, piece)
        /\ rest.memory = Append(memory, IF piece.part = "torn" THEN memory[Len(memory)]
                                                               ELSE Contents(store))
    BY <1>3 DEF Extend
  <2>. HIDE DEF piece
  <2>4. memory[Len(memory)] \in Seen
    BY <1>1
  <2>. QED BY <1>1, <2>1, <2>2, <2>3, <2>4 DEF piece
<1>. QED BY <1>1, <1>2, <1>3 DEF AfterDeath

(* The first n pieces of a file are the beginning of it, ...               *)
LEMMA KeptIsShorter ==
  ASSUME NEW b \in Seq(Pieces), NEW n \in 0 .. Len(b)
  PROVE  LET a == SubSeq(b, 1, n)
         IN  a \in Seq(Pieces) /\ Len(a) = n /\ Shorter(a, b)
<1>. DEFINE kept == SubSeq(b, 1, n)
<1>1. /\ kept \in Seq(Pieces) /\ Len(kept) = n
      /\ \A i \in 1 .. n : kept[i] = b[i]
  OBVIOUS
<1>. HIDE DEF kept
<1>2. Shorter(kept, b)
  BY <1>1 DEF Shorter
<1>. QED BY <1>1, <1>2 DEF kept

(* ... and so are these with a part of the next one.                       *)
LEMMA CutIsShorter ==
  ASSUME NEW b \in Seq(Pieces), NEW n \in 0 .. Len(b), n < Len(b),
         NEW part \in Parts(b[n + 1].part)
  PROVE  LET a == Append(SubSeq(b, 1, n), Piece(b[n + 1].record, part))
         IN  a \in Seq(Pieces) /\ Len(a) = n + 1 /\ Shorter(a, b)
<1>. DEFINE kept == SubSeq(b, 1, n)
            piece == Piece(b[n + 1].record, part)
            a == Append(kept, piece)
<1>1. /\ kept \in Seq(Pieces) /\ Len(kept) = n
      /\ \A i \in 1 .. n : kept[i] = b[i]
  OBVIOUS
<1>2. b[n + 1] \in Pieces
  OBVIOUS
<1>3. /\ part \in {"whole", "bare", "torn"}
      /\ part = "whole" => b[n + 1].part = "whole"
      /\ part # "torn" => b[n + 1].part # "torn"
  BY <1>2 DEF Parts, Pieces
<1>4. piece \in Pieces /\ piece.record = b[n + 1].record /\ piece.part = part
  BY <1>2, <1>3 DEF Piece, Pieces
<1>. HIDE DEF kept, piece
<1>5. a \in Seq(Pieces) /\ Len(a) = n + 1 /\ a[n + 1] = piece
      /\ \A i \in 1 .. n : a[i] = b[i]
  BY <1>1, <1>4
<1>. HIDE DEF a
<1>6. Shorter(a, b)
  <2>. SUFFICES ASSUME NEW i \in DOMAIN a
                PROVE  /\ a[i].record = b[i].record
                       /\ i < Len(a) => a[i] = b[i]
                       /\ a[i].part = "whole" => b[i].part = "whole"
                       /\ a[i].part # "torn" => b[i].part # "torn"
    BY <1>5 DEF Shorter
  <2>1. CASE i = n + 1
    BY <1>3, <1>4, <1>5, <2>1
  <2>2. CASE i \in 1 .. n
    BY <1>5, <2>2
  <2>. QED BY <1>5, <2>1, <2>2
<1>. QED BY <1>5, <1>6 DEF a, kept, piece

(* What is left when the host goes down, too, is the beginning of what a   *)
(* death would have left, and no shorter than what was synced.             *)
LEMMA PowerLossLeaves ==
  ASSUME TypeOK, NEW rest \in AfterPowerLoss
  PROVE  /\ rest.memory \in Seq(Seen) /\ Len(rest.memory) = Len(rest.file) + 1
         /\ rest.file \in Seq(Pieces)
         /\ synced <= Len(rest.file)
         /\ \E base \in AfterDeath : Shorter(rest.file, base.file)
<1>1. PICK base \in AfterDeath :
        \/ rest = Kept(base, synced)
        \/ \E n \in synced .. Len(base.file) - 1 : rest \in Cut(base, n)
  BY DEF AfterPowerLoss
<1>2. /\ base.memory \in Seq(Seen) /\ Len(base.memory) = Len(base.file) + 1
      /\ base.file \in Seq(Pieces)
      /\ Len(file) <= Len(base.file)
  BY DeathLeaves
<1>3. synced \in 0 .. Len(base.file)
  BY <1>2 DEF TypeOK
<1>4. \A n : /\ Kept(base, n).file = SubSeq(base.file, 1, n)
            /\ Kept(base, n).memory = SubSeq(base.memory, 1, n + 1)
  BY DEF Kept
<1>5. CASE rest = Kept(base, synced)
  <2>0. /\ rest.file = SubSeq(base.file, 1, synced)
        /\ rest.memory = SubSeq(base.memory, 1, synced + 1)
    BY <1>4, <1>5
  <2>1. /\ rest.file \in Seq(Pieces) /\ Len(rest.file) = synced
        /\ Shorter(rest.file, base.file)
    BY <1>2, <1>3, <2>0, KeptIsShorter
  <2>2. rest.memory \in Seq(Seen) /\ Len(rest.memory) = synced + 1
    BY <1>2, <1>3, <2>0
  <2>. QED BY <1>3, <2>1, <2>2
<1>6. ASSUME NEW n \in synced .. Len(base.file) - 1, rest \in Cut(base, n)
      PROVE  /\ rest.memory \in Seq(Seen) /\ Len(rest.memory) = Len(rest.file) + 1
             /\ rest.file \in Seq(Pieces)
             /\ synced <= Len(rest.file)
             /\ Shorter(rest.file, base.file)
  <2>1. n \in 0 .. Len(base.file) /\ n < Len(base.file) /\ synced <= n
    BY <1>2, <1>3
  <2>. DEFINE kept == Kept(base, n)
              b == base.file
  <2>2. PICK part \in Parts(b[n + 1].part) :
          rest = Extend(kept, Piece(b[n + 1].record, part), base.memory[n + 2])
    BY <1>6 DEF Cut
  <2>3. kept.file = SubSeq(b, 1, n) /\ kept.memory = SubSeq(base.memory, 1, n + 1)
    BY <1>4
  <2>. HIDE DEF kept, b
  <2>4. /\ rest.file = Append(kept.file, Piece(b[n + 1].record, part))
        /\ rest.memory = Append(kept.memory, IF part = "torn" THEN kept.memory[Len(kept.memory)]
                                                             ELSE base.memory[n + 2])
    BY <2>2 DEF Extend, Piece
  <2>5. rest.file \in Seq(Pieces) /\ Len(rest.file) = n + 1 /\ Shorter(rest.file, b)
    <3>1. b \in Seq(Pieces) /\ n \in 0 .. Len(b) /\ n < Len(b)
          /\ rest.file = Append(SubSeq(b, 1, n), Piece(b[n + 1].record, part))
      BY <1>2, <2>1, <2>3, <2>4 DEF b
    <3>. QED BY <3>1, CutIsShorter
  <2>6. kept.memory \in Seq(Seen) /\ Len(kept.memory) = n + 1
    BY <1>2, <2>1, <2>3
  <2>7. kept.memory[n + 1] \in Seen /\ base.memory[n + 2] \in Seen
    BY <1>2, <2>1, <2>6
  <2>8. rest.memory \in Seq(Seen) /\ Len(rest.memory) = n + 2
    BY <2>1, <2>4, <2>6, <2>7
  <2>. QED BY <1>3, <2>1, <2>5, <2>8 DEF b
<1>. QED BY <1>1, <1>5, <1>6

-----------------------------------------------------------------------------
(* Types. *)

LEMMA ToldFrom ==
  ASSUME NEW S, \A c \in S : IsView(c), NEW s \in Seq(S)
  PROVE  Told(s) /\ Len(s) \in Nat
BY DEF Range, Told

LEMMA ContentsTold ==
  ASSUME NEW s, StoreOK(s, Values)
  PROVE  IsView(Contents(s))
BY StoreParts DEF IsView, Contents

LEMMA SeenTold ==
  ASSUME TypeOK
  PROVE  /\ \A c \in Seen : IsView(c)
         /\ memory \in Seq(Seen) /\ Len(memory) = Len(file) + 1
<1>1. memory \in Seq(Range(memory)) /\ (\A c \in Range(memory) : IsView(c))
      /\ StoreOK(store, Values) /\ Len(memory) = Len(file) + 1
  BY DEF TypeOK, Told
<1>2. \A c \in Range(memory) \cup {Contents(store)} : IsView(c)
  BY <1>1, ContentsTold
<1>. QED BY <1>1, <1>2 DEF Seen, Range

\* What is as it was when the process was started.
Fresh == /\ aof \in [next : Nat, writes : Nat] /\ StoreOK(store, Values)
         /\ mode \in {"down", "replaying", "serving"}
         /\ began \in 0 .. now
         /\ pending \in Writes \cup {None} /\ (pending # None => mode = "serving")


LEMMA DownOK ==
  ASSUME TypeOK, Down
  PROVE  /\ Fresh' /\ cursor' = 1 /\ policy' = policy /\ now' = now /\ mode' = "down"
         /\ pending' = None /\ aof'.writes = 0
BY NewStoreOK DEF TypeOK, Down, Fresh

(* A command executed keeps the store in order, and one that may be logged *)
(* is a write.                                                             *)
LEMMA CommandOK ==
  ASSUME NEW s, StoreOK(s, Values), NEW cmd \in Commands, NEW t \in Int
  PROVE  LET done == ExecuteCommand(s, cmd, t)
         IN  StoreOK(done.store, Values) /\ (IsWrite(cmd, done) => cmd \in Writes)
<1>. DEFINE done == ExecuteCommand(s, cmd, t)
<1>1. /\ cmd.op \in {"SET", "GET", "DEL", "EXPIRE", "TTL", "FLUSHALL", "PING", "OTHER"}
      /\ cmd.key \in Keys
      /\ cmd.op = "SET" => cmd.arg \in Values
      /\ cmd.op = "EXPIRE" => cmd.arg \in Int \cup {None}
  BY WorkerAssumption DEF Commands
<1>2. StoreOK(done.store, Values)
  BY <1>1, ExecuteOK
<1>3. cmd.op = "EXPIRE" /\ cmd.arg = None => done.error
  BY DEF ExecuteCommand
<1>4. IsWrite(cmd, done) => cmd \in Writes
  <2>. HIDE DEF done
  <2>. QED BY <1>3 DEF IsWrite, Writes
<1>. QED BY <1>2, <1>4

LEMMA ReplayedOK ==
  ASSUME NEW s, StoreOK(s, Values), NEW cmd \in Writes, NEW t \in Int
  PROVE  StoreOK(ApplyReplayRequest(s, cmd, t), Values)
<1>1. /\ cmd.op \in {"SET", "DEL", "EXPIRE"}
      /\ cmd.key \in Keys
      /\ cmd.op = "SET" => cmd.arg \in Values
      /\ cmd.op = "EXPIRE" => cmd.arg \in Int
  BY WorkerAssumption DEF Writes, Commands
<1>. QED BY <1>1, ReplayOK

LEMMA TypeStep == TypeOK /\ [Next]_vars => TypeOK'
<1>. SUFFICES ASSUME TypeOK, [Next]_vars  PROVE TypeOK'
  OBVIOUS
<1>. USE WorkerAssumption
<1>0. /\ file \in Seq(Pieces) /\ Len(file) \in Nat /\ now \in Int
      /\ StoreOK(store, Values)
      /\ memory \in Seq(Range(memory)) /\ Len(memory) = Len(file) + 1
      /\ (\A c \in Range(memory) : IsView(c))
      /\ aof.next \in Nat /\ aof.writes \in Nat
  BY DEF TypeOK, Told
<1>1. CASE Tick
  BY <1>1 DEF TypeOK, Tick, disk, history
<1>2. CASE Start
  <2>1. NextSequence(file) \in Nat
    <3>1. \A i \in DOMAIN file : file[i].record.seq \in Nat
      <4>1. ASSUME NEW i \in DOMAIN file  PROVE file[i].record.seq \in Nat
        <5>1. file[i] \in Pieces
          BY <1>0
        <5>. QED BY <5>1 DEF Pieces
      <4>. QED BY <4>1
    <3>. QED BY <1>0, <3>1, NextSequenceOK
  <2>. QED BY <1>2, <2>1 DEF TypeOK, Start, disk, history
<1>3. CASE ReplayLine
  <2>1. cursor \in 1 .. Len(file) + 1 /\ cursor <= Len(file) /\ mode = "replaying"
    BY <1>3 DEF TypeOK, ReplayLine
  <2>2. file[cursor].record.cmd \in Writes
    <3>1. file[cursor] \in Pieces
      BY <1>0, <2>1
    <3>. QED BY <3>1 DEF Pieces
  <2>3. StoreOK(store', Values)
    <3>. DEFINE cmd == file[cursor].record.cmd
    <3>1. StoreOK(ApplyReplayRequest(store, cmd, now), Values)
      <4>. HIDE DEF cmd
      <4>. QED BY <1>0, <2>2, ReplayedOK DEF cmd
    <3>. QED BY <1>0, <1>3, <3>1 DEF ReplayLine
  <2>4. cursor' \in 1 .. Len(file) + 1
    BY <1>0, <1>3, <2>1 DEF ReplayLine
  <2>. QED BY <1>3, <2>3, <2>4 DEF TypeOK, ReplayLine, disk, history
<1>4. CASE Serve
  <2>1. Told(memory') /\ Len(memory') = Len(memory)
    <3>. DEFINE S == Range(memory) \cup {Contents(store)}
    <3>1. memory \in Seq(S) /\ memory' = [memory EXCEPT ![Len(memory)] = Contents(store)]
      BY <1>0, <1>4 DEF Serve
    <3>2. memory' \in Seq(S) /\ Len(memory') = Len(memory)
      <4>. HIDE DEF S
      <4>. QED BY <1>0, <3>1 DEF S
    <3>3. \A c \in S : IsView(c)
      BY <1>0, ContentsTold
    <3>. HIDE DEF S
    <3>. QED BY <3>2, <3>3, ToldFrom
  <2>. QED BY <1>0, <1>4, <2>1 DEF TypeOK, Serve, disk
<1>5. ASSUME NEW cmd \in Commands, Execute(cmd)  PROVE TypeOK'
  <2>. DEFINE done == ExecuteCommand(store, cmd, now)
  <2>1. StoreOK(done.store, Values) /\ (IsWrite(cmd, done) => cmd \in Writes)
    BY <1>0, CommandOK
  <2>2. /\ store' = done.store /\ mode = "serving" /\ mode' = mode
        /\ pending = None
        /\ \/ IsWrite(cmd, done) /\ pending' = cmd /\ memory' = memory
           \/ /\ ~ IsWrite(cmd, done) /\ pending' = pending
              /\ memory' = [memory EXCEPT ![Len(memory)] = Contents(done.store)]
        /\ UNCHANGED <<file, synced, policy, aof, now, cursor, began, crashes, answered>>
    BY <1>5 DEF Execute, disk
  <2>. HIDE DEF done
  <2>3. Told(memory') /\ Len(memory') = Len(memory)
    <3>1. CASE memory' = memory
      BY <1>0, <3>1 DEF Told
    <3>2. CASE memory' = [memory EXCEPT ![Len(memory)] = Contents(done.store)]
      <4>. DEFINE S == Range(memory) \cup {Contents(done.store)}
      <4>1. memory \in Seq(S) /\ Contents(done.store) \in S
        BY <1>0
      <4>3. \A c \in S : IsView(c)
        BY <1>0, <2>1, ContentsTold
      <4>. HIDE DEF S
      <4>2. memory' \in Seq(S) /\ Len(memory') = Len(memory)
        BY <1>0, <3>2, <4>1
      <4>. QED BY <4>2, <4>3, ToldFrom
    <3>. QED BY <2>2, <3>1, <3>2
  <2>4. pending' \in Writes \cup {None}
    BY <2>1, <2>2
  <2>. QED BY <1>0, <2>1, <2>2, <2>3, <2>4 DEF TypeOK
<1>6. CASE Log
  <2>. DEFINE piece == Piece([seq |-> aof.next, cmd |-> pending], "whole")
  <2>1. /\ pending # None /\ pending \in Writes /\ mode = "serving"
        /\ file' = Append(file, piece) /\ memory' = Append(memory, Contents(store))
        /\ answered' = answered \cup {Len(file')}
        /\ pending' = None
        /\ UNCHANGED <<policy, store, now, mode, cursor, began, crashes>>
    BY <1>6 DEF TypeOK, Log
  <2>2. piece \in Pieces
    BY <1>0, <2>1 DEF Piece, Pieces
  <2>. HIDE DEF piece
  <2>3. file' \in Seq(Pieces) /\ Len(file') = Len(file) + 1
    BY <1>0, <2>1, <2>2
  <2>4. Told(memory') /\ Len(memory') = Len(memory) + 1
    <3>. DEFINE S == Range(memory) \cup {Contents(store)}
    <3>1. memory \in Seq(S) /\ Contents(store) \in S
      BY <1>0
    <3>3. \A c \in S : IsView(c)
      BY <1>0, ContentsTold
    <3>. HIDE DEF S
    <3>2. memory' \in Seq(S) /\ Len(memory') = Len(memory) + 1
      BY <1>0, <2>1, <3>1
    <3>. QED BY <3>2, <3>3, ToldFrom
  <2>5. /\ synced' \in {synced, Len(file')}
        /\ aof'.next = aof.next + 1 /\ aof'.writes \in {0, aof.writes + 1}
        /\ aof' = [next |-> aof'.next, writes |-> aof'.writes]
    BY <1>6 DEF Log
  <2>6. aof' \in [next : Nat, writes : Nat]
    BY <1>0, <2>5
  <2>7. synced' \in 0 .. Len(file') /\ answered' \subseteq DOMAIN file'
        /\ cursor' \in 1 .. Len(file') + 1
    BY SMTT(60), <1>0, <2>1, <2>3, <2>5 DEF TypeOK
  <2>. QED BY <1>0, <2>1, <2>3, <2>4, <2>6, <2>7 DEF TypeOK
<1>7. CASE Cycle
  <2>1. StoreOK(store', Values)
    BY <1>0, <1>7, ProcessOK DEF Cycle
  <2>. QED BY <1>7, <2>1 DEF TypeOK, Cycle, disk, history
<1>8. CASE Stop
  <2>1. Down /\ synced' \in {synced, Len(file)} /\ UNCHANGED <<file, crashes, memory, answered>>
    BY <1>8 DEF Stop, history
  <2>. QED BY <1>0, <2>1, DownOK DEF TypeOK, Fresh
<1>9. CASE ProcessCrash
  <2>1. PICK rest \in AfterDeath : file' = rest.file /\ memory' = rest.memory
    BY <1>9 DEF ProcessCrash
  <2>2. /\ Down /\ synced' = synced /\ answered' = answered /\ crashes' = crashes + 1
        /\ crashes < MaxCrashes
    BY <1>9 DEF ProcessCrash
  <2>3. /\ Told(memory') /\ Len(memory') = Len(file') + 1
        /\ file' \in Seq(Pieces) /\ Len(file) <= Len(file')
    BY <2>1, DeathLeaves, SeenTold, ToldFrom
  <2>4. synced' \in 0 .. Len(file') /\ answered' \subseteq DOMAIN file'
    BY <1>0, <2>2, <2>3 DEF TypeOK
  <2>. QED BY <2>2, <2>3, <2>4, DownOK DEF TypeOK, Fresh
<1>10. CASE PowerLoss
  <2>1. PICK rest \in AfterPowerLoss : file' = rest.file /\ memory' = rest.memory
    BY <1>10 DEF PowerLoss
  <2>2. /\ Down /\ synced' = Len(file') /\ answered' = answered \cap DOMAIN file'
        /\ crashes' = crashes + 1 /\ crashes < MaxCrashes
    BY <1>10 DEF PowerLoss
  <2>3. /\ Told(memory') /\ Len(memory') = Len(file') + 1
        /\ file' \in Seq(Pieces)
    BY <2>1, PowerLossLeaves, SeenTold, ToldFrom
  <2>. QED BY <2>2, <2>3, DownOK DEF TypeOK, Fresh
<1>11. CASE UNCHANGED vars
  BY <1>11 DEF TypeOK, vars
<1>. QED BY <1>1, <1>2, <1>3, <1>4, <1>5, <1>6, <1>7, <1>8, <1>9, <1>10, <1>11
         DEF Next

LEMMA InitTypes == Init => TypeOK
<1>. SUFFICES ASSUME Init  PROVE TypeOK
  OBVIOUS
<1>1. StoreOK(NewStore, Values) /\ IsView(Contents(NewStore))
  BY NewStoreOK, ContentsTold
<1>2. memory \in Seq({Contents(NewStore)}) /\ Len(memory) = 1
  BY DEF Init
<1>3. Told(memory)
  BY <1>1, <1>2, ToldFrom
<1>. QED BY <1>1, <1>2, <1>3, WorkerAssumption DEF Init, TypeOK

(* The log, the store and the worker keep their types, through any deaths. *)
THEOREM TypeCorrect == Spec => []TypeOK
BY InitTypes, TypeStep, PTL DEF Spec

-----------------------------------------------------------------------------
(* Sequence numbers. *)

(* What is left of a file is as ordered as the file. *)
LEMMA ShorterOrdered ==
  ASSUME NEW a \in Seq(Pieces), NEW b \in Seq(Pieces), Shorter(a, b), Ordered(b)
  PROVE  Ordered(a)
<1>. SUFFICES ASSUME NEW i \in DOMAIN a, NEW j \in DOMAIN a,
                     i < j, Whole(a, i), Open(a, j)
              PROVE  a[i].record.seq < a[j].record.seq
  BY DEF Ordered
<1>1. /\ i \in 1 .. Len(a) /\ j \in 1 .. Len(a) /\ i < Len(a)
      /\ DOMAIN a \subseteq DOMAIN b
  BY DEF Shorter
<1>2. ASSUME NEW l \in DOMAIN a, l = 1 \/ a[l - 1].part = "whole"
      PROVE  l = 1 \/ b[l - 1].part = "whole"
  <2>1. CASE l = 1
    BY <2>1
  <2>2. CASE l # 1
    <3>1. l - 1 \in DOMAIN a
      BY <2>2
    <3>. QED BY <1>2, <2>2, <3>1 DEF Shorter
  <2>. QED BY <2>1, <2>2
<1>3. Whole(b, i)
  BY <1>2 DEF Whole, Shorter
<1>4. Open(b, j)
  BY <1>2 DEF Open, Shorter
<1>5. b[i].record.seq < b[j].record.seq
  BY <1>1, <1>3, <1>4 DEF Ordered
<1>. QED BY <1>5 DEF Shorter

(* A piece that is appended with the next number continues the order. *)
LEMMA AppendOrdered ==
  ASSUME NEW a \in Seq(Pieces), NEW n \in Nat, NEW cmd \in Writes,
         NEW part \in {"whole", "bare", "torn"},
         Ordered(a), Continued(a, n)
  PROVE  LET b == Append(a, Piece([seq |-> n, cmd |-> cmd], part))
         IN  Ordered(b) /\ Continued(b, n + 1)
<1>. DEFINE piece == Piece([seq |-> n, cmd |-> cmd], part)
            b == Append(a, piece)
<1>1. piece \in Pieces /\ piece.record.seq = n
  BY DEF Piece, Pieces
<1>. HIDE DEF piece
<1>2. /\ b \in Seq(Pieces) /\ Len(b) = Len(a) + 1 /\ Len(a) \in Nat
      /\ \A i \in 1 .. Len(a) : b[i] = a[i]
      /\ b[Len(a) + 1] = piece
  BY <1>1
<1>. HIDE DEF b
<1>3. \A i \in 1 .. Len(a) : i = 1 \/ i - 1 \in 1 .. Len(a)
  BY <1>2
<1>4. ASSUME NEW i \in 1 .. Len(a)
      PROVE  /\ Whole(b, i) => Whole(a, i)
             /\ Open(b, i) => Open(a, i)
             /\ Whole(b, i) => Parses(a, i)
             /\ Parses(b, i) => Whole(b, i)
  BY <1>2, <1>3 DEF Whole, Open, Parses
<1>5. ASSUME NEW i \in DOMAIN b, NEW j \in DOMAIN b, i < j, Whole(b, i), Open(b, j)
      PROVE  b[i].record.seq < b[j].record.seq
  <2>1. i \in 1 .. Len(a) /\ j \in 1 .. Len(a) + 1
    BY <1>2, <1>5
  <2>2. CASE j = Len(a) + 1
    <3>1. a[i].record.seq < n
      BY <1>4, <1>5, <2>1 DEF Continued
    <3>. QED BY <1>1, <1>2, <2>1, <2>2, <3>1
  <2>3. CASE j \in 1 .. Len(a)
    BY <1>2, <1>4, <1>5, <2>1, <2>3 DEF Ordered
  <2>. QED BY <2>1, <2>2, <2>3
<1>6. ASSUME NEW i \in DOMAIN b, Parses(b, i)
      PROVE  b[i].record.seq < n + 1
  <2>1. i \in 1 .. Len(a) + 1
    BY <1>2
  <2>2. CASE i = Len(a) + 1
    BY <1>1, <1>2, <2>2
  <2>3. CASE i \in 1 .. Len(a)
    <3>1. a[i].record.seq < n /\ a[i] \in Pieces
      BY <1>4, <1>6, <2>3 DEF Continued
    <3>. QED BY <1>2, <2>3, <3>1 DEF Pieces
  <2>. QED BY <2>1, <2>2, <2>3
<1>. QED BY <1>5, <1>6 DEF Ordered, Continued, b, piece

\* The inductive invariant of the numbers.
Numbered == Ordered(file) /\ (mode # "down" => Continued(file, aof.next))

LEMMA NumberedStep == TypeOK /\ Numbered /\ [Next]_vars => Numbered'
<1>. SUFFICES ASSUME TypeOK, Numbered, [Next]_vars  PROVE Numbered'
  OBVIOUS
<1>0. /\ file \in Seq(Pieces) /\ aof.next \in Nat /\ Ordered(file)
  BY DEF TypeOK, Numbered
<1>1. CASE UNCHANGED <<file, mode, aof>>
  BY <1>1 DEF Numbered
<1>2. CASE Tick \/ ReplayLine \/ Cycle \/ UNCHANGED vars \/ \E cmd \in Commands : Execute(cmd)
  BY <1>1, <1>2 DEF Tick, ReplayLine, Cycle, Execute, vars, disk
<1>3. CASE Serve
  BY <1>3 DEF Serve, Numbered, disk
<1>4. CASE Start
  <2>1. \A i \in DOMAIN file : file[i].record.seq \in Nat
    <3>1. ASSUME NEW i \in DOMAIN file  PROVE file[i].record.seq \in Nat
      <4>1. file[i] \in Pieces
        BY <1>0
      <4>. QED BY <4>1 DEF Pieces
    <3>. QED BY <3>1
  <2>2. Continued(file, NextSequence(file))
    BY <1>0, <2>1, NextSequenceOK DEF Continued
  <2>3. file' = file /\ aof'.next = NextSequence(file)
    BY <1>4 DEF Start, disk
  <2>. QED BY <1>0, <2>2, <2>3 DEF Numbered
<1>5. CASE Log
  <2>1. /\ pending \in Writes /\ mode = "serving" /\ mode' = mode
        /\ file' = Append(file, Piece([seq |-> aof.next, cmd |-> pending], "whole"))
        /\ aof'.next = aof.next + 1
    BY <1>5 DEF Log, TypeOK
  <2>2. Continued(file, aof.next)
    BY <2>1 DEF Numbered
  <2>3. Ordered(file') /\ Continued(file', aof'.next)
    BY <1>0, <2>1, <2>2, AppendOrdered
  <2>. QED BY <2>3 DEF Numbered
<1>6. ASSUME NEW rest \in AfterDeath
      PROVE  Ordered(rest.file) /\ rest.file \in Seq(Pieces)
  <2>1. CASE rest.file = file
    BY <1>0, <2>1
  <2>2. ASSUME NEW part \in {"whole", "bare", "torn"}, pending \in Writes, pending # None,
               rest.file = Append(file, Piece([seq |-> aof.next, cmd |-> pending], part))
        PROVE  Ordered(rest.file)
    <3>1. Continued(file, aof.next)
      BY <2>2 DEF Numbered, TypeOK
    <3>. QED BY <1>0, <2>2, <3>1, AppendOrdered
  <2>. QED BY <2>1, <2>2, DeathLeaves
<1>7. CASE ProcessCrash
  BY <1>6, <1>7 DEF ProcessCrash, Down, Numbered
<1>8. CASE PowerLoss
  <2>1. PICK rest \in AfterPowerLoss : file' = rest.file
    BY <1>8 DEF PowerLoss
  <2>2. PICK base \in AfterDeath : Shorter(rest.file, base.file) /\ rest.file \in Seq(Pieces)
    BY PowerLossLeaves
  <2>3. Ordered(rest.file)
    BY <1>6, <2>2, ShorterOrdered
  <2>. QED BY <1>8, <2>1, <2>3 DEF PowerLoss, Down, Numbered
<1>9. CASE Stop
  BY <1>0, <1>9 DEF Stop, Down, Numbered
<1>. QED BY <1>2, <1>3, <1>4, <1>5, <1>7, <1>8, <1>9 DEF Next

(* The numbers that a reader finds increase along the file and the next    *)
(* one continues them: no restart, after whatever loss, gives a record a   *)
(* number that a record before it has.                                     *)
THEOREM NumbersIncrease == Spec => []SequencesIncrease
<1>1. Init => TypeOK /\ Numbered
  BY InitTypes DEF Init, Numbered, Ordered
<1>2. TypeOK /\ Numbered => SequencesIncrease
  <2>. SUFFICES ASSUME TypeOK, Numbered  PROVE SequencesIncrease
    OBVIOUS
  <2>1. file \in Seq(Pieces) /\ DOMAIN file = 1 .. Len(file) /\ Len(file) \in Nat
    BY DEF TypeOK
  <2>2. ASSUME NEW i \in DOMAIN file, NEW j \in DOMAIN file,
               Parses(file, i), Parses(file, j), i < j
        PROVE  file[i].record.seq < file[j].record.seq
    <3>1. Whole(file, i) /\ Open(file, j)
      BY <2>1, <2>2 DEF Parses, Whole, Open
    <3>. QED BY <2>2, <3>1 DEF Numbered, Ordered
  <2>. QED BY <2>2 DEF SequencesIncrease, Numbered, Continued
<1>. QED BY <1>1, <1>2, TypeStep, NumberedStep, PTL DEF Spec

-----------------------------------------------------------------------------
(* Losses. *)

LEMMA UnsyncedFinite ==
  ASSUME TypeOK
  PROVE  /\ IsFiniteSet(answered) /\ IsFiniteSet(Unsynced)
         /\ Cardinality(answered) \in Nat /\ Cardinality(Unsynced) \in Nat
<1>1. Len(file) \in Nat /\ answered \in SUBSET (1 .. Len(file))
  BY DEF TypeOK
<1>2. IsFiniteSet(1 .. Len(file))
  BY <1>1, FS_Interval
<1>3. IsFiniteSet(answered)
  BY <1>1, <1>2, FS_Subset
<1>4. Unsynced \in SUBSET answered
  BY DEF Unsynced
<1>5. IsFiniteSet(Unsynced)
  BY <1>3, <1>4, FS_Subset
<1>. QED BY <1>3, <1>5, FS_CardinalityType

\* What the deaths so far may have left unsynced.
LEMMA DebtGrows ==
  ASSUME NEW c \in Nat
  PROVE  /\ EveryN - 1 \in Nat /\ c * (EveryN - 1) \in Nat
         /\ (c + 1) * (EveryN - 1) = c * (EveryN - 1) + (EveryN - 1)
<1>. DEFINE e == EveryN - 1
<1>1. e \in Nat
  BY WorkerAssumption
<1>. HIDE DEF e
<1>2. c * e \in Nat /\ (c + 1) * e = c * e + e
  BY <1>1
<1>. QED BY <1>1, <1>2 DEF e

(* A step after which all is synced, or nothing more is owed.              *)
LEMMA NothingMoreOwed ==
  ASSUME TypeOK, Owed, policy' = policy, aof'.writes \in Nat,
         crashes' \in Nat, crashes' >= crashes,
         policy = "every_n" => aof'.writes < EveryN,
         mode' = "down" => aof'.writes = 0,
         \/ Unsynced' = {}
         \/ /\ Unsynced' = Unsynced
            /\ policy = "every_n" =>
                 crashes * (EveryN - 1) + aof.writes <= crashes' * (EveryN - 1) + aof'.writes
  PROVE  Owed'
<1>1. crashes' * (EveryN - 1) \in Nat /\ crashes * (EveryN - 1) \in Nat /\ aof.writes \in Nat
  <2>1. crashes \in Nat /\ aof.writes \in Nat
    BY WorkerAssumption DEF TypeOK
  <2>. QED BY <2>1, DebtGrows
<1>. DEFINE old == crashes * (EveryN - 1)
            new == crashes' * (EveryN - 1)
<1>2. Cardinality(Unsynced) \in Nat
  BY UnsyncedFinite
<1>. HIDE DEF old, new
<1>3. CASE Unsynced' = {}
  BY <1>1, <1>3, FS_EmptySet DEF Owed, new
<1>4. CASE Unsynced' = Unsynced /\ Unsynced' # {} /\ policy = "every_n"
  <2>1. /\ Cardinality(Unsynced) <= old + aof.writes
        /\ old + aof.writes <= new + aof'.writes
    BY <1>4 DEF Owed, old, new
  <2>2. Cardinality(Unsynced') <= new + aof'.writes
    BY <1>1, <1>2, <1>4, <2>1 DEF old, new
  <2>. QED BY <1>4, <2>2 DEF Owed, new
<1>5. CASE Unsynced' = Unsynced /\ policy # "every_n"
  BY <1>5 DEF Owed
<1>. QED BY <1>3, <1>4, <1>5

LEMMA OwedStep == TypeOK /\ Owed /\ [Next]_vars => Owed'
<1>. SUFFICES ASSUME TypeOK, Owed, [Next]_vars  PROVE Owed'
  OBVIOUS
<1>0. /\ file \in Seq(Pieces) /\ Len(file) \in Nat /\ aof.writes \in Nat
      /\ synced \in 0 .. Len(file) /\ answered \subseteq 1 .. Len(file)
      /\ crashes \in Nat /\ EveryN \in Nat \ {0}
  BY WorkerAssumption DEF TypeOK
<1>1. ASSUME UNCHANGED <<file, synced, answered, policy, crashes>>, aof'.writes = aof.writes,
             mode' = "down" => mode = "down"
      PROVE  Owed'
  BY <1>1 DEF Owed, Unsynced
<1>2. CASE Tick \/ ReplayLine \/ Cycle \/ Serve \/ UNCHANGED vars \/ \E cmd \in Commands : Execute(cmd)
  BY <1>1, <1>2 DEF Tick, ReplayLine, Cycle, Execute, Serve, vars, disk, history
<1>3. ASSUME aof'.writes = 0, policy' = policy, crashes' \in {crashes, crashes + 1},
             \/ Unsynced' = {}
             \/ /\ Unsynced' = Unsynced
                /\ crashes' = crashes => policy # "every_n" \/ aof.writes = 0
      PROVE  Owed'
  <2>1. crashes' \in Nat /\ crashes' >= crashes
    BY <1>0, <1>3
  <2>2. policy = "every_n" => aof.writes < EveryN
    BY DEF Owed
  <2>3. ASSUME policy = "every_n", Unsynced' = Unsynced
        PROVE  crashes * (EveryN - 1) + aof.writes <= crashes' * (EveryN - 1) + aof'.writes
               \/ Unsynced' = {}
    <3>1. CASE crashes' = crashes
      BY <1>0, <1>3, <2>3, <3>1, DebtGrows
    <3>2. CASE crashes' = crashes + 1
      <4>. DEFINE old == crashes * (EveryN - 1)
      <4>1. old \in Nat /\ (crashes + 1) * (EveryN - 1) = old + (EveryN - 1)
        BY <1>0, DebtGrows
      <4>. HIDE DEF old
      <4>2. old + aof.writes <= old + (EveryN - 1)
        BY <1>0, <2>2, <2>3, <4>1
      <4>3. crashes' * (EveryN - 1) + aof'.writes = old + (EveryN - 1)
        BY <1>0, <1>3, <3>2, <4>1
      <4>. QED BY <4>2, <4>3 DEF old
    <3>. QED BY <1>3, <3>1, <3>2
  <2>. QED BY <1>0, <1>3, <2>1, <2>3, NothingMoreOwed
<1>4. CASE Start
  <2>1. aof'.writes = 0 /\ aof.writes = 0
    BY <1>4 DEF Start, Owed
  <2>. QED BY <1>1, <1>4, <2>1 DEF Start, disk, history
<1>5. CASE Stop
  <2>1. /\ aof'.writes = 0 /\ policy' = policy /\ crashes' = crashes /\ file' = file
        /\ answered' = answered
        /\ synced' = IF FsyncsAtClose(policy, aof.writes) THEN Len(file) ELSE synced
    BY <1>5 DEF Stop, Down, history
  <2>2. CASE FsyncsAtClose(policy, aof.writes)
    <3>1. Unsynced' = {}
      BY <1>0, <2>1, <2>2 DEF Unsynced
    <3>. QED BY <1>3, <2>1, <3>1
  <2>3. CASE ~ FsyncsAtClose(policy, aof.writes)
    <3>1. Unsynced' = Unsynced
      BY <2>1, <2>3 DEF Unsynced
    <3>2. policy # "every_n" \/ aof.writes = 0
      BY <1>0, <2>3 DEF FsyncsAtClose
    <3>. QED BY <1>3, <2>1, <3>1, <3>2
  <2>. QED BY <2>2, <2>3
<1>6. CASE ProcessCrash
  <2>1. /\ aof'.writes = 0 /\ policy' = policy /\ crashes' = crashes + 1
        /\ answered' = answered /\ synced' = synced
    BY <1>6 DEF ProcessCrash, Down
  <2>2. Len(file') \in Nat /\ Len(file) <= Len(file')
    <3>1. PICK rest \in AfterDeath : file' = rest.file
      BY <1>6 DEF ProcessCrash
    <3>. QED BY <3>1, DeathLeaves
  <2>3. Unsynced' = Unsynced
    BY <1>0, <2>1, <2>2 DEF Unsynced
  <2>4. crashes' # crashes
    BY <1>0, <2>1
  <2>. QED BY <1>3, <2>1, <2>3, <2>4
<1>7. CASE PowerLoss
  <2>1. /\ aof'.writes = 0 /\ policy' = policy /\ crashes' = crashes + 1
        /\ synced' = Len(file')
    BY <1>7 DEF PowerLoss, Down
  <2>2. Len(file') \in Nat
    <3>1. PICK rest \in AfterPowerLoss : file' = rest.file
      BY <1>7 DEF PowerLoss
    <3>. QED BY <3>1, PowerLossLeaves
  <2>3. Unsynced' = {}
    BY <2>1, <2>2 DEF Unsynced
  <2>. QED BY <1>3, <2>1, <2>3
<1>8. CASE Log
  <2>. DEFINE fsync == Fsyncs(policy, aof.writes + 1, EveryN)
  <2>1. /\ policy' = policy /\ crashes' = crashes /\ mode' = "serving"
        /\ Len(file') = Len(file) + 1
        /\ answered' = answered \cup {Len(file) + 1}
        /\ synced' = IF fsync THEN Len(file) + 1 ELSE synced
        /\ aof'.writes = IF fsync THEN 0 ELSE aof.writes + 1
    <3>1. Len(file') = Len(file) + 1
      BY <1>0, <1>8 DEF Log
    <3>. QED BY <1>8, <3>1 DEF Log, TypeOK
  <2>. HIDE DEF fsync
  <2>2. CASE fsync
    <3>1. Unsynced' = {}
      BY <1>0, <2>1, <2>2 DEF Unsynced
    <3>2. aof'.writes = 0 /\ crashes' \in Nat /\ crashes' >= crashes
      BY <1>0, <2>1, <2>2
    <3>. QED BY <1>0, <2>1, <3>1, <3>2, NothingMoreOwed
  <2>3. CASE ~ fsync
    <3>1. policy # "always" /\ (policy = "every_n" => aof.writes + 1 < EveryN)
      BY <1>0, <2>3 DEF fsync, Fsyncs
    <3>2. Unsynced' = Unsynced \cup {Len(file) + 1}
      BY <1>0, <2>1, <2>3 DEF Unsynced
    <3>3. Cardinality(Unsynced') <= Cardinality(Unsynced) + 1 /\ Cardinality(Unsynced') \in Nat
          /\ Cardinality(Unsynced) \in Nat
      <4>. DEFINE before == Unsynced
                  after  == Unsynced'
                  last   == Len(file) + 1
      <4>1. IsFiniteSet(before) /\ Cardinality(before) \in Nat
        BY UnsyncedFinite
      <4>2. after = before \cup {last}
        BY <3>2
      <4>. HIDE DEF before, after, last
      <4>3. Cardinality(after) \in {Cardinality(before), Cardinality(before) + 1}
        BY <4>1, <4>2, FS_AddElement
      <4>. QED BY <4>1, <4>3 DEF before, after
    <3>4. aof'.writes = aof.writes + 1
      BY <2>1, <2>3
    <3>5. ASSUME policy = "every_n"
          PROVE  Cardinality(Unsynced') <= crashes' * (EveryN - 1) + aof'.writes
      <4>. DEFINE old == crashes * (EveryN - 1)
      <4>1. old \in Nat /\ Cardinality(Unsynced) <= old + aof.writes
        BY <1>0, <3>5, DebtGrows DEF Owed
      <4>. HIDE DEF old
      <4>2. Cardinality(Unsynced') <= old + aof'.writes
        BY <1>0, <3>3, <3>4, <4>1
      <4>. QED BY <2>1, <4>2 DEF old
    <3>. QED BY <2>1, <3>1, <3>4, <3>5 DEF Owed
  <2>. QED BY <2>2, <2>3
<1>. QED BY <1>2, <1>4, <1>5, <1>6, <1>7, <1>8 DEF Next

(* What a death may cost of the answered writes: nothing with "always",    *)
(* and with "every_n" less than n for this life of the process and for     *)
(* each earlier one; with any n and after any number of deaths.            *)
THEOREM LossesBounded == Spec => LossBounded
<1>. DEFINE Bounded == Cardinality(answered \ answered')
                         <= CASE policy = "always"  -> 0
                              [] policy = "every_n" -> (crashes + 1) * (EveryN - 1)
                              [] policy = "never"   -> Cardinality(answered)
<1>1. Init => TypeOK /\ Owed
  <2>. SUFFICES ASSUME Init  PROVE TypeOK /\ Owed
    OBVIOUS
  <2>1. TypeOK
    BY InitTypes
  <2>2. Unsynced = {} /\ crashes = 0 /\ aof.writes = 0
    BY DEF Init, Unsynced
  <2>3. 0 * (EveryN - 1) + 0 = 0 /\ 0 < EveryN
    BY WorkerAssumption
  <2>. QED BY <2>1, <2>2, <2>3, FS_EmptySet DEF Owed
<1>2. TypeOK /\ Owed /\ [Next]_vars => [Bounded]_vars
  <2>. SUFFICES ASSUME TypeOK, Owed, Next  PROVE Bounded
    OBVIOUS
  <2>. DEFINE lost == answered \ answered'
  <2>0. /\ crashes \in Nat /\ (crashes + 1) * (EveryN - 1) \in Nat
        /\ policy \in {"always", "every_n", "never"}
        /\ Len(file) \in Nat /\ answered \subseteq 1 .. Len(file)
        /\ aof.writes \in Nat
    <3>1. crashes \in Nat
      BY WorkerAssumption DEF TypeOK
    <3>2. (crashes + 1) * (EveryN - 1) \in Nat
      BY <3>1, DebtGrows
    <3>. QED BY <3>1, <3>2, WorkerAssumption DEF TypeOK
  <2>1. lost \in SUBSET Unsynced
    <3>1. CASE answered \subseteq answered'
      BY <3>1
    <3>2. CASE PowerLoss
      <4>1. PICK rest \in AfterPowerLoss : file' = rest.file
        BY <3>2 DEF PowerLoss
      <4>2. file' \in Seq(Pieces) /\ synced <= Len(file')
        BY <4>1, PowerLossLeaves
      <4>3. answered' = answered \cap 1 .. Len(file') /\ Len(file') \in Nat
        BY <3>2, <4>2 DEF PowerLoss
      <4>. QED BY <2>0, <4>2, <4>3 DEF Unsynced, TypeOK
    <3>. QED BY <3>1, <3>2 DEF Next, Tick, Start, ReplayLine, Serve, Execute, Log,
                               Cycle, Stop, ProcessCrash, history
  <2>. HIDE DEF lost
  <2>2. /\ Cardinality(lost) \in Nat /\ Cardinality(Unsynced) \in Nat
        /\ Cardinality(lost) <= Cardinality(Unsynced)
    BY <2>1, UnsyncedFinite, FS_Subset, FS_CardinalityType
  <2>3. policy = "always" => Cardinality(lost) = 0
    <3>1. policy = "always" => lost = {}
      BY <2>1 DEF Owed
    <3>. QED BY <3>1, FS_EmptySet
  <2>4. policy = "every_n" => Cardinality(lost) <= (crashes + 1) * (EveryN - 1)
    <3>. DEFINE old == crashes * (EveryN - 1)
    <3>1. old \in Nat /\ (crashes + 1) * (EveryN - 1) = old + (EveryN - 1)
          /\ EveryN \in Nat
      BY <2>0, DebtGrows, WorkerAssumption
    <3>2. policy = "every_n" => Cardinality(Unsynced) <= old + aof.writes /\ aof.writes < EveryN
      BY DEF Owed
    <3>. HIDE DEF old
    <3>3. policy = "every_n" => Cardinality(lost) <= old + (EveryN - 1)
      BY <2>0, <2>2, <3>1, <3>2
    <3>. QED BY <3>1, <3>3
  <2>5. Cardinality(lost) <= Cardinality(answered)
    <3>1. lost \in SUBSET answered
      BY <2>1 DEF Unsynced
    <3>. QED BY <3>1, UnsyncedFinite, FS_Subset
  <2>. QED BY <2>0, <2>2, <2>3, <2>4, <2>5 DEF lost
<1>. QED BY <1>1, <1>2, TypeStep, OwedStep, PTL DEF Spec, LossBounded
-----------------------------------------------------------------------------
(* What the log holds of each key.                                         *)
(*                                                                         *)
(* A file reflects a store (or what clients were told of one) if the last  *)
(* record of each key explains what the store has of it.  The invariant    *)
(* Recalled says that every beginning of the file reflects what clients    *)
(* had seen when it was the file, that the file with the write in progress *)
(* reflects the store, and during a replay that the part already replayed  *)
(* does; whatever a death leaves is one of these beginnings, so that the   *)
(* replay comes back to it.                                                *)

RecordAt(f, i) == f[i].record.cmd
Lifetime(f, i) == RecordAt(f, i).arg * Second

\* The records of key k among the first n pieces, and the last one.
Records(f, n, k)    == {i \in 1 .. n : f[i].part # "torn" /\ RecordAt(f, i).key = k}
Lasting(f, n, k, i) == i \in Records(f, n, k) /\ \A j \in Records(f, n, k) : j <= i

\* The key was set to v, and given lifetimes at most since.
Lives(f, n, k, v) ==
  \E i \in Records(f, n, k) :
    /\ RecordAt(f, i).op = "SET" /\ RecordAt(f, i).arg = v
    /\ \A j \in Records(f, n, k) :
         j > i => RecordAt(f, j).op = "EXPIRE" /\ RecordAt(f, j).arg > 0

\* Every piece before the last of the first n ends its line.
Sound(f, n) == \A i \in 1 .. n - 1 : f[i].part = "whole"

\* Key k in c, a store that executed commands up to time t.
ReflectsKey(f, n, c, t, k) ==
  /\ k \in DOMAIN c.expiresAt => k \in DOMAIN c.data
  /\ k \in DOMAIN c.data => Lives(f, n, k, c.data[k])
  /\ \A i \in Records(f, n, k) : Lasting(f, n, k, i) =>
       /\ RecordAt(f, i).op = "SET" => k \in DOMAIN c.data /\ k \notin DOMAIN c.expiresAt
       /\ RecordAt(f, i).op = "EXPIRE" /\ k \in DOMAIN c.data =>
            /\ k \in DOMAIN c.expiresAt /\ c.expiresAt[k] \in Int
            /\ c.expiresAt[k] <= t + Lifetime(f, i)
Reflects(f, n, c, t) == \A k \in Keys : ReflectsKey(f, n, c, t, k)

\* Some lifetime of the key is over after so long.
Outrun(f, n, k, elapsed) ==
  \E i \in Records(f, n, k) : /\ RecordAt(f, i).op = "EXPIRE" /\ RecordAt(f, i).arg > 0
                              /\ Lifetime(f, i) <= elapsed

\* Key k in c, a store that replayed the first n pieces from one time to another.
RebuiltKey(f, n, c, from, t, k) ==
  /\ \A i \in Records(f, n, k) :
       Lasting(f, n, k, i) /\ RecordAt(f, i).op = "EXPIRE" /\ k \in DOMAIN c.data =>
         from + Lifetime(f, i) <= c.expiresAt[k]
  /\ \A v \in Values :
       Lives(f, n, k, v) /\ k \notin DOMAIN c.data => Outrun(f, n, k, t - from)

(* What a record may be. *)
LEMMA RecordFacts ==
  ASSUME NEW f \in Seq(Pieces), NEW i \in 1 .. Len(f)
  PROVE  /\ RecordAt(f, i) \in Writes /\ RecordAt(f, i).key \in Keys
         /\ RecordAt(f, i).op \in {"SET", "DEL", "EXPIRE"}
         /\ RecordAt(f, i).op = "SET" => RecordAt(f, i).arg \in Values
         /\ RecordAt(f, i).op = "EXPIRE" =>
              /\ RecordAt(f, i).arg \in Int /\ RecordAt(f, i).arg # None
              /\ Lifetime(f, i) \in Int
         /\ f[i].part \in {"whole", "bare", "torn"}
<1>. DEFINE cmd == RecordAt(f, i)
<1>1. f[i] \in Pieces
  OBVIOUS
<1>2. cmd \in Writes /\ f[i].part \in {"whole", "bare", "torn"}
  BY <1>1 DEF Pieces, RecordAt
<1>. HIDE DEF cmd
<1>3. /\ cmd.key \in Keys /\ cmd.op \in {"SET", "DEL", "EXPIRE"}
      /\ cmd.op = "SET" => cmd.arg \in Values
      /\ cmd.op = "EXPIRE" => cmd.arg \in Int /\ cmd.arg # None
  BY <1>2, WorkerAssumption DEF Writes, Commands
<1>4. cmd.arg \in Int => cmd.arg * Second \in Int
  BY SecondAssumption
<1>. QED BY <1>2, <1>3, <1>4 DEF cmd, Lifetime

(* The records of k, with one more piece.                                  *)
LEMMA RecordsNext ==
  ASSUME NEW f, NEW n \in Nat \ {0}, NEW k
  PROVE  /\ n \notin Records(f, n, k) => Records(f, n, k) = Records(f, n - 1, k)
         /\ n \in Records(f, n, k) => Records(f, n, k) = Records(f, n - 1, k) \cup {n}
         /\ \A i \in Records(f, n - 1, k) : i \in Int /\ i < n
<1>1. 1 .. n = (1 .. n - 1) \cup {n}
  OBVIOUS
<1>2. \A i \in 1 .. n - 1 : i \in Int /\ i < n
  OBVIOUS
<1>. QED BY <1>1, <1>2 DEF Records

LEMMA RecordsKept ==
  ASSUME NEW f, NEW n \in Nat \ {0}, NEW k
  PROVE  Records(f, n - 1, k) \subseteq Records(f, n, k)
<1>1. 1 .. n - 1 \subseteq 1 .. n
  OBVIOUS
<1>. QED BY <1>1 DEF Records

(* A key with records has a last one.                                      *)
LEMMA LastRecord ==
  ASSUME NEW f, NEW n \in Nat, NEW k, Records(f, n, k) # {}
  PROVE  \E i \in Records(f, n, k) : Lasting(f, n, k, i)
<1>. DEFINE R == Records(f, n, k)
<1>1. R \in SUBSET (1 .. n) /\ IsFiniteSet(1 .. n)
  BY FS_Interval DEF Records
<1>. HIDE DEF R
<1>2. IsFiniteSet(R) /\ R \subseteq Int
  <2>1. IsFiniteSet(R)
    BY <1>1, FS_Subset
  <2>. QED BY <1>1, <2>1
<1>3. R # {}
  BY DEF R
<1>4. Max(R) \in R /\ \A j \in R : j <= Max(R)
  BY <1>2, <1>3, MaxOK
<1>. QED BY <1>4 DEF Lasting, R
(* A piece that is no record of the key changes nothing for it.            *)
LEMMA KeySkipped ==
  ASSUME NEW f, NEW n \in Nat \ {0}, NEW k, n \notin Records(f, n, k)
  PROVE  /\ \A c, t : ReflectsKey(f, n - 1, c, t, k) => ReflectsKey(f, n, c, t, k)
         /\ \A c, from, t : RebuiltKey(f, n - 1, c, from, t, k) => RebuiltKey(f, n, c, from, t, k)
<1>1. Records(f, n, k) = Records(f, n - 1, k)
  BY RecordsNext
<1>2. /\ \A i : Lasting(f, n, k, i) = Lasting(f, n - 1, k, i)
      /\ \A v : Lives(f, n, k, v) = Lives(f, n - 1, k, v)
      /\ \A e : Outrun(f, n, k, e) = Outrun(f, n - 1, k, e)
  BY <1>1 DEF Lasting, Lives, Outrun
<1>. QED BY <1>1, <1>2 DEF ReflectsKey, RebuiltKey

(* What expires leaves the rest as it was. *)
LEMMA SameReflects ==
  ASSUME NEW f \in Seq(Pieces), NEW n \in 0 .. Len(f), NEW k, NEW c, NEW d,
         NEW t \in Int, NEW u \in Int, t <= u,
         ReflectsKey(f, n, c, t, k), SameOrExpired(c, d, k, u)
  PROVE  ReflectsKey(f, n, d, u, k)
<1>1. CASE k \notin DOMAIN d.data /\ k \notin DOMAIN d.expiresAt /\ k \in DOMAIN c.expiresAt
  BY <1>1 DEF ReflectsKey
<1>2. CASE /\ k \in DOMAIN d.data <=> k \in DOMAIN c.data
           /\ k \in DOMAIN d.expiresAt <=> k \in DOMAIN c.expiresAt
           /\ k \in DOMAIN c.data => d.data[k] = c.data[k]
           /\ k \in DOMAIN c.expiresAt => d.expiresAt[k] = c.expiresAt[k]
  <2>1. ASSUME NEW i \in Records(f, n, k), Lasting(f, n, k, i)
        PROVE  /\ RecordAt(f, i).op = "SET" => k \in DOMAIN d.data /\ k \notin DOMAIN d.expiresAt
               /\ RecordAt(f, i).op = "EXPIRE" /\ k \in DOMAIN d.data =>
                    /\ k \in DOMAIN d.expiresAt /\ d.expiresAt[k] \in Int
                    /\ d.expiresAt[k] <= u + Lifetime(f, i)
    <3>1. i \in 1 .. Len(f)
      BY DEF Records
    <3>2. RecordAt(f, i).op = "EXPIRE" => Lifetime(f, i) \in Int
      BY <3>1, RecordFacts
    <3>3. /\ RecordAt(f, i).op = "SET" => k \in DOMAIN c.data /\ k \notin DOMAIN c.expiresAt
          /\ RecordAt(f, i).op = "EXPIRE" /\ k \in DOMAIN c.data =>
               /\ k \in DOMAIN c.expiresAt /\ c.expiresAt[k] \in Int
               /\ c.expiresAt[k] <= t + Lifetime(f, i)
      BY <2>1 DEF ReflectsKey
    <3>. QED BY <1>2, <3>2, <3>3
  <2>. QED BY <1>2, <2>1 DEF ReflectsKey
<1>. QED BY <1>1, <1>2 DEF SameOrExpired

LEMMA SameRebuilt ==
  ASSUME NEW f \in Seq(Pieces), NEW n \in 0 .. Len(f), NEW k, NEW c, NEW d,
         NEW from \in Int, NEW t \in Int, NEW u \in Int,
         ReflectsKey(f, n, c, t, k), RebuiltKey(f, n, c, from, t, k), t <= u,
         SameOrExpired(c, d, k, u)
  PROVE  RebuiltKey(f, n, d, from, u, k)
<1>1. ASSUME NEW v, Lives(f, n, k, v)
      PROVE  \E i \in Records(f, n, k) :
               /\ Lasting(f, n, k, i)
               /\ RecordAt(f, i).op = "SET" \/ (RecordAt(f, i).op = "EXPIRE" /\ RecordAt(f, i).arg > 0)
  <2>1. PICK j \in Records(f, n, k) :
               /\ RecordAt(f, j).op = "SET" /\ RecordAt(f, j).arg = v
               /\ \A l \in Records(f, n, k) :
                    l > j => RecordAt(f, l).op = "EXPIRE" /\ RecordAt(f, l).arg > 0
    BY <1>1 DEF Lives
  <2>2. PICK i \in Records(f, n, k) : Lasting(f, n, k, i)
    BY LastRecord
  <2>3. i \in Int /\ j \in Int /\ j <= i
    BY <2>2 DEF Lasting, Records
  <2>4. i = j \/ i > j
    BY <2>3
  <2>. QED BY <2>1, <2>2, <2>4
<1>2. ASSUME NEW v \in Values, Lives(f, n, k, v), k \in DOMAIN c.expiresAt, k \in DOMAIN c.data,
             c.expiresAt[k] <= u
      PROVE  Outrun(f, n, k, u - from)
  <2>1. PICK i \in Records(f, n, k) :
               /\ Lasting(f, n, k, i)
               /\ RecordAt(f, i).op = "SET" \/ (RecordAt(f, i).op = "EXPIRE" /\ RecordAt(f, i).arg > 0)
    BY <1>1, <1>2
  <2>2. RecordAt(f, i).op = "EXPIRE" /\ RecordAt(f, i).arg > 0
    BY <1>2, <2>1 DEF ReflectsKey
  <2>3. c.expiresAt[k] \in Int /\ from + Lifetime(f, i) <= c.expiresAt[k]
    BY <1>2, <2>1, <2>2 DEF ReflectsKey, RebuiltKey
  <2>4. i \in 1 .. Len(f)
    BY DEF Records
  <2>5. Lifetime(f, i) \in Int
    BY <2>2, <2>4, RecordFacts
  <2>6. Lifetime(f, i) <= u - from
    BY <1>2, <2>3, <2>5
  <2>. QED BY <2>2, <2>6 DEF Outrun
<1>3. Outrun(f, n, k, t - from) => Outrun(f, n, k, u - from)
  <2>1. ASSUME NEW i \in Records(f, n, k), RecordAt(f, i).op = "EXPIRE", Lifetime(f, i) <= t - from
        PROVE  Lifetime(f, i) <= u - from
    <3>1. i \in 1 .. Len(f)
      BY DEF Records
    <3>2. Lifetime(f, i) \in Int
      BY <2>1, <3>1, RecordFacts
    <3>. QED BY <2>1, <3>2
  <2>. QED BY <2>1 DEF Outrun
<1>4. ASSUME NEW v \in Values, Lives(f, n, k, v), k \notin DOMAIN d.data
      PROVE  Outrun(f, n, k, u - from)
  <2>1. CASE k \notin DOMAIN c.data
    BY <1>3, <1>4, <2>1 DEF RebuiltKey
  <2>2. CASE k \in DOMAIN c.data
    BY <1>2, <1>4, <2>2 DEF SameOrExpired
  <2>. QED BY <2>1, <2>2
<1>5. ASSUME NEW i \in Records(f, n, k), Lasting(f, n, k, i), RecordAt(f, i).op = "EXPIRE",
             k \in DOMAIN d.data
      PROVE  from + Lifetime(f, i) <= d.expiresAt[k]
  <2>1. k \in DOMAIN c.data
    BY <1>5 DEF SameOrExpired
  <2>2. k \in DOMAIN c.expiresAt /\ from + Lifetime(f, i) <= c.expiresAt[k]
    BY <1>5, <2>1 DEF ReflectsKey, RebuiltKey
  <2>. QED BY <1>5, <2>2 DEF SameOrExpired
<1>. QED BY <1>4, <1>5 DEF RebuiltKey

(* The key of the new record. *)
LEMMA RecordOfKey ==
  ASSUME NEW f, NEW n \in Nat \ {0}, NEW k, n \in Records(f, n, k)
  PROVE  /\ \A i \in Records(f, n, k) : Lasting(f, n, k, i) => i = n
         /\ RecordAt(f, n).op = "SET" => Lives(f, n, k, RecordAt(f, n).arg)
         /\ RecordAt(f, n).op = "EXPIRE" /\ RecordAt(f, n).arg > 0 =>
              \A v : Lives(f, n, k, v) <=> Lives(f, n - 1, k, v)
         /\ RecordAt(f, n).op = "DEL" => \A v : ~ Lives(f, n, k, v)
         /\ RecordAt(f, n).op = "EXPIRE" /\ ~ (RecordAt(f, n).arg > 0) => \A v : ~ Lives(f, n, k, v)
<1>. DEFINE R == Records(f, n, k)
            S == Records(f, n - 1, k)
<1>1. R = S \cup {n} /\ (\A i \in S : i \in Int /\ i < n) /\ n \in R
  BY RecordsNext
<1>. HIDE DEF R, S
<1>2. \A i \in R : i \in Int /\ i <= n
  BY <1>1
<1>3. \A i \in R : Lasting(f, n, k, i) => i = n
  BY <1>1, <1>2 DEF Lasting, R
<1>4. RecordAt(f, n).op = "SET" => Lives(f, n, k, RecordAt(f, n).arg)
  <2>1. \A j \in R : ~ (j > n)
    BY <1>2
  <2>. QED BY <1>1, <2>1 DEF Lives, R
<1>5. ASSUME NEW v, Lives(f, n, k, v), RecordAt(f, n).op # "SET"
      PROVE  /\ RecordAt(f, n).op = "EXPIRE" /\ RecordAt(f, n).arg > 0
             /\ Lives(f, n - 1, k, v)
  <2>1. PICK i \in R :
          /\ RecordAt(f, i).op = "SET" /\ RecordAt(f, i).arg = v
          /\ \A j \in R : j > i => RecordAt(f, j).op = "EXPIRE" /\ RecordAt(f, j).arg > 0
    BY <1>5 DEF Lives, R
  <2>2. i \in S /\ n > i
    BY <1>1, <1>5, <2>1
  <2>3. Lives(f, n - 1, k, v)
    BY <1>1, <2>1, <2>2 DEF Lives, S
  <2>. QED BY <1>1, <2>1, <2>2, <2>3
<1>6. ASSUME NEW v, Lives(f, n - 1, k, v), RecordAt(f, n).op = "EXPIRE", RecordAt(f, n).arg > 0
      PROVE  Lives(f, n, k, v)
  <2>1. PICK i \in S :
          /\ RecordAt(f, i).op = "SET" /\ RecordAt(f, i).arg = v
          /\ \A j \in S : j > i => RecordAt(f, j).op = "EXPIRE" /\ RecordAt(f, j).arg > 0
    BY <1>6 DEF Lives, S
  <2>2. i \in R /\ \A j \in R : j \in S \/ j = n
    BY <1>1
  <2>3. \A j \in R : j > i => RecordAt(f, j).op = "EXPIRE" /\ RecordAt(f, j).arg > 0
    BY <1>6, <2>1, <2>2
  <2>. QED BY <2>1, <2>2, <2>3 DEF Lives, R
<1>. QED BY <1>3, <1>4, <1>5, <1>6 DEF R

(* A write and its record. *)
LEMMA AppliedReflects ==
  ASSUME NEW f \in Seq(Pieces), NEW n \in 1 .. Len(f), f[n].part # "torn", NEW k \in Keys,
         NEW c, NEW d, NEW t \in Int, NEW u \in Int, t <= u,
         ReflectsKey(f, n - 1, c, t, k), Applied(c, d, RecordAt(f, n), u)
  PROVE  ReflectsKey(f, n, d, u, k)
<1>. DEFINE cmd == RecordAt(f, n)
<1>0. /\ n \in Nat \ {0} /\ n - 1 \in 0 .. Len(f) /\ n \in 0 .. Len(f)
      /\ cmd.key \in Keys /\ cmd.op \in {"SET", "DEL", "EXPIRE"}
      /\ cmd.op = "EXPIRE" => cmd.arg \in Int /\ Lifetime(f, n) \in Int
  BY RecordFacts
<1>1. CASE k # cmd.key
  <2>1. n \notin Records(f, n, k)
    BY <1>1 DEF Records
  <2>2. SameOrExpired(c, d, k, u)
    BY <1>1 DEF Applied
  <2>3. ReflectsKey(f, n - 1, d, u, k)
    BY <1>0, <2>2, SameReflects
  <2>. QED BY <1>0, <2>1, <2>3, KeySkipped
<1>2. CASE k = cmd.key
  <2>0. n \in Records(f, n, k)
    BY <1>2 DEF Records
  <2>1. \A i \in Records(f, n, k) : Lasting(f, n, k, i) => i = n
    BY <1>0, <2>0, RecordOfKey
  <2>2. CASE cmd.op = "SET"
    <3>1. k \in DOMAIN d.data /\ d.data[k] = cmd.arg /\ k \notin DOMAIN d.expiresAt
      BY <1>2, <2>2 DEF Applied
    <3>2. Lives(f, n, k, cmd.arg)
      BY <1>0, <2>0, <2>2, RecordOfKey
    <3>. QED BY <2>1, <2>2, <3>1, <3>2 DEF ReflectsKey
  <2>3. CASE Absent(d, k) /\ cmd.op # "SET"
    BY <2>1, <2>3 DEF ReflectsKey, Absent
  <2>4. CASE /\ cmd.op = "EXPIRE" /\ cmd.arg > 0
             /\ k \in DOMAIN c.data /\ k \in DOMAIN d.data
             /\ d.data[k] = c.data[k]
             /\ k \in DOMAIN d.expiresAt
             /\ d.expiresAt[k] = u + cmd.arg * Second
    <3>1. Lives(f, n, k, d.data[k])
      <4>1. Lives(f, n - 1, k, d.data[k])
        BY <2>4 DEF ReflectsKey
      <4>. QED BY <1>0, <2>0, <2>4, <4>1, RecordOfKey
    <3>2. d.expiresAt[k] = u + Lifetime(f, n)
      BY <2>4 DEF Lifetime
    <3>3. d.expiresAt[k] \in Int /\ d.expiresAt[k] <= u + Lifetime(f, n)
      BY <1>0, <2>4, <3>2
    <3>. QED BY <2>1, <2>4, <3>1, <3>3 DEF ReflectsKey
  <2>. QED BY <1>0, <1>2, <2>2, <2>3, <2>4 DEF Applied
<1>. QED BY <1>1, <1>2

(* A record and its replay. *)
LEMMA AppliedRebuilt ==
  ASSUME NEW f \in Seq(Pieces), NEW n \in 1 .. Len(f), f[n].part # "torn", NEW k \in Keys,
         NEW c, NEW d, NEW from \in Int, NEW t \in Int,
         ReflectsKey(f, n - 1, c, t, k), RebuiltKey(f, n - 1, c, from, t, k), from <= t,
         Applied(c, d, RecordAt(f, n), t)
  PROVE  RebuiltKey(f, n, d, from, t, k)
<1>. DEFINE cmd == RecordAt(f, n)
<1>0. /\ n \in Nat \ {0} /\ n - 1 \in 0 .. Len(f)
      /\ cmd.key \in Keys /\ cmd.op \in {"SET", "DEL", "EXPIRE"}
      /\ cmd.op = "EXPIRE" => cmd.arg \in Int /\ Lifetime(f, n) \in Int
  BY RecordFacts
<1>1. SameOrExpired(c, d, k, t) => RebuiltKey(f, n - 1, d, from, t, k)
  BY <1>0, SameRebuilt
<1>2. CASE k # cmd.key
  <2>1. n \notin Records(f, n, k)
    BY <1>2 DEF Records
  <2>2. RebuiltKey(f, n - 1, d, from, t, k)
    BY <1>1, <1>2 DEF Applied
  <2>. QED BY <1>0, <2>1, <2>2, KeySkipped
<1>3. CASE k = cmd.key
  <2>0. n \in Records(f, n, k)
    BY <1>3 DEF Records
  <2>1. \A i \in Records(f, n, k) : Lasting(f, n, k, i) => i = n
    BY <1>0, <2>0, RecordOfKey
  <2>2. CASE cmd.op = "SET"
    <3>1. k \in DOMAIN d.data
      BY <1>3, <2>2 DEF Applied
    <3>. QED BY <2>1, <2>2, <3>1 DEF RebuiltKey
  <2>3. CASE cmd.op = "DEL" \/ (cmd.op = "EXPIRE" /\ cmd.arg <= 0 /\ Absent(d, k))
    <3>1. \A v : ~ Lives(f, n, k, v)
      BY <1>0, <2>0, <2>3, RecordOfKey
    <3>2. k \notin DOMAIN d.data
      BY <1>3, <2>3 DEF Applied, Absent
    <3>. QED BY <3>1, <3>2 DEF RebuiltKey
  <2>4. CASE cmd.op = "EXPIRE" /\ cmd.arg > 0 /\ Absent(d, k) /\ SameOrExpired(c, d, k, t)
    <3>1. k \notin DOMAIN d.data /\ RebuiltKey(f, n - 1, d, from, t, k)
      BY <1>1, <2>4 DEF Absent
    <3>2. \A v : Lives(f, n, k, v) => Lives(f, n - 1, k, v)
      BY <1>0, <2>0, <2>4, RecordOfKey
    <3>3. Records(f, n - 1, k) \subseteq Records(f, n, k)
      BY Zenon, <1>0, RecordsKept
    <3>4. Outrun(f, n - 1, k, t - from) => Outrun(f, n, k, t - from)
      BY <3>3 DEF Outrun
    <3>. QED BY <3>1, <3>2, <3>4 DEF RebuiltKey
  <2>5. CASE /\ cmd.op = "EXPIRE" /\ k \in DOMAIN d.data
             /\ d.expiresAt[k] = t + cmd.arg * Second
    <3>1. d.expiresAt[k] = t + Lifetime(f, n)
      BY <2>5 DEF Lifetime
    <3>2. from + Lifetime(f, n) <= d.expiresAt[k]
      BY <1>0, <2>5, <3>1
    <3>. QED BY <2>1, <2>5, <3>2 DEF RebuiltKey
  <2>. QED
    <3>1. cmd.op = "EXPIRE" => cmd.arg <= 0 \/ cmd.arg > 0
      BY <1>0
    <3>. QED BY <1>0, <1>3, <2>2, <2>3, <2>4, <2>5, <3>1 DEF Applied
<1>. QED BY <1>2, <1>3
(* Only the records count, and which of them are torn.                     *)
Alike(f, g, n) ==
  \A i \in 1 .. n : g[i].record = f[i].record /\ (g[i].part = "torn" <=> f[i].part = "torn")

LEMMA AlikeReflects ==
  ASSUME NEW f, NEW g, NEW n, Alike(f, g, n), NEW c, NEW t, Reflects(f, n, c, t)
  PROVE  Reflects(g, n, c, t)
<1>1. \A k : Records(g, n, k) = Records(f, n, k)
  BY DEF Alike, Records, RecordAt
<1>2. \A k : \A i \in Records(f, n, k) : RecordAt(g, i) = RecordAt(f, i)
  BY DEF Alike, Records, RecordAt
<1>3. ASSUME NEW k \in Keys  PROVE ReflectsKey(g, n, c, t, k)
  <2>. DEFINE R == Records(f, n, k)
  <2>1. Records(g, n, k) = R /\ \A i \in R : RecordAt(g, i) = RecordAt(f, i)
    BY <1>1, <1>2
  <2>2. \A i : Lasting(g, n, k, i) <=> Lasting(f, n, k, i)
    BY <1>1 DEF Lasting
  <2>3. \A v : Lives(f, n, k, v) => Lives(g, n, k, v)
    BY <2>1 DEF Lives
  <2>4. \A i \in R : Lifetime(g, i) = Lifetime(f, i)
    BY <2>1 DEF Lifetime
  <2>5. ReflectsKey(f, n, c, t, k)
    BY DEF Reflects
  <2>6. Records(f, n, k) = R
    OBVIOUS
  <2>. HIDE DEF R
  <2>. QED BY <2>1, <2>2, <2>3, <2>4, <2>5, <2>6 DEF ReflectsKey
<1>. QED BY <1>3 DEF Reflects

(* Time passes. *)
LEMMA ReflectsLater ==
  ASSUME NEW f \in Seq(Pieces), NEW n \in 0 .. Len(f), NEW c,
         NEW t \in Int, NEW u \in Int, t <= u, Reflects(f, n, c, t)
  PROVE  Reflects(f, n, c, u)
<1>1. \A k : SameOrExpired(c, c, k, u)
  BY DEF SameOrExpired
<1>. QED BY <1>1, SameReflects DEF Reflects

\* Clients were told, with each beginning of the file, what it reflects.
Remembers(f, m, t) ==
  \A n \in 0 .. Len(f) : Sound(f, n) => Reflects(f, n, m[n + 1], t)

\* The file as it will be when the write in progress is logged.
Coming == IF pending = None THEN file
          ELSE Append(file, Piece([seq |-> aof.next, cmd |-> pending], "whole"))

Recalled ==
  /\ Remembers(file, memory, IF mode = "replaying" THEN began ELSE now)
  /\ mode = "serving" /\ Sound(Coming, Len(Coming)) => Reflects(Coming, Len(Coming), store, now)
  /\ mode = "replaying" /\ Sound(file, Len(file)) =>
       /\ Reflects(file, cursor - 1, store, now)
       /\ \A k \in Keys : RebuiltKey(file, cursor - 1, store, began, now, k)
  /\ mode = "down" => store = NewStore

LEMMA RemembersLater ==
  ASSUME NEW f \in Seq(Pieces), NEW m, NEW t \in Int, NEW u \in Int, t <= u,
         Remembers(f, m, t)
  PROVE  Remembers(f, m, u)
BY ReflectsLater DEF Remembers

(* The beginning of a file ...                                             *)
LEMMA KeptRemembers ==
  ASSUME NEW f \in Seq(Pieces), NEW S, NEW m \in Seq(S), Len(m) = Len(f) + 1,
         NEW n \in 0 .. Len(f), NEW t, Remembers(f, m, t)
  PROVE  Remembers(SubSeq(f, 1, n), SubSeq(m, 1, n + 1), t)
<1>. DEFINE g == SubSeq(f, 1, n)
            l == SubSeq(m, 1, n + 1)
<1>1. Len(g) = n /\ \A i \in 1 .. n : g[i] = f[i]
  OBVIOUS
<1>2. \A i \in 1 .. n + 1 : l[i] = m[i]
  OBVIOUS
<1>. HIDE DEF g, l
<1>3. ASSUME NEW j \in 0 .. n, Sound(g, j)  PROVE Reflects(g, j, l[j + 1], t)
  <2>1. Sound(f, j)
    BY <1>1, <1>3 DEF Sound
  <2>2. j \in 0 .. Len(f) /\ l[j + 1] = m[j + 1]
    BY <1>2
  <2>3. Alike(f, g, j)
    BY <1>1 DEF Alike
  <2>4. Reflects(f, j, l[j + 1], t)
    BY <2>1, <2>2 DEF Remembers
  <2>. QED BY <2>3, <2>4, AlikeReflects
<1>. QED BY <1>1, <1>3 DEF Remembers, g, l

(* ... and a file that has grown by a piece, or by a part of one.          *)
LEMMA ExtendedRemembers ==
  ASSUME NEW f \in Seq(Pieces), NEW S, NEW m \in Seq(S), Len(m) = Len(f) + 1,
         NEW piece, NEW c, NEW t, Remembers(f, m, t),
         LET g == Append(f, piece)
         IN  piece.part # "torn" /\ Sound(g, Len(f) + 1) => Reflects(g, Len(f) + 1, c, t)
  PROVE  Remembers(Append(f, piece),
                   Append(m, IF piece.part = "torn" THEN m[Len(m)] ELSE c), t)
<1>. DEFINE n == Len(f)
            x == IF piece.part = "torn" THEN m[Len(m)] ELSE c
            g == Append(f, piece)
            l == Append(m, x)
<1>1. /\ n \in Nat /\ Len(g) = n + 1 /\ g[n + 1] = piece
      /\ \A i \in 1 .. n : g[i] = f[i]
  OBVIOUS
<1>2. /\ l[n + 2] = x /\ \A i \in 1 .. n + 1 : l[i] = m[i]
  OBVIOUS
<1>3. piece.part # "torn" /\ Sound(g, n + 1) => Reflects(g, n + 1, c, t)
  OBVIOUS
<1>4. /\ piece.part = "torn" => x = m[n + 1]
      /\ piece.part # "torn" => x = c
  OBVIOUS
<1>. HIDE DEF n, g, l, x
<1>5. ASSUME NEW j \in 0 .. n, Sound(g, j)  PROVE Reflects(g, j, m[j + 1], t)
  <2>1. Sound(f, j)
    BY <1>1, <1>5 DEF Sound
  <2>2. Reflects(f, j, m[j + 1], t)
    BY <2>1 DEF Remembers, n
  <2>3. Alike(f, g, j)
    BY <1>1 DEF Alike
  <2>. QED BY <2>2, <2>3, AlikeReflects
<1>6. ASSUME Sound(g, n + 1)  PROVE Reflects(g, n + 1, x, t)
  <2>1. CASE piece.part = "torn"
    <3>1. Sound(g, n)
      BY <1>1, <1>6 DEF Sound
    <3>2. Reflects(g, n, x, t)
      BY <1>1, <1>4, <1>5, <2>1, <3>1
    <3>3. \A k : n + 1 \notin Records(g, n + 1, k)
      BY <1>1, <2>1 DEF Records
    <3>4. \A k : ReflectsKey(g, n, x, t, k) => ReflectsKey(g, n + 1, x, t, k)
      <4>. DEFINE p == n + 1
      <4>1. p \in Nat \ {0} /\ p - 1 = n
        BY <1>1
      <4>2. \A k : p \notin Records(g, p, k)
        BY <3>3
      <4>. HIDE DEF p
      <4>3. \A k : ReflectsKey(g, p - 1, x, t, k) => ReflectsKey(g, p, x, t, k)
        BY <4>1, <4>2, KeySkipped
      <4>. QED BY <4>1, <4>3 DEF p
    <3>. QED BY <3>2, <3>4 DEF Reflects
  <2>2. CASE piece.part # "torn"
    BY <1>3, <1>4, <1>6, <2>2
  <2>. QED BY <2>1, <2>2
<1>7. ASSUME NEW j \in 0 .. n + 1, Sound(g, j)  PROVE Reflects(g, j, l[j + 1], t)
  <2>1. CASE j = n + 1
    BY <1>1, <1>2, <1>6, <1>7, <2>1
  <2>2. CASE j \in 0 .. n
    <3>1. l[j + 1] = m[j + 1]
      BY <1>1, <1>2, <2>2
    <3>. QED BY <1>5, <1>7, <2>2, <3>1
  <2>. QED BY <1>1, <2>1, <2>2
<1>8. Remembers(g, l, t)
  BY <1>1, <1>7 DEF Remembers
<1>. QED BY <1>8 DEF g, l, x
LEMMA ContentsReflects ==
  ASSUME NEW f, NEW n, NEW c, NEW t
  PROVE  Reflects(f, n, Contents(c), t) <=> Reflects(f, n, c, t)
BY DEF Reflects, ReflectsKey, Contents

(* Whatever a death leaves is a file that clients remember.                *)
LEMMA DeathRemembers ==
  ASSUME TypeOK, Recalled, NEW rest \in AfterDeath
  PROVE  Remembers(rest.file, rest.memory, now)
<1>1. /\ memory \in Seq(Range(memory)) /\ Len(memory) = Len(file) + 1 /\ file \in Seq(Pieces)
      /\ Len(file) \in Nat /\ now \in Int /\ began \in Int /\ began <= now
      /\ pending # None => mode = "serving"
  BY WorkerAssumption DEF TypeOK, Told
<1>2. Remembers(file, memory, now)
  BY <1>1, RemembersLater DEF Recalled
<1>3. CASE rest = [file |-> file, memory |-> memory]
  BY <1>2, <1>3
<1>4. ASSUME pending # None, NEW part \in Parts("whole"),
             rest = Extend([file |-> file, memory |-> memory],
                           Piece([seq |-> aof.next, cmd |-> pending], part),
                           Contents(store))
      PROVE  Remembers(rest.file, rest.memory, now)
  <2>. DEFINE piece == Piece([seq |-> aof.next, cmd |-> pending], part)
              whole == Piece([seq |-> aof.next, cmd |-> pending], "whole")
              n == Len(file) + 1
              g == Append(file, piece)
  <2>1. /\ rest.file = g
        /\ rest.memory = Append(memory, IF piece.part = "torn" THEN memory[Len(memory)]
                                                               ELSE Contents(store))
    BY <1>4 DEF Extend
  <2>2. piece.record = whole.record /\ whole.part = "whole" /\ piece.part = part
    BY DEF Piece
  <2>3. Coming = Append(file, whole)
    BY <1>4 DEF Coming
  <2>4. ASSUME piece.part # "torn", Sound(g, n)
        PROVE  Reflects(g, n, Contents(store), now)
    <3>. HIDE DEF piece, whole
    <3>1. /\ Len(Coming) = n /\ n \in Nat
          /\ \A i \in 1 .. n - 1 : Coming[i] = file[i] /\ g[i] = file[i]
          /\ Coming[n] = whole /\ g[n] = piece
      BY <1>1, <2>3
    <3>. HIDE DEF n, g
    <3>2. Sound(Coming, n)
      BY <2>4, <3>1 DEF Sound
    <3>3. Reflects(Coming, n, store, now)
      BY <1>1, <1>4, <3>1, <3>2 DEF Recalled
    <3>4. Alike(Coming, g, n)
      <4>1. ASSUME NEW i \in 1 .. n
            PROVE  /\ g[i].record = Coming[i].record
                   /\ g[i].part = "torn" <=> Coming[i].part = "torn"
        <5>1. i = n \/ i \in 1 .. n - 1
          BY <3>1
        <5>. QED BY <2>2, <2>4, <3>1, <5>1
      <4>. QED BY <4>1 DEF Alike
    <3>. QED BY <3>3, <3>4, AlikeReflects, ContentsReflects
  <2>. HIDE DEF piece, whole
  <2>5. piece.part # "torn" /\ Sound(Append(file, piece), Len(file) + 1) =>
          Reflects(Append(file, piece), Len(file) + 1, Contents(store), now)
    BY <2>4
  <2>6. Remembers(Append(file, piece),
                  Append(memory, IF piece.part = "torn" THEN memory[Len(memory)]
                                                        ELSE Contents(store)), now)
    BY <1>1, <1>2, <2>5, ExtendedRemembers
  <2>. QED BY <2>1, <2>6
<1>. QED BY <1>3, <1>4 DEF AfterDeath

LEMMA PowerLossRemembers ==
  ASSUME TypeOK, Recalled, NEW rest \in AfterPowerLoss
  PROVE  Remembers(rest.file, rest.memory, now)
<1>1. PICK base \in AfterDeath :
        \/ rest = Kept(base, synced)
        \/ \E n \in synced .. Len(base.file) - 1 : rest \in Cut(base, n)
  BY DEF AfterPowerLoss
<1>2. /\ base.memory \in Seq(Seen) /\ Len(base.memory) = Len(base.file) + 1
      /\ base.file \in Seq(Pieces)
      /\ Len(file) <= Len(base.file)
      /\ Remembers(base.file, base.memory, now)
  BY DeathLeaves, DeathRemembers
<1>3. synced \in 0 .. Len(base.file)
  BY <1>2 DEF TypeOK
<1>4. \A n : /\ Kept(base, n).file = SubSeq(base.file, 1, n)
            /\ Kept(base, n).memory = SubSeq(base.memory, 1, n + 1)
  BY DEF Kept
<1>5. CASE rest = Kept(base, synced)
  <2>1. /\ rest.file = SubSeq(base.file, 1, synced)
        /\ rest.memory = SubSeq(base.memory, 1, synced + 1)
    BY <1>4, <1>5
  <2>. QED BY <1>2, <1>3, <2>1, KeptRemembers
<1>6. ASSUME NEW n \in synced .. Len(base.file) - 1, rest \in Cut(base, n)
      PROVE  Remembers(rest.file, rest.memory, now)
  <2>. DEFINE b == base.file
              a == SubSeq(b, 1, n)
              m == SubSeq(base.memory, 1, n + 1)
  <2>0. n \in 0 .. Len(b) /\ n < Len(b) /\ n + 1 \in 0 .. Len(b) /\ n + 1 \in 1 .. Len(b)
    BY <1>2, <1>3
  <2>1. PICK part \in Parts(b[n + 1].part) :
          rest = Extend(Kept(base, n), Piece(b[n + 1].record, part), base.memory[n + 2])
    BY <1>6 DEF Cut
  <2>. DEFINE piece == Piece(b[n + 1].record, part)
  <2>2. /\ rest.file = Append(a, piece)
        /\ rest.memory = Append(m, IF piece.part = "torn" THEN m[Len(m)]
                                                          ELSE base.memory[n + 2])
    BY <1>4, <2>1 DEF Extend
  <2>3. piece.record = b[n + 1].record /\ piece.part = part
    BY DEF Piece
  <2>4. /\ a \in Seq(Pieces) /\ Len(a) = n /\ \A i \in 1 .. n : a[i] = b[i]
        /\ m \in Seq(Seen) /\ Len(m) = n + 1
    BY <1>2, <2>0
  <2>5. Remembers(a, m, now)
    BY <1>2, <2>0, KeptRemembers
  <2>6. b[n + 1].part \in {"whole", "bare", "torn"}
    BY <1>2, <2>0, RecordFacts
  <2>7. part # "torn" => b[n + 1].part # "torn"
    BY <2>6 DEF Parts
  <2>. HIDE DEF a, m, piece
  <2>8. ASSUME piece.part # "torn", Sound(Append(a, piece), n + 1)
        PROVE  Reflects(Append(a, piece), n + 1, base.memory[n + 2], now)
    <3>. DEFINE g == Append(a, piece)
    <3>1. /\ \A i \in 1 .. n : g[i] = b[i]
          /\ g[n + 1] = piece
      BY <2>0, <2>4
    <3>2. Sound(g, n + 1)
      BY <2>8
    <3>. HIDE DEF g
    <3>3. Sound(b, n + 1)
      BY <2>0, <3>1, <3>2 DEF Sound
    <3>4. Reflects(b, n + 1, base.memory[n + 2], now)
      <4>. DEFINE j == n + 1
      <4>1. j \in 0 .. Len(b) /\ Sound(b, j) /\ j + 1 = n + 2
        BY <2>0, <3>3
      <4>. HIDE DEF j
      <4>2. Reflects(b, j, base.memory[j + 1], now)
        BY <1>2, <4>1 DEF Remembers
      <4>. QED BY <4>1, <4>2 DEF j
    <3>5. Alike(b, g, n + 1)
      <4>1. ASSUME NEW i \in 1 .. n + 1
            PROVE  /\ g[i].record = b[i].record
                   /\ g[i].part = "torn" <=> b[i].part = "torn"
        <5>1. i = n + 1 \/ i \in 1 .. n
          BY <2>0
        <5>. QED BY <2>3, <2>7, <2>8, <3>1, <5>1
      <4>. QED BY <4>1 DEF Alike
    <3>6. Reflects(g, n + 1, base.memory[n + 2], now)
      BY <3>4, <3>5, AlikeReflects
    <3>. QED BY <3>6 DEF g
  <2>9. Remembers(Append(a, piece),
                  Append(m, IF piece.part = "torn" THEN m[Len(m)] ELSE base.memory[n + 2]), now)
    BY <2>4, <2>5, <2>8, ExtendedRemembers
  <2>. QED BY <2>2, <2>9
<1>. QED BY <1>1, <1>5, <1>6
(* Each step preserves Recalled. *)

LEMMA WorkerFacts ==
  ASSUME TypeOK
  PROVE  /\ file \in Seq(Pieces) /\ Len(file) \in Nat
         /\ memory \in Seq(Range(memory)) /\ Len(memory) = Len(file) + 1
         /\ now \in Int /\ began \in Int /\ began <= now
         /\ cursor \in 1 .. Len(file) + 1
         /\ StoreOK(store, Values)
         /\ pending \in Writes \cup {None} /\ (pending # None => mode = "serving")
         /\ mode \in {"down", "replaying", "serving"}
BY WorkerAssumption DEF TypeOK, Told

LEMMA TickRecalled == TypeOK /\ Recalled /\ Tick => Recalled'
<1>. SUFFICES ASSUME TypeOK, Recalled, Tick  PROVE Recalled'
  OBVIOUS
<1>0. /\ file \in Seq(Pieces) /\ Len(file) \in Nat /\ now \in Int /\ began \in Int
      /\ cursor \in 1 .. Len(file) + 1 /\ began <= now
      /\ pending \in Writes \cup {None} /\ aof.next \in Nat
  BY WorkerFacts DEF TypeOK
<1>1. /\ now' = now + 1 /\ now <= now'/\ now' \in Int
      /\ UNCHANGED <<file, memory, aof, store, mode, cursor, began, pending>>
  BY <1>0 DEF Tick, disk, history
<1>2. Coming' = Coming
  BY <1>1 DEF Coming
<1>3. Remembers(file, memory, IF mode = "replaying" THEN began ELSE now')
  BY <1>0, <1>1, RemembersLater DEF Recalled
<1>4. mode = "serving" /\ Sound(Coming, Len(Coming)) => Reflects(Coming, Len(Coming), store, now')
  <2>1. Coming \in Seq(Pieces)
    <3>1. CASE pending = None
      BY <1>0, <3>1 DEF Coming
    <3>2. CASE pending # None
      <4>1. Piece([seq |-> aof.next, cmd |-> pending], "whole") \in Pieces
        BY <1>0, <3>2 DEF Piece, Pieces
      <4>. QED BY <1>0, <3>2, <4>1 DEF Coming
    <3>. QED BY <3>1, <3>2
  <2>2. Len(Coming) \in 0 .. Len(Coming)
    BY <2>1
  <2>. QED BY <1>0, <1>1, <2>1, <2>2, ReflectsLater DEF Recalled
<1>5. ASSUME mode = "replaying", Sound(file, Len(file))
      PROVE  /\ Reflects(file, cursor - 1, store, now')
             /\ \A k \in Keys : RebuiltKey(file, cursor - 1, store, began, now', k)
  <2>. DEFINE n == cursor - 1
  <2>1. /\ n \in 0 .. Len(file) /\ Reflects(file, n, store, now)
        /\ \A k \in Keys : RebuiltKey(file, n, store, began, now, k)
    BY <1>0, <1>5 DEF Recalled
  <2>. HIDE DEF n
  <2>2. \A k : SameOrExpired(store, store, k, now')
    BY DEF SameOrExpired
  <2>3. \A k \in Keys : RebuiltKey(file, n, store, began, now', k)
    BY <1>0, <1>1, <2>1, <2>2, SameRebuilt DEF Reflects
  <2>4. Reflects(file, n, store, now')
    BY <1>0, <1>1, <2>1, ReflectsLater
  <2>. QED BY <2>3, <2>4 DEF n
<1>. QED BY <1>1, <1>2, <1>3, <1>4, <1>5 DEF Recalled

LEMMA StartRecalled == TypeOK /\ Recalled /\ Start => Recalled'
<1>. SUFFICES ASSUME TypeOK, Recalled, Start  PROVE Recalled'
  OBVIOUS
<1>1. /\ mode = "down" /\ mode' = "replaying" /\ cursor' = 1 /\ began' = now
      /\ UNCHANGED <<file, memory, store, now>>
  BY DEF Start, disk, history
<1>2. store = NewStore /\ Remembers(file, memory, now)
  BY <1>1 DEF Recalled
<1>3. DOMAIN store.data = {} /\ DOMAIN store.expiresAt = {}
  BY <1>2, EmptyIsDict DEF NewStore
<1>4. \A k : Records(file, 0, k) = {}
  BY DEF Records
<1>5. Reflects(file, 0, store, now)
  BY <1>3, <1>4 DEF Reflects, ReflectsKey
<1>6. \A k \in Keys : RebuiltKey(file, 0, store, now, now, k)
  BY <1>4 DEF RebuiltKey, Lives
<1>7. cursor' - 1 = 0
  BY <1>1
<1>. QED BY <1>1, <1>2, <1>5, <1>6, <1>7 DEF Recalled

LEMMA ReplayRecalled == TypeOK /\ Recalled /\ ReplayLine => Recalled'
<1>. SUFFICES ASSUME TypeOK, Recalled, ReplayLine  PROVE Recalled'
  OBVIOUS
<1>0. /\ file \in Seq(Pieces) /\ Len(file) \in Nat /\ now \in Int /\ began \in Int
      /\ began <= now /\ StoreOK(store, Values)
  BY WorkerFacts
<1>. DEFINE n == cursor
<1>1. /\ mode = "replaying" /\ mode' = mode /\ n \in 1 .. Len(file) /\ cursor' = n + 1
      /\ store' = IF Parses(file, n) THEN ApplyReplayRequest(store, RecordAt(file, n), now)
                                     ELSE store
      /\ UNCHANGED <<file, memory, now, began>>
  BY WorkerFacts DEF ReplayLine, disk, history, RecordAt
<1>2. ASSUME Sound(file, Len(file))
      PROVE  /\ Reflects(file, n, store', now)
             /\ \A k \in Keys : RebuiltKey(file, n, store', began, now, k)
  <2>1. /\ Reflects(file, n - 1, store, now)
        /\ \A k \in Keys : RebuiltKey(file, n - 1, store, began, now, k)
    BY <1>1, <1>2 DEF Recalled
  <2>. HIDE DEF n
  <2>2. n \in Nat \ {0} /\ file[n].part \in {"whole", "bare", "torn"}
    BY <1>0, <1>1, RecordFacts
  <2>3. Parses(file, n) <=> file[n].part # "torn"
    <3>1. n = 1 \/ file[n - 1].part = "whole"
      BY <1>0, <1>1, <1>2 DEF Sound
    <3>2. n < Len(file) => file[n].part = "whole"
      BY <1>0, <1>1, <1>2 DEF Sound
    <3>3. n < Len(file) \/ n = Len(file)
      BY <1>0, <1>1
    <3>. QED BY <2>2, <3>1, <3>2, <3>3 DEF Parses
  <2>4. CASE file[n].part = "torn"
    <3>1. store' = store
      BY <1>1, <2>3, <2>4
    <3>2. \A k : n \notin Records(file, n, k)
      BY <2>4 DEF Records
    <3>. QED BY <2>1, <2>2, <3>1, <3>2, KeySkipped DEF Reflects
  <2>5. CASE file[n].part # "torn"
    <3>1. Applied(store, store', RecordAt(file, n), now)
      <4>. DEFINE cmd == RecordAt(file, n)
      <4>1. /\ cmd.op \in {"SET", "DEL", "EXPIRE"} /\ cmd.key \in Keys
            /\ cmd.op = "SET" => cmd.arg \in Values
            /\ cmd.op = "EXPIRE" => cmd.arg \in Int
        BY <1>0, <1>1, RecordFacts
      <4>2. store' = ApplyReplayRequest(store, cmd, now)
        BY <1>1, <2>3, <2>5
      <4>. HIDE DEF cmd
      <4>3. Applied(store, ApplyReplayRequest(store, cmd, now), cmd, now)
        BY <1>0, <4>1, ReplayEffect
      <4>. QED BY <4>2, <4>3 DEF cmd
    <3>2. ASSUME NEW k \in Keys
          PROVE  /\ ReflectsKey(file, n, store', now, k)
                 /\ RebuiltKey(file, n, store', began, now, k)
      <4>1. ReflectsKey(file, n - 1, store, now, k) /\ RebuiltKey(file, n - 1, store, began, now, k)
        BY <2>1 DEF Reflects
      <4>. DEFINE d == store'
      <4>2. Applied(store, d, RecordAt(file, n), now)
        BY <3>1
      <4>. HIDE DEF d
      <4>3. ReflectsKey(file, n, d, now, k)
        BY <1>0, <1>1, <2>5, <4>1, <4>2, AppliedReflects
      <4>4. RebuiltKey(file, n, d, began, now, k)
        BY <1>0, <1>1, <2>5, <4>1, <4>2, AppliedRebuilt
      <4>. QED BY <4>3, <4>4 DEF d
    <3>. QED BY <3>2 DEF Reflects
  <2>. QED BY <2>4, <2>5
<1>3. cursor' - 1 = n
  BY <1>0, <1>1
<1>. HIDE DEF n
<1>. QED BY <1>1, <1>2, <1>3 DEF Recalled
\* What clients see last changes with what they are told.
LEMMA SeenLast ==
  ASSUME NEW f \in Seq(Pieces), NEW S, NEW m \in Seq(S), Len(m) = Len(f) + 1, NEW c, NEW t,
         Remembers(f, m, t), Sound(f, Len(f)) => Reflects(f, Len(f), c, t)
  PROVE  Remembers(f, [m EXCEPT ![Len(m)] = c], t)
<1>. DEFINE l == [m EXCEPT ![Len(m)] = c]
<1>1. l[Len(f) + 1] = c /\ \A i \in 1 .. Len(f) : l[i] = m[i]
  OBVIOUS
<1>. HIDE DEF l
<1>2. ASSUME NEW n \in 0 .. Len(f), Sound(f, n)  PROVE Reflects(f, n, l[n + 1], t)
  <2>1. CASE n = Len(f)
    BY <1>1, <1>2, <2>1
  <2>2. CASE n # Len(f)
    <3>1. n + 1 \in 1 .. Len(f)
      BY <2>2
    <3>. QED BY <1>1, <1>2, <3>1 DEF Remembers
  <2>. QED BY <2>1, <2>2
<1>. QED BY <1>2 DEF Remembers, l

LEMMA ServeRecalled == TypeOK /\ Recalled /\ Serve => Recalled'
<1>. SUFFICES ASSUME TypeOK, Recalled, Serve  PROVE Recalled'
  OBVIOUS
<1>1. /\ mode = "replaying" /\ mode' = "serving" /\ cursor > Len(file)
      /\ memory' = [memory EXCEPT ![Len(memory)] = Contents(store)]
      /\ UNCHANGED <<file, aof, store, now, pending>>
  BY DEF Serve, disk
<1>2. pending = None /\ cursor - 1 = Len(file) /\ Coming' = file
  BY <1>1, WorkerFacts DEF Coming
<1>3. Sound(file, Len(file)) => Reflects(file, Len(file), store, now)
  BY <1>1, <1>2 DEF Recalled
<1>4. Remembers(file, memory, now)
  BY <1>1, WorkerFacts, RemembersLater DEF Recalled
<1>5. Remembers(file, memory', now)
  BY <1>1, <1>3, <1>4, WorkerFacts, SeenLast, ContentsReflects
<1>. QED BY <1>1, <1>2, <1>3, <1>5 DEF Recalled

(* A write is executed before it is logged; anything else only expires.    *)
LEMMA ExecuteRecalled ==
  ASSUME "FLUSHALL" \notin Ops, TypeOK, Recalled, NEW cmd \in Commands, Execute(cmd)
  PROVE  Recalled'
<1>0. /\ file \in Seq(Pieces) /\ Len(file) \in Nat /\ now \in Int /\ StoreOK(store, Values)
      /\ memory \in Seq(Range(memory)) /\ Len(memory) = Len(file) + 1 /\ aof.next \in Nat
  BY WorkerFacts DEF TypeOK
<1>. DEFINE done == ExecuteCommand(store, cmd, now)
<1>1. /\ mode = "serving" /\ mode' = mode /\ pending = None
      /\ store' = done.store
      /\ \/ IsWrite(cmd, done) /\ pending' = cmd /\ memory' = memory
         \/ /\ ~ IsWrite(cmd, done) /\ pending' = pending
            /\ memory' = [memory EXCEPT ![Len(memory)] = Contents(done.store)]
      /\ UNCHANGED <<file, aof, now>>
  BY DEF Execute, disk
<1>2. Coming = file /\ Remembers(file, memory, now)
  BY <1>1 DEF Coming, Recalled
<1>3. Sound(file, Len(file)) => Reflects(file, Len(file), store, now)
  BY <1>1, <1>2 DEF Recalled
<1>4. /\ cmd.op \in {"SET", "GET", "DEL", "EXPIRE", "TTL", "PING", "OTHER"}
      /\ cmd.key \in Keys
      /\ cmd.op = "SET" => cmd.arg \in Values
      /\ cmd.op = "EXPIRE" => cmd.arg \in Int \cup {None}
  BY WorkerAssumption DEF Commands
<1>5. CASE ~ IsWrite(cmd, done)
  <2>1. \A k \in Keys : SameOrExpired(store, done.store, k, now)
    BY <1>0, <1>4, <1>5, UnloggedEffect
  <2>2. /\ pending' = None /\ Coming' = file
        /\ memory' = [memory EXCEPT ![Len(memory)] = Contents(done.store)]
    BY <1>1, <1>5 DEF Coming
  <2>. HIDE DEF done
  <2>3. Len(file) \in 0 .. Len(file)
    BY <1>0
  <2>4. Sound(file, Len(file)) => Reflects(file, Len(file), done.store, now)
    BY <1>0, <1>3, <2>1, <2>3, SameReflects DEF Reflects
  <2>5. Remembers(file, memory', now)
    BY <1>0, <1>2, <2>2, <2>4, SeenLast, ContentsReflects
  <2>. QED BY <1>1, <2>2, <2>4, <2>5 DEF Recalled
<1>6. CASE IsWrite(cmd, done)
  <2>1. cmd \in Writes
    BY <1>0, <1>6, CommandOK
  <2>2. cmd.op \in {"SET", "DEL", "EXPIRE"} /\ (cmd.op = "EXPIRE" => cmd.arg \in Int /\ cmd.arg # None)
    BY <1>4, <2>1 DEF Writes
  <2>3. Applied(store, done.store, cmd, now)
    BY <1>0, <1>4, <2>2, ExecuteEffect
  <2>4. pending' = cmd /\ memory' = memory
    BY <1>1, <1>6
  <2>5. cmd # None
    BY PendingAssumption
  <2>. HIDE DEF done
  <2>. DEFINE piece == Piece([seq |-> aof.next, cmd |-> cmd], "whole")
              g == Append(file, piece)
              n == Len(file) + 1
  <2>6. Coming' = g
    BY <1>1, <2>4, <2>5 DEF Coming
  <2>7. piece \in Pieces /\ piece.part = "whole" /\ piece.record.cmd = cmd
    BY <1>0, <2>1 DEF Piece, Pieces
  <2>. HIDE DEF piece
  <2>8. /\ g \in Seq(Pieces) /\ Len(g) = n /\ n \in 1 .. Len(g) /\ g[n] = piece
        /\ n - 1 = Len(file) /\ \A i \in 1 .. n - 1 : g[i] = file[i]
    BY <1>0, <2>7
  <2>. HIDE DEF g, n
  <2>9. ASSUME Sound(g, n)  PROVE Reflects(g, n, done.store, now)
    <3>1. Sound(file, Len(file))
      BY <1>0, <2>8, <2>9 DEF Sound
    <3>2. Alike(file, g, n - 1)
      BY <2>8 DEF Alike
    <3>3. Reflects(g, n - 1, store, now)
      BY <1>3, <2>8, <3>1, <3>2, AlikeReflects
    <3>4. g[n].part # "torn" /\ RecordAt(g, n) = cmd
      BY <2>7, <2>8 DEF RecordAt
    <3>. QED BY <1>0, <2>3, <2>8, <3>3, <3>4, AppliedReflects DEF Reflects
  <2>. QED BY <1>1, <1>2, <2>4, <2>6, <2>8, <2>9 DEF Recalled
<1>. QED BY <1>5, <1>6

LEMMA LogRecalled == TypeOK /\ Recalled /\ Log => Recalled'
<1>. SUFFICES ASSUME TypeOK, Recalled, Log  PROVE Recalled'
  OBVIOUS
<1>. DEFINE piece == Piece([seq |-> aof.next, cmd |-> pending], "whole")
            g == Append(file, piece)
<1>1. /\ pending # None /\ pending' = None /\ mode = "serving"
      /\ file' = g /\ memory' = Append(memory, Contents(store))
      /\ UNCHANGED <<store, now, mode>>
  BY WorkerFacts DEF Log
<1>2. Coming = g /\ Coming' = g /\ piece.part = "whole"
  BY <1>1 DEF Coming, Piece
<1>3. Sound(g, Len(g)) => Reflects(g, Len(g), store, now)
  BY <1>1, <1>2 DEF Recalled
<1>4. Remembers(file, memory, now)
  BY <1>1 DEF Recalled
<1>5. Remembers(g, memory', now)
  <2>. HIDE DEF piece
  <2>1. Len(g) = Len(file) + 1
    BY WorkerFacts
  <2>2. Sound(g, Len(file) + 1) => Reflects(g, Len(file) + 1, Contents(store), now)
    BY <1>3, <2>1, ContentsReflects
  <2>3. Remembers(Append(file, piece),
                  Append(memory, IF piece.part = "torn" THEN memory[Len(memory)]
                                                        ELSE Contents(store)), now)
    BY <1>4, <2>2, WorkerFacts, ExtendedRemembers
  <2>. QED BY <1>1, <1>2, <2>3
<1>. HIDE DEF g
<1>. QED BY <1>1, <1>2, <1>3, <1>5 DEF Recalled

LEMMA CycleRecalled == TypeOK /\ Recalled /\ Cycle => Recalled'
<1>. SUFFICES ASSUME TypeOK, Recalled, Cycle  PROVE Recalled'
  OBVIOUS
<1>1. /\ mode = "serving" /\ pending = None /\ store' = ProcessExpirations(store, now)
      /\ UNCHANGED <<file, memory, aof, now, mode, pending>>
  BY DEF Cycle, disk, history
<1>2. \A k \in Keys : SameOrExpired(store, store', k, now)
  BY <1>1, WorkerFacts, ProcessEffect
<1>3. Coming = file /\ Coming' = file /\ Len(file) \in 0 .. Len(file)
  BY <1>1, WorkerFacts DEF Coming
<1>4. Sound(file, Len(file)) => Reflects(file, Len(file), store', now)
  <2>1. Sound(file, Len(file)) => Reflects(file, Len(file), store, now)
    BY <1>1, <1>3 DEF Recalled
  <2>. DEFINE d == store'
  <2>2. \A k \in Keys : SameOrExpired(store, d, k, now)
    BY <1>2
  <2>. HIDE DEF d
  <2>3. Sound(file, Len(file)) => Reflects(file, Len(file), d, now)
    BY <1>3, <2>1, <2>2, WorkerFacts, SameReflects DEF Reflects
  <2>. QED BY <2>3 DEF d
<1>. QED BY <1>1, <1>3, <1>4 DEF Recalled
LEMMA DeathRecalled ==
  ASSUME Down, Remembers(file', memory', now)
  PROVE  Recalled'
<1>1. mode' = "down" /\ store' = NewStore /\ now' = now
  BY DEF Down
<1>. QED BY <1>1 DEF Recalled

LEMMA DownRecalled == TypeOK /\ Recalled /\ (Stop \/ ProcessCrash \/ PowerLoss) => Recalled'
<1>. SUFFICES ASSUME TypeOK, Recalled, Stop \/ ProcessCrash \/ PowerLoss  PROVE Recalled'
  OBVIOUS
<1>1. CASE Stop
  <2>1. mode = "serving" /\ Down /\ file' = file /\ memory' = memory
    BY <1>1 DEF Stop, history
  <2>2. Remembers(file, memory, now)
    BY <2>1 DEF Recalled
  <2>. QED BY <2>1, <2>2, DeathRecalled
<1>2. CASE ProcessCrash
  <2>1. PICK rest \in AfterDeath : file' = rest.file /\ memory' = rest.memory
    BY <1>2 DEF ProcessCrash
  <2>2. Down
    BY <1>2 DEF ProcessCrash
  <2>. QED BY <2>1, <2>2, DeathRemembers, DeathRecalled
<1>3. CASE PowerLoss
  <2>1. PICK rest \in AfterPowerLoss : file' = rest.file /\ memory' = rest.memory
    BY <1>3 DEF PowerLoss
  <2>2. Down
    BY <1>3 DEF PowerLoss
  <2>. QED BY <2>1, <2>2, PowerLossRemembers, DeathRecalled
<1>. QED BY <1>1, <1>2, <1>3

LEMMA InitRecalled == Init => Recalled
<1>. SUFFICES ASSUME Init  PROVE Recalled
  OBVIOUS
<1>1. /\ file = <<>> /\ memory = <<Contents(NewStore)>> /\ mode = "down" /\ store = NewStore
  BY DEF Init
<1>2. Len(file) = 0 /\ memory[1] = Contents(NewStore)
  BY <1>1
<1>3. DOMAIN NewStore.data = {} /\ DOMAIN NewStore.expiresAt = {}
  BY EmptyIsDict DEF NewStore
<1>4. \A k : Records(file, 0, k) = {}
  BY DEF Records
<1>5. Reflects(file, 0, NewStore, now)
  BY <1>3, <1>4 DEF Reflects, ReflectsKey
<1>6. Reflects(file, 0, Contents(NewStore), now)
  BY <1>5, ContentsReflects
<1>7. \A n \in 0 .. Len(file) : n = 0 /\ n + 1 = 1
  BY <1>2
<1>8. Remembers(file, memory, now)
  BY <1>2, <1>6, <1>7 DEF Remembers
<1>. QED BY <1>1, <1>8 DEF Recalled

(* Deaths and recoveries never part the log from what it is a log of.      *)
LEMMA AlwaysRecalled ==
  ASSUME "FLUSHALL" \notin Ops
  PROVE  Spec => [](TypeOK /\ Recalled)
<1>1. TypeOK /\ Recalled /\ [Next]_vars => Recalled'
  <2>. SUFFICES ASSUME TypeOK, Recalled, [Next]_vars  PROVE Recalled'
    OBVIOUS
  <2>1. ASSUME NEW cmd \in Commands, Execute(cmd)  PROVE Recalled'
    BY <2>1, ExecuteRecalled
  <2>2. CASE UNCHANGED vars
    <3>1. UNCHANGED <<file, memory, aof, store, now, mode, cursor, began, pending>>
      BY <2>2 DEF vars
    <3>. QED BY <3>1 DEF Recalled, Coming
  <2>. QED BY <2>1, <2>2, TickRecalled, StartRecalled, ReplayRecalled, ServeRecalled,
              LogRecalled, CycleRecalled, DownRecalled DEF Next
<1>. QED BY <1>1, InitRecalled, TypeCorrect, PTL DEF Spec

-----------------------------------------------------------------------------
(* What recovery brings back. *)

(* Only one value explains a key. *)
LEMMA LivesOnce ==
  ASSUME NEW f, NEW n \in Nat, NEW k, NEW v, NEW w, Lives(f, n, k, v), Lives(f, n, k, w)
  PROVE  v = w
<1>1. PICK i \in Records(f, n, k) :
        /\ RecordAt(f, i).op = "SET" /\ RecordAt(f, i).arg = v
        /\ \A j \in Records(f, n, k) :
             j > i => RecordAt(f, j).op = "EXPIRE" /\ RecordAt(f, j).arg > 0
  BY DEF Lives
<1>2. PICK h \in Records(f, n, k) :
        /\ RecordAt(f, h).op = "SET" /\ RecordAt(f, h).arg = w
        /\ \A j \in Records(f, n, k) :
             j > h => RecordAt(f, j).op = "EXPIRE" /\ RecordAt(f, j).arg > 0
  BY DEF Lives
<1>3. i \in Int /\ h \in Int
  BY DEF Records
<1>4. i = h \/ i > h \/ h > i
  BY <1>3
<1>. QED BY <1>1, <1>2, <1>4

(* A key that lives was set or given a lifetime last. *)
LEMMA LivesLast ==
  ASSUME NEW f, NEW n \in Nat, NEW k, NEW v, Lives(f, n, k, v)
  PROVE  \E i \in Records(f, n, k) : Lasting(f, n, k, i) /\ RecordAt(f, i).op \in {"SET", "EXPIRE"}
<1>1. PICK j \in Records(f, n, k) :
        /\ RecordAt(f, j).op = "SET"
        /\ \A l \in Records(f, n, k) : l > j => RecordAt(f, l).op = "EXPIRE"
  BY DEF Lives
<1>2. PICK i \in Records(f, n, k) : Lasting(f, n, k, i)
  BY LastRecord
<1>3. i \in Int /\ j \in Int /\ j <= i
  BY <1>2 DEF Lasting, Records
<1>4. i = j \/ i > j
  BY <1>3
<1>. QED BY <1>1, <1>2, <1>4

(* The records that the properties speak of. *)
LEMMA ReadableRecords ==
  ASSUME TypeOK, Intact, NEW k
  PROVE  /\ RecordsOf(k) = Records(file, Len(file), k)
         /\ \A i : Lasting(file, Len(file), k, i) => LastOp(k) = RecordAt(file, i).op
<1>. DEFINE n == Len(file)
            R == Records(file, n, k)
<1>0. file \in Seq(Pieces) /\ n \in Nat /\ DOMAIN file = 1 .. n
  BY WorkerFacts
<1>1. ASSUME NEW i \in 1 .. n  PROVE Parses(file, i) <=> file[i].part # "torn"
  <2>1. file[i].part \in {"whole", "bare", "torn"}
    BY <1>0, RecordFacts
  <2>2. i = 1 \/ file[i - 1].part = "whole"
    <3>1. i # 1 => i - 1 \in 1 .. n - 1
      BY <1>0
    <3>. QED BY <3>1 DEF Intact
  <2>3. i # n => file[i].part = "whole"
    <3>1. i # n => i \in 1 .. n - 1
      <4>. HIDE DEF n
      <4>1. i \in 1 .. n /\ n \in Nat
        BY <1>0 DEF n
      <4>. QED BY <4>1
    <3>. QED BY <3>1, Zenon DEF Intact
  <2>. QED BY <2>1, <2>2, <2>3 DEF Parses
<1>2. RecordsOf(k) = R
  BY <1>0, <1>1 DEF RecordsOf, Records, RecordAt
<1>3. ASSUME NEW i, Lasting(file, n, k, i)  PROVE LastOp(k) = RecordAt(file, i).op
  <2>1. i \in R /\ (\A j \in R : i >= j) /\ R \subseteq 1 .. n
    BY <1>0, <1>3 DEF Lasting, Records
  <2>2. IsFiniteSet(R) /\ R \subseteq Int /\ R # {}
    <3>1. IsFiniteSet(1 .. n)
      BY <1>0, FS_Interval
    <3>. HIDE DEF R
    <3>2. R \in SUBSET (1 .. n)
      BY <2>1
    <3>3. IsFiniteSet(R)
      BY <3>1, <3>2, FS_Subset
    <3>. QED BY <2>1, <3>3
  <2>. HIDE DEF R
  <2>3. Max(R) \in R /\ \A j \in R : j <= Max(R)
    BY <2>2, MaxOK
  <2>4. Max(R) = i
    <3>1. Max(R) \in Int /\ i \in Int /\ i <= Max(R) /\ i >= Max(R)
      BY <2>1, <2>2, <2>3
    <3>. QED BY <3>1
  <2>. QED BY <1>2, <2>2, <2>4 DEF LastOp, RecordAt
<1>. QED BY <1>2, <1>3
(* A worker that has replayed its log, and clients that remember. *)
LEMMA RecoveredKey ==
  ASSUME TypeOK, Recalled, Recovered, Intact, NEW k \in Keys
  PROVE  /\ ReflectsKey(file, Len(file), Remembered, began, k)
         /\ ReflectsKey(file, Len(file), store, now, k)
         /\ RebuiltKey(file, Len(file), store, began, now, k)
<1>1. mode = "replaying" /\ cursor - 1 = Len(file) /\ Len(file) \in 0 .. Len(file)
      /\ memory[Len(file) + 1] = Remembered
  BY WorkerFacts DEF Recovered, Remembered
<1>2. Sound(file, Len(file))
  BY DEF Sound, Intact
<1>3. Reflects(file, Len(file), Remembered, began)
  <2>1. Reflects(file, Len(file), memory[Len(file) + 1], began)
    BY <1>1, <1>2 DEF Recalled, Remembers
  <2>. QED BY <1>1, <2>1
<1>4. /\ Reflects(file, Len(file), store, now)
      /\ RebuiltKey(file, Len(file), store, began, now, k)
  BY <1>1, <1>2 DEF Recalled
<1>. QED BY <1>3, <1>4 DEF Reflects

LEMMA KnownKeys ==
  ASSUME TypeOK
  PROVE  /\ DOMAIN store.data \subseteq Keys
         /\ DOMAIN Remembered.data \subseteq Keys
<1>1. Remembered \in Range(memory)
  BY WorkerFacts DEF Remembered, Range
<1>2. IsView(Remembered)
  BY <1>1 DEF TypeOK, Told
<1>3. IsDict(store.data, Keys)
  BY WorkerFacts, StoreParts
<1>. QED BY <1>2, <1>3 DEF IsView, IsDict

(* Recovery brings back the keys and values that clients had last seen,    *)
(* whatever deaths and recoveries lie between.  FLUSHALL, which is not     *)
(* logged, must not be among the commands.                                 *)
THEOREM RecoveryIsFaithful ==
  ASSUME "FLUSHALL" \notin Ops
  PROVE  Spec => []RecoversMemory
<1>1. TypeOK /\ Recalled => RecoversMemory
  <2>. SUFFICES ASSUME TypeOK, Recalled, Recovered, Intact
                PROVE  /\ \A k \in DOMAIN Remembered.data :
                            \/ k \in DOMAIN store.data /\ store.data[k] = Remembered.data[k]
                            \/ k \notin DOMAIN store.data /\ LastOp(k) = "EXPIRE" /\ Outlasted(k)
                       /\ \A k \in DOMAIN store.data \ DOMAIN Remembered.data :
                            LastOp(k) = "EXPIRE"
    BY DEF RecoversMemory
  <2>. DEFINE n == Len(file)
              told == Remembered
  <2>0. n \in Nat /\ DOMAIN store.data \subseteq Keys /\ DOMAIN told.data \subseteq Keys
    BY WorkerFacts, KnownKeys
  <2>1. \A k \in Keys : /\ ReflectsKey(file, n, told, began, k)
                        /\ ReflectsKey(file, n, store, now, k)
                        /\ RebuiltKey(file, n, store, began, now, k)
    BY RecoveredKey
  <2>2. \A k : /\ RecordsOf(k) = Records(file, n, k)
              /\ \A i : Lasting(file, n, k, i) => LastOp(k) = RecordAt(file, i).op
    BY ReadableRecords
  <2>3. \A k : \A v : Lives(file, n, k, v) =>
          \E i \in Records(file, n, k) :
            Lasting(file, n, k, i) /\ RecordAt(file, i).op \in {"SET", "EXPIRE"}
    BY <2>0, LivesLast
  <2>. HIDE DEF n, told
  <2>4. ASSUME NEW k \in DOMAIN told.data, k \in DOMAIN store.data
        PROVE  store.data[k] = told.data[k]
    <3>1. Lives(file, n, k, told.data[k]) /\ Lives(file, n, k, store.data[k])
      BY <2>0, <2>1, <2>4 DEF ReflectsKey
    <3>. QED BY <2>0, <3>1, LivesOnce
  <2>5. ASSUME NEW k \in DOMAIN told.data, k \notin DOMAIN store.data
        PROVE  LastOp(k) = "EXPIRE" /\ Outlasted(k)
    <3>. DEFINE v == told.data[k]
    <3>1. Lives(file, n, k, v) /\ k \in Keys
      BY <2>0, <2>1 DEF ReflectsKey
    <3>. HIDE DEF v
    <3>2. PICK i \in Records(file, n, k) :
            Lasting(file, n, k, i) /\ RecordAt(file, i).op \in {"SET", "EXPIRE"}
      BY <2>3, <3>1
    <3>3. RecordAt(file, i).op = "EXPIRE"
      BY <2>1, <2>5, <3>1, <3>2 DEF ReflectsKey
    <3>4. v \in Values
      <4>1. PICK j \in Records(file, n, k) : RecordAt(file, j).op = "SET" /\ RecordAt(file, j).arg = v
        BY <3>1 DEF Lives
      <4>2. j \in 1 .. Len(file) /\ file \in Seq(Pieces)
        BY WorkerFacts DEF Records, n
      <4>. QED BY <4>1, <4>2, RecordFacts
    <3>5. Outrun(file, n, k, now - began)
      BY <2>1, <2>5, <3>1, <3>4 DEF RebuiltKey
    <3>6. Outlasted(k)
      BY <2>2, <3>5 DEF Outrun, Outlasted, RecordAt, Lifetime
    <3>. QED BY <2>2, <3>2, <3>3, <3>6
  <2>6. ASSUME NEW k \in DOMAIN store.data, k \notin DOMAIN told.data
        PROVE  LastOp(k) = "EXPIRE"
    <3>. DEFINE v == store.data[k]
    <3>1. Lives(file, n, k, v) /\ k \in Keys
      BY <2>0, <2>1 DEF ReflectsKey
    <3>. HIDE DEF v
    <3>2. PICK i \in Records(file, n, k) :
            Lasting(file, n, k, i) /\ RecordAt(file, i).op \in {"SET", "EXPIRE"}
      BY <2>3, <3>1
    <3>3. RecordAt(file, i).op = "EXPIRE"
      BY <2>1, <2>6, <3>1, <3>2 DEF ReflectsKey
    <3>. QED BY <2>2, <3>2, <3>3
  <2>. QED BY <2>4, <2>5, <2>6 DEF told
<1>. QED BY <1>1, AlwaysRecalled, PTL

(* A key that is back does not expire earlier than clients were told.      *)
THEOREM LifetimesAreKept ==
  ASSUME "FLUSHALL" \notin Ops
  PROVE  Spec => []KeepsLiveKeys
<1>1. TypeOK /\ Recalled => KeepsLiveKeys
  <2>. DEFINE n == Len(file)
              told == Remembered
  <2>. SUFFICES ASSUME TypeOK, Recalled, Recovered, Intact
                PROVE  LET live == {k \in DOMAIN told.data \cap DOMAIN store.data :
                                      k \in DOMAIN told.expiresAt => told.expiresAt[k] > now}
                       IN  \A k \in live :
                             /\ (k \in DOMAIN store.expiresAt) = (k \in DOMAIN told.expiresAt)
                             /\ k \in DOMAIN told.expiresAt => store.expiresAt[k] >= told.expiresAt[k]
    BY Zenon DEF KeepsLiveKeys
  <2>1. SUFFICES ASSUME NEW k \in DOMAIN told.data \cap DOMAIN store.data
                 PROVE  /\ k \in DOMAIN store.expiresAt <=> k \in DOMAIN told.expiresAt
                        /\ k \in DOMAIN told.expiresAt => store.expiresAt[k] >= told.expiresAt[k]
    <3>. HIDE DEF told
    <3>. QED OBVIOUS
  <2>2. n \in Nat /\ k \in Keys /\ file \in Seq(Pieces) /\ began \in Int
    BY WorkerFacts, KnownKeys
  <2>3. /\ ReflectsKey(file, n, told, began, k)
        /\ ReflectsKey(file, n, store, now, k)
        /\ RebuiltKey(file, n, store, began, now, k)
    BY <2>1, <2>2, RecoveredKey
  <2>4. PICK i \in Records(file, n, k) :
          Lasting(file, n, k, i) /\ RecordAt(file, i).op \in {"SET", "EXPIRE"}
    <3>1. Lives(file, n, k, store.data[k])
      BY <2>3 DEF ReflectsKey
    <3>. QED BY <2>2, <3>1, LivesLast
  <2>5. i \in 1 .. n
    BY DEF Records
  <2>. HIDE DEF told
  <2>6. CASE RecordAt(file, i).op = "SET"
    <3>1. k \notin DOMAIN store.expiresAt /\ k \notin DOMAIN told.expiresAt
      BY <2>3, <2>4, <2>6 DEF ReflectsKey
    <3>. QED BY <3>1
  <2>7. CASE RecordAt(file, i).op = "EXPIRE"
    <3>1. k \in DOMAIN told.data
      OBVIOUS
    <3>2. Lifetime(file, i) \in Int
      BY <2>2, <2>5, <2>7, RecordFacts
    <3>3. /\ k \in DOMAIN told.expiresAt /\ told.expiresAt[k] \in Int
          /\ told.expiresAt[k] <= began + Lifetime(file, i)
      BY <2>3, <2>4, <2>7, <3>1 DEF ReflectsKey
    <3>4. /\ k \in DOMAIN store.expiresAt /\ store.expiresAt[k] \in Int
          /\ began + Lifetime(file, i) <= store.expiresAt[k]
      BY <2>3, <2>4, <2>7 DEF ReflectsKey, RebuiltKey
    <3>5. told.expiresAt[k] <= store.expiresAt[k]
      BY <2>2, <3>2, <3>3, <3>4
    <3>. QED BY <3>3, <3>4, <3>5
  <2>. QED BY <2>4, <2>6, <2>7
<1>. QED BY <1>1, AlwaysRecalled, PTL

=============================================================================
