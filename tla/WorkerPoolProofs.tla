--------------------------- MODULE WorkerPoolProofs ---------------------------
(***************************************************************************)
(* What the pool guarantees for any number of connections, requests,       *)
(* workers and threads, through the deaths of workers and close().  The    *)
(* inductive invariant has four parts, in this order: types; where each    *)
(* request sent is (Flow); that no request is at two places (Sending to    *)
(* Answered); and the count of the threads that wait (Counted).  The last  *)
(* section is about a client that shares its worker with nobody.           *)
(***************************************************************************)
EXTENDS WorkerPool, SequenceTheorems, FiniteSetTheorems, TLAPS

-----------------------------------------------------------------------------
(* Types. *)

(* One step keeps the type of every variable. *)
LEMMA TypeStep == TypeOK /\ [Next]_vars => TypeOK'
<1>. SUFFICES ASSUME TypeOK, [Next]_vars PROVE TypeOK'
  OBVIOUS
<1>. USE PoolAssumption DEF TypeOK
<1>1. ASSUME NEW c \in Clients, NEW w \in Workers, Send(c, w)  PROVE TypeOK'
  <2>. DEFINE request == <<c, conn[c].count + 1>>
  <2>1. request \in Requests
    <3>1. conn[c].count \in Nat /\ conn[c].count < MaxRequests
      BY <1>1 DEF Send
    <3>2. conn[c].count + 1 \in 1 .. MaxRequests
      BY <3>1
    <3>. QED BY <3>2, Zenon DEF Requests
  <2>2. /\ conn' = [conn EXCEPT ![c] = [state |-> "waiting",
                                        count |-> conn[c].count + 1, worker |-> w]]
        /\ requestQ' = [requestQ EXCEPT ![w] = Append(requestQ[w], request)]
        /\ jobs' = Append(jobs, [request |-> request, worker |-> w])
        /\ sent' = [sent EXCEPT ![w] = Append(sent[w], request)]
        /\ conn[c].count + 1 \in 0 .. MaxRequests
        /\ UNCHANGED <<responseQ, worker, running, phase, joined, crashes, executed, answers>>
    BY <1>1 DEF Send, main
  <2>. HIDE DEF request
  <2>3. conn' \in [Clients -> [state  : {"idle", "waiting", "cancelled"},
                               count  : 0 .. MaxRequests, worker : Workers]]
    BY <2>2
  <2>4. Append(requestQ[w], request) \in Seq(Messages) /\ Append(sent[w], request) \in Seq(Requests)
    BY <2>1 DEF Messages
  <2>5. jobs' \in Seq(Jobs)
    BY <2>1, <2>2 DEF Jobs
  <2>. QED BY <2>2, <2>3, <2>4, <2>5
<1>2. CASE StartJob
  <2>1. Head(jobs) \in Jobs /\ Tail(jobs) \in Seq(Jobs)
    BY <1>2 DEF StartJob
  <2>2. IsFiniteSet(running \cup {Head(jobs)})
    BY FS_AddElement
  <2>. QED BY <1>2, <2>1, <2>2 DEF StartJob, main, history
<1>3. ASSUME NEW job \in running, Receive(job)  PROVE TypeOK'
  <2>. DEFINE c == job.request[1]
              w == job.worker
  <2>1. /\ c \in Clients /\ w \in Workers /\ job.request \in Requests
        /\ responseQ[w] # <<>>
        /\ responseQ' = [responseQ EXCEPT ![w] = Tail(responseQ[w])]
        /\ running' = running \ {job}
        /\ UNCHANGED <<requestQ, worker, jobs, phase, joined, crashes, sent, executed>>
    BY <1>3 DEF Receive, main, Requests, Jobs
  <2>2. Head(responseQ[w]) \in Requests /\ Tail(responseQ[w]) \in Seq(Requests)
    BY <2>1
  <2>3. /\ conn' \in [Clients -> [state  : {"idle", "waiting", "cancelled"},
                                 count  : 0 .. MaxRequests, worker : Workers]]
        /\ answers' \subseteq [request : Requests, response : Requests]
    <3>1. CASE phase = "serving"
      <4>1. /\ conn' = [conn EXCEPT ![c].state = "idle"]
            /\ answers' = answers \cup {[request |-> job.request, response |-> Head(responseQ[w])]}
        BY <1>3, <3>1 DEF Receive
      <4>2. conn' \in [Clients -> [state  : {"idle", "waiting", "cancelled"},
                                   count  : 0 .. MaxRequests, worker : Workers]]
        <5>1. [conn[c] EXCEPT !.state = "idle"] \in [state  : {"idle", "waiting", "cancelled"},
                                                     count  : 0 .. MaxRequests, worker : Workers]
          <6>. DEFINE Conn == [state  : {"idle", "waiting", "cancelled"},
                               count  : 0 .. MaxRequests, worker : Workers]
          <6>1. conn[c] \in Conn
            BY <2>1
          <6>2. \A r \in Conn : [r EXCEPT !.state = "idle"] \in Conn
            BY Zenon
          <6>. QED BY Zenon, <6>1, <6>2
        <5>2. conn' = [conn EXCEPT ![c] = [conn[c] EXCEPT !.state = "idle"]]
          BY <4>1
        <5>. QED BY Zenon, <2>1, <5>1, <5>2
      <4>3. [request |-> job.request, response |-> Head(responseQ[w])]
              \in [request : Requests, response : Requests]
        BY <2>1, <2>2
      <4>. QED BY <4>1, <4>2, <4>3
    <3>2. CASE phase # "serving"
      BY <1>3, <3>2 DEF Receive
    <3>. QED BY <3>1, <3>2
  <2>4. IsFiniteSet(running')
    BY <2>1, FS_RemoveElement
  <2>. HIDE DEF c, w
  <2>5. responseQ' \in [Workers -> Seq(Requests)]
    BY <2>1, <2>2
  <2>. QED BY <2>1, <2>3, <2>4, <2>5
<1>4. CASE Close
  <2>1. \A w \in Workers : Append(requestQ[w], Shutdown) \in Seq(Messages)
    BY DEF Messages
  <2>. QED BY <1>4, <2>1 DEF Close, history
<1>5. CASE Join
  BY <1>5 DEF Join, history
<1>6. ASSUME NEW w \in Workers, Dies(w)
      PROVE  /\ worker' \in [Workers -> [state : {"running", "stopped", "dead"},
                                         busy  : Requests \cup {None}]]
             /\ responseQ' \in [Workers -> Seq(Requests)]
  <2>1. PICK n \in 0 .. Len(responseQ[w]) :
          responseQ' = [responseQ EXCEPT ![w] = SubSeq(responseQ[w], 1, n)]
    BY <1>6 DEF Dies
  <2>2. SubSeq(responseQ[w], 1, n) \in Seq(Requests)
    BY SubSeqProperties
  <2>. QED BY <1>6, <2>1, <2>2 DEF Dies
<1>7. CASE Terminate
  <2>1. joined \in Workers
    BY <1>7 DEF Terminate, Workers
  <2>. QED BY <1>6, <1>7, <2>1 DEF Terminate, history
<1>8. CASE Exit
  <2>1. conn' \in [Clients -> [state  : {"idle", "waiting", "cancelled"},
                               count  : 0 .. MaxRequests, worker : Workers]]
    <3>. DEFINE Conn == [state  : {"idle", "waiting", "cancelled"},
                         count  : 0 .. MaxRequests, worker : Workers]
    <3>1. \A r \in Conn : [r EXCEPT !.state = "cancelled"] \in Conn
      BY Zenon
    <3>2. \A c \in Clients : conn[c] \in Conn
      OBVIOUS
    <3>3. conn' = [c \in Clients |-> [conn[c] EXCEPT !.state = "cancelled"]]
      BY <1>8 DEF Exit
    <3>. HIDE DEF Conn
    <3>4. conn' \in [Clients -> Conn]
      BY <3>1, <3>2, <3>3, Zenon
    <3>. QED BY <3>4 DEF Conn
  <2>. QED BY <1>8, <2>1 DEF Exit, history
<1>9. ASSUME NEW w \in Workers, Handle(w)  PROVE TypeOK'
  <2>1. /\ Head(requestQ[w]) \in Requests
        /\ Tail(requestQ[w]) \in Seq(Messages)
    BY <1>9 DEF Handle, Messages
  <2>2. Append(executed[w], Head(requestQ[w])) \in Seq(Requests)
    BY <2>1
  <2>. QED BY <1>9, <2>1, <2>2 DEF Handle, main
<1>10. ASSUME NEW w \in Workers, Respond(w)  PROVE TypeOK'
  <2>1. worker[w].busy \in Requests
    BY <1>10 DEF Respond
  <2>2. Append(responseQ[w], worker[w].busy) \in Seq(Requests)
    BY <2>1
  <2>. QED BY <1>10, <2>2 DEF Respond, main, history
<1>11. ASSUME NEW w \in Workers, Stop(w)  PROVE TypeOK'
  BY SMTT(60), <1>11 DEF Stop, main, history
<1>12. ASSUME NEW w \in Workers, Crash(w)  PROVE TypeOK'
  BY <1>6, <1>12 DEF Crash, main, history
<1>13. CASE UNCHANGED vars
  BY <1>13 DEF vars
<1>. QED
  BY <1>1, <1>2, <1>3, <1>4, <1>5, <1>7, <1>8, <1>9, <1>10, <1>11, <1>12, <1>13
     DEF Next, MainStep, WorkerStep

-----------------------------------------------------------------------------
(* Where each request is. *)

\* What was sent is what was executed and then what is in the queue ...
InLine(s, e, q) ==
  /\ Len(s) = Len(e) + Len(q)
  /\ \A i \in 1 .. Len(e) : e[i] = s[i]
  /\ \A i \in 1 .. Len(q) : q[i] = s[Len(e) + i]

\* ... in which the shutdown message has the place p.
InLineAround(s, e, q, p) ==
  /\ p \in 1 .. Len(q) /\ q[p] = Shutdown
  /\ Len(s) + 1 = Len(e) + Len(q)
  /\ \A i \in 1 .. Len(e) : e[i] = s[i]
  /\ \A i \in 1 .. p - 1 : q[i] = s[Len(e) + i]
  /\ \A i \in p + 1 .. Len(q) : q[i] = s[Len(e) + i - 1]

\* The message is in the queue from close() until the worker takes it; it is
\* the last one as long as shutdown_all holds the event loop.
Flow(w) ==
  IF phase = "serving" \/ worker[w].state = "stopped"
  THEN /\ InLine(sent[w], executed[w], requestQ[w])
       /\ worker[w].state = "stopped" =>
            phase # "serving" /\ (joined < WorkerCount => requestQ[w] = <<>>)
  ELSE \E p \in Nat : /\ InLineAround(sent[w], executed[w], requestQ[w], p)
                      /\ joined < WorkerCount => p = Len(requestQ[w])

FlowOK == \A w \in Workers : Flow(w)

(* A request is sent: it is the last. *)
LEMMA SentInLine ==
  ASSUME NEW s \in Seq(Requests), NEW e \in Seq(Requests), NEW q \in Seq(Messages),
         NEW r \in Requests
  PROVE  /\ InLine(s, e, q) => InLine(Append(s, r), e, Append(q, r))
         /\ \A p \in Nat : InLineAround(s, e, q, p)
                            => InLineAround(Append(s, r), e, Append(q, r), p)
<1>. DEFINE t == Append(s, r)
            u == Append(q, r)
<1>1. /\ Len(t) = Len(s) + 1 /\ t[Len(s) + 1] = r
      /\ \A i \in 1 .. Len(s) : t[i] = s[i]
      /\ Len(s) \in Nat /\ Len(e) \in Nat
  OBVIOUS
<1>2. /\ Len(u) = Len(q) + 1 /\ u[Len(q) + 1] = r
      /\ \A i \in 1 .. Len(q) : u[i] = q[i]
      /\ Len(q) \in Nat
  BY DEF Messages
<1>. HIDE DEF t, u
<1>3. ASSUME InLine(s, e, q)  PROVE InLine(t, e, u)
  <2>1. Len(t) = Len(e) + Len(u) /\ \A i \in 1 .. Len(e) : e[i] = t[i]
    BY <1>1, <1>2, <1>3 DEF InLine
  <2>2. ASSUME NEW i \in 1 .. Len(u) PROVE u[i] = t[Len(e) + i]
    <3>1. CASE i = Len(u)
      <4>1. Len(e) + i = Len(s) + 1
        BY <1>2, <1>3, <3>1 DEF InLine
      <4>. QED BY <1>1, <1>2, <3>1, <4>1
    <3>2. CASE i # Len(u)
      <4>1. i \in 1 .. Len(q) /\ Len(e) + i \in 1 .. Len(s)
        BY <1>1, <1>2, <1>3, <2>2, <3>2 DEF InLine
      <4>2. u[i] = q[i] /\ t[Len(e) + i] = s[Len(e) + i]
        BY <1>1, <1>2, <4>1
      <4>. QED BY <1>3, <4>1, <4>2 DEF InLine
    <3>. QED BY <3>1, <3>2
  <2>. QED BY <2>1, <2>2 DEF InLine
<1>4. ASSUME NEW p \in Nat, InLineAround(s, e, q, p)
      PROVE  InLineAround(t, e, u, p)
  <2>1. /\ p \in 1 .. Len(u) /\ u[p] = Shutdown /\ Len(t) + 1 = Len(e) + Len(u)
        /\ \A i \in 1 .. Len(e) : e[i] = t[i]
    BY <1>1, <1>2, <1>4 DEF InLineAround
  <2>2. \A i \in 1 .. p - 1 : u[i] = t[Len(e) + i]
    BY <1>1, <1>2, <1>4 DEF InLineAround
  <2>3. ASSUME NEW i \in p + 1 .. Len(u) PROVE u[i] = t[Len(e) + i - 1]
    <3>1. CASE i = Len(u)
      <4>1. Len(e) + i - 1 = Len(s) + 1
        BY <1>2, <1>4, <3>1 DEF InLineAround
      <4>. QED BY <1>1, <1>2, <3>1, <4>1
    <3>2. CASE i # Len(u)
      <4>1. i \in p + 1 .. Len(q) /\ Len(e) + i - 1 \in 1 .. Len(s)
        BY <1>1, <1>2, <1>4, <2>3, <3>2 DEF InLineAround
      <4>2. u[i] = q[i] /\ t[Len(e) + i - 1] = s[Len(e) + i - 1]
        BY <1>1, <1>2, <1>4, <4>1
      <4>. QED BY <1>4, <4>1, <4>2 DEF InLineAround
    <3>. QED BY <3>1, <3>2
  <2>. QED BY <2>1, <2>2, <2>3 DEF InLineAround
<1>. QED BY <1>3, <1>4 DEF t, u

(* The first request of the queue is executed. *)
LEMMA ExecutedInLine ==
  ASSUME NEW s \in Seq(Requests), NEW e \in Seq(Requests), NEW q \in Seq(Messages),
         q # <<>>, Head(q) # Shutdown
  PROVE  /\ InLine(s, e, q) => InLine(s, Append(e, Head(q)), Tail(q))
         /\ \A p \in Nat : InLineAround(s, e, q, p)
                            => InLineAround(s, Append(e, Head(q)), Tail(q), p - 1)
<1>. DEFINE f == Append(e, Head(q))
            t == Tail(q)
<1>1. /\ Head(q) = q[1] /\ t \in Seq(Messages) /\ Len(t) = Len(q) - 1
      /\ \A i \in 1 .. Len(t) : t[i] = q[i + 1]
      /\ Head(q) \in Requests
  BY DEF Messages
<1>2. /\ Len(f) = Len(e) + 1 /\ f[Len(e) + 1] = q[1]
      /\ \A i \in 1 .. Len(e) : f[i] = e[i]
      /\ Len(s) \in Nat /\ Len(e) \in Nat /\ Len(q) \in Nat /\ Len(q) > 0
  BY <1>1
<1>. HIDE DEF f, t
<1>3. ASSUME InLine(s, e, q)
      PROVE  InLine(s, f, t)
  <2>1. Len(s) = Len(f) + Len(t)
    BY <1>1, <1>2, <1>3 DEF InLine
  <2>2. ASSUME NEW i \in 1 .. Len(f) PROVE f[i] = s[i]
    <3>1. q[1] = s[Len(e) + 1]
      BY <1>2, <1>3 DEF InLine
    <3>2. i = Len(e) + 1 \/ i \in 1 .. Len(e)
      BY <1>2, <2>2
    <3>. QED BY <1>2, <1>3, <3>1, <3>2 DEF InLine
  <2>3. ASSUME NEW i \in 1 .. Len(t) PROVE t[i] = s[Len(f) + i]
    <3>1. i + 1 \in 1 .. Len(q) /\ Len(f) + i = Len(e) + (i + 1)
      BY <1>1, <1>2, <2>3
    <3>. QED BY <1>1, <1>3, <2>3, <3>1 DEF InLine
  <2>. QED BY <2>1, <2>2, <2>3 DEF InLine
<1>4. ASSUME NEW p \in Nat, InLineAround(s, e, q, p)
      PROVE  InLineAround(s, f, t, p - 1)
  <2>1. p > 1
    BY <1>1, <1>4, PoolAssumption DEF InLineAround
  <2>. q[1] = s[Len(e) + 1]
    <3>1. 1 \in 1 .. p - 1
      BY <2>1
    <3>. QED BY <1>4, <3>1 DEF InLineAround
  <2>2. /\ p - 1 \in 1 .. Len(t) /\ t[p - 1] = Shutdown
        /\ Len(s) + 1 = Len(f) + Len(t)
    <3>. p \in 1 .. Len(q) /\ Len(s) + 1 = Len(e) + Len(q)
      BY <1>4 DEF InLineAround
    <3>. Len(t) = Len(q) - 1 /\ Len(f) = Len(e) + 1
      BY <1>1, <1>2
    <3>1. /\ p - 1 \in 1 .. Len(t) /\ (p - 1) + 1 = p
          /\ Len(s) + 1 = Len(f) + Len(t)
      BY <1>2, <2>1
    <3>2. t[p - 1] = q[(p - 1) + 1]
      BY <1>1, <3>1
    <3>. QED BY <1>4, <3>1, <3>2 DEF InLineAround
  <2>3. ASSUME NEW i \in 1 .. Len(f) PROVE f[i] = s[i]
    <3>1. i = Len(e) + 1 \/ i \in 1 .. Len(e)
      BY <1>2, <2>3
    <3>. QED BY <1>2, <1>4, <3>1 DEF InLineAround
  <2>4. ASSUME NEW i \in 1 .. p - 2 PROVE t[i] = s[Len(f) + i]
    <3>1. i + 1 \in 1 .. p - 1 /\ Len(f) + i = Len(e) + (i + 1) /\ i \in 1 .. Len(t)
      BY <1>1, <1>2, <1>4, <2>4 DEF InLineAround
    <3>. QED BY <1>1, <1>4, <3>1 DEF InLineAround
  <2>5. ASSUME NEW i \in p .. Len(t) PROVE t[i] = s[Len(f) + i - 1]
    <3>1. /\ i + 1 \in p + 1 .. Len(q) /\ i \in 1 .. Len(t)
          /\ Len(f) + i - 1 = Len(e) + (i + 1) - 1
      BY <1>1, <1>2, <1>4, <2>5 DEF InLineAround
    <3>. QED BY <1>1, <1>4, <3>1 DEF InLineAround
  <2>. QED BY <2>2, <2>3, <2>4, <2>5 DEF InLineAround
<1>. QED BY <1>3, <1>4 DEF f, t

(* close() puts the message, and the worker takes it. *)
LEMMA ShutdownInLine ==
  ASSUME NEW s \in Seq(Requests), NEW e \in Seq(Requests), NEW q \in Seq(Messages)
  PROVE  /\ InLine(s, e, q) => InLineAround(s, e, Append(q, Shutdown), Len(q) + 1)
         /\ \A p \in Nat : InLineAround(s, e, q, p) /\ Head(q) = Shutdown
                            => InLine(s, e, Tail(q)) /\ p = 1
<1>1. ASSUME InLine(s, e, q)
      PROVE  InLineAround(s, e, Append(q, Shutdown), Len(q) + 1)
  <2>1. /\ Len(Append(q, Shutdown)) = Len(q) + 1
        /\ Append(q, Shutdown)[Len(q) + 1] = Shutdown
        /\ \A i \in 1 .. Len(q) : Append(q, Shutdown)[i] = q[i]
        /\ Len(s) \in Nat /\ Len(e) \in Nat /\ Len(q) \in Nat
    BY DEF Messages
  <2>. QED BY <1>1, <2>1 DEF InLine, InLineAround
<1>2. ASSUME NEW p \in Nat, InLineAround(s, e, q, p), Head(q) = Shutdown
      PROVE  InLine(s, e, Tail(q)) /\ p = 1
  <2>1. /\ q # <<>> /\ Head(q) = q[1] /\ Len(Tail(q)) = Len(q) - 1
        /\ \A i \in 1 .. Len(Tail(q)) : Tail(q)[i] = q[i + 1]
        /\ Len(s) \in Nat /\ Len(e) \in Nat /\ Len(q) \in Nat
    BY <1>2 DEF InLineAround
  <2>2. p = 1
    <3>1. ASSUME p > 1 PROVE FALSE
      <4>1. q[1] = s[Len(e) + 1] /\ Len(e) + 1 \in 1 .. Len(s)
        BY <1>2, <2>1, <3>1 DEF InLineAround
      <4>. QED BY <1>2, <2>1, <4>1, PoolAssumption
    <3>. QED BY <1>2, <3>1 DEF InLineAround
  <2>. QED BY <1>2, <2>1, <2>2 DEF InLine, InLineAround
<1>. QED BY <1>1, <1>2

(* A step that neither moves a request nor stops a worker. *)
LEMMA FlowSame ==
  ASSUME TypeOK, NEW w \in Workers, Flow(w),
         sent'[w] = sent[w], executed'[w] = executed[w], requestQ'[w] = requestQ[w],
         (phase' = "serving") = (phase = "serving"), joined <= joined', joined' \in Int,
         (worker'[w].state = "stopped") = (worker[w].state = "stopped")
  PROVE  Flow(w)'
<1>. joined \in Int /\ WorkerCount \in Int
  BY PoolAssumption DEF TypeOK
<1>1. joined' < WorkerCount => joined < WorkerCount
  OBVIOUS
<1>. QED BY <1>1 DEF Flow, InLine, InLineAround

(* Before close() no worker has been asked to stop. *)
LEMMA NoShutdownYet ==
  ASSUME TypeOK, NEW w \in Workers, InLine(sent[w], executed[w], requestQ[w])
  PROVE  \A i \in 1 .. Len(requestQ[w]) : requestQ[w][i] \in Requests /\ requestQ[w][i] # Shutdown
<1>. DEFINE a == Len(sent[w])
            b == Len(executed[w])
            d == Len(requestQ[w])
<1>1. a = b + d /\ \A i \in 1 .. d : requestQ[w][i] = sent[w][b + i]
  BY DEF InLine
<1>2. a \in Nat /\ b \in Nat /\ d \in Nat /\ \A i \in 1 .. a : sent[w][i] \in Requests
  BY LenProperties DEF TypeOK
<1>. HIDE DEF a, b, d
<1>3. ASSUME NEW i \in 1 .. d  PROVE requestQ[w][i] \in Requests
  <2>1. b + i \in 1 .. a
    BY <1>1, <1>2
  <2>. QED BY <1>1, <1>2, <2>1
<1>. QED BY <1>3, PoolAssumption DEF d

(* One step keeps every request in its line. *)
LEMMA FlowStep == TypeOK /\ FlowOK /\ [Next]_vars => FlowOK'
<1>. SUFFICES ASSUME TypeOK, FlowOK, [Next]_vars, NEW v \in Workers
              PROVE  Flow(v)'
  BY DEF FlowOK, Workers
<1>. /\ Flow(v) /\ joined \in Int /\ WorkerCount \in Int
     /\ sent[v] \in Seq(Requests) /\ executed[v] \in Seq(Requests)
     /\ requestQ[v] \in Seq(Messages)
  BY PoolAssumption DEF FlowOK, TypeOK
<1>1. ASSUME NEW c \in Clients, NEW w \in Workers, Send(c, w)  PROVE Flow(v)'
  <2>. DEFINE request == <<c, conn[c].count + 1>>
  <2>. /\ request \in Requests
       /\ requestQ' = [requestQ EXCEPT ![w] = Append(requestQ[w], request)]
       /\ sent' = [sent EXCEPT ![w] = Append(sent[w], request)]
    <3>1. conn[c].count + 1 \in 1 .. MaxRequests
      BY SMTT(60), <1>1, PoolAssumption DEF Send, TypeOK
    <3>. QED BY <1>1, <3>1 DEF Send, Requests
  <2>1. /\ phase = "serving" \/ joined = WorkerCount
        /\ UNCHANGED <<worker, phase, joined, executed>>
    BY <1>1 DEF Send, main
  <2>. HIDE DEF request
  <2>2. CASE v # w
    <3>1. sent'[v] = sent[v] /\ requestQ'[v] = requestQ[v]
      BY <2>1, <2>2 DEF TypeOK
    <3>. QED BY <2>1, <3>1, FlowSame
  <2>3. CASE v = w
    <3>1. /\ requestQ'[v] = Append(requestQ[v], request)
          /\ sent'[v] = Append(sent[v], request) /\ executed'[v] = executed[v]
      BY <2>1, <2>3 DEF TypeOK
    <3>2. /\ InLine(sent[v], executed[v], requestQ[v])
               => InLine(sent'[v], executed'[v], requestQ'[v])
          /\ \A p \in Nat : InLineAround(sent[v], executed[v], requestQ[v], p)
               => InLineAround(sent'[v], executed'[v], requestQ'[v], p)
      BY <2>1, <3>1, SentInLine
    <3>3. ~ (phase # "serving" /\ joined < WorkerCount)
      BY <2>1
    <3>. QED BY <2>1, <3>2, <3>3 DEF Flow
  <2>. QED BY <2>2, <2>3
<1>2. CASE StartJob
  BY <1>2, FlowSame DEF StartJob, main, history
<1>3. ASSUME NEW job \in running, Receive(job)  PROVE Flow(v)'
  BY <1>3, FlowSame DEF Receive, main
<1>4. CASE Close
  <2>1. /\ phase = "serving" /\ phase' = "stopping"
        /\ requestQ'[v] = Append(requestQ[v], Shutdown)
        /\ UNCHANGED <<worker, joined, sent, executed>>
    BY <1>4 DEF Close, history
  <2>2. worker[v].state # "stopped" /\ InLine(sent[v], executed[v], requestQ[v])
    BY <2>1 DEF Flow
  <2>3. InLineAround(sent[v], executed[v], requestQ'[v], Len(requestQ[v]) + 1)
    BY <2>1, <2>2, ShutdownInLine
  <2>4. Len(requestQ'[v]) = Len(requestQ[v]) + 1 /\ Len(requestQ[v]) + 1 \in Nat
    BY <2>1 DEF Messages
  <2>. QED BY <2>1, <2>2, <2>3, <2>4 DEF Flow
<1>5. CASE Join
  BY <1>5, FlowSame DEF Join, history
<1>6. CASE Terminate
  <2>1. joined \in Workers
    BY <1>6 DEF Terminate, Workers, TypeOK
  <2>2. (worker'[v].state = "stopped") = (worker[v].state = "stopped")
    BY <1>6, <2>1 DEF Terminate, Dies, TypeOK
  <2>. QED BY <1>6, <2>2, FlowSame DEF Terminate, history
<1>7. CASE Exit
  BY <1>7, FlowSame DEF Exit, history
<1>8. ASSUME NEW w \in Workers, Handle(w)  PROVE Flow(v)'
  <2>1. /\ worker[w].state = "running" /\ requestQ[w] # <<>> /\ Head(requestQ[w]) # Shutdown
        /\ requestQ' = [requestQ EXCEPT ![w] = Tail(requestQ[w])]
        /\ executed' = [executed EXCEPT ![w] = Append(executed[w], Head(requestQ[w]))]
        /\ worker' = [worker EXCEPT ![w].busy = Head(requestQ[w])]
        /\ UNCHANGED <<phase, joined, sent>>
    BY <1>8 DEF Handle, main
  <2>2. worker'[v].state = worker[v].state
    BY <2>1 DEF TypeOK
  <2>3. CASE v # w
    <3>1. executed'[v] = executed[v] /\ requestQ'[v] = requestQ[v]
      BY <2>1, <2>3 DEF TypeOK
    <3>. QED BY <2>1, <2>2, <3>1, FlowSame
  <2>4. CASE v = w
    <3>1. /\ requestQ'[v] = Tail(requestQ[v])
          /\ executed'[v] = Append(executed[v], Head(requestQ[v])) /\ sent'[v] = sent[v]
      BY <2>1, <2>4 DEF TypeOK
    <3>2. /\ InLine(sent[v], executed[v], requestQ[v])
               => InLine(sent'[v], executed'[v], requestQ'[v])
          /\ \A p \in Nat : InLineAround(sent[v], executed[v], requestQ[v], p)
               => InLineAround(sent'[v], executed'[v], requestQ'[v], p - 1)
      BY <2>1, <2>4, <3>1, ExecutedInLine
    <3>3. Len(requestQ'[v]) = Len(requestQ[v]) - 1 /\ Len(requestQ[v]) \in Nat
      <4>1. requestQ[v] # <<>>
        BY <2>1, <2>4
      <4>. QED BY <3>1, <4>1, HeadTailProperties, LenProperties
    <3>4. CASE phase = "serving"
      BY <2>1, <2>2, <2>4, <3>2, <3>4 DEF Flow
    <3>5. CASE phase # "serving"
      <4>1. PICK p \in Nat : /\ InLineAround(sent[v], executed[v], requestQ[v], p)
                             /\ joined < WorkerCount => p = Len(requestQ[v])
        BY <2>1, <2>4, <3>5 DEF Flow
      <4>2. p - 1 \in Nat /\ (joined < WorkerCount => p - 1 = Len(requestQ'[v]))
        BY <3>3, <4>1 DEF InLineAround
      <4>. QED BY <2>1, <2>2, <2>4, <3>2, <3>5, <4>1, <4>2 DEF Flow
    <3>. QED BY <3>4, <3>5
  <2>. QED BY <2>3, <2>4
<1>9. ASSUME NEW w \in Workers, Respond(w)  PROVE Flow(v)'
  <2>1. worker'[v].state = worker[v].state
    BY <1>9 DEF Respond, TypeOK
  <2>. QED BY <1>9, <2>1, FlowSame DEF Respond, main, history
<1>10. ASSUME NEW w \in Workers, Stop(w)  PROVE Flow(v)'
  <2>1. /\ worker[w].state = "running" /\ requestQ[w] # <<>> /\ Head(requestQ[w]) = Shutdown
        /\ requestQ' = [requestQ EXCEPT ![w] = Tail(requestQ[w])]
        /\ worker' = [worker EXCEPT ![w].state = "stopped"]
        /\ UNCHANGED <<phase, joined, sent, executed>>
    BY <1>10 DEF Stop, main, history
  <2>2. CASE v # w
    <3>1. requestQ'[v] = requestQ[v]
      BY <2>1, <2>2 DEF TypeOK
    <3>2. (worker'[v].state = "stopped") = (worker[v].state = "stopped")
      BY <2>1, <2>2 DEF TypeOK
    <3>. QED BY <2>1, <3>1, <3>2, FlowSame
  <2>3. CASE v = w
    <3>1. requestQ'[v] = Tail(requestQ[v]) /\ worker'[v].state = "stopped"
      BY <2>1, <2>3 DEF TypeOK
    <3>2. phase # "serving"
      <4>1. ASSUME InLine(sent[v], executed[v], requestQ[v]) PROVE FALSE
        <5>1. requestQ[v][1] = Shutdown /\ 1 \in 1 .. Len(requestQ[v])
          BY <2>1, <2>3, EmptySeq
        <5>. QED BY <4>1, <5>1, NoShutdownYet
      <4>. QED BY <4>1 DEF Flow
    <3>3. PICK p \in Nat : /\ InLineAround(sent[v], executed[v], requestQ[v], p)
                           /\ joined < WorkerCount => p = Len(requestQ[v])
      BY <2>1, <2>3, <3>2 DEF Flow
    <3>4. InLine(sent[v], executed[v], requestQ'[v]) /\ p = 1
      BY <2>1, <2>3, <3>1, <3>3, ShutdownInLine
    <3>5. joined < WorkerCount => requestQ'[v] = <<>>
      <4>1. Len(requestQ'[v]) = Len(requestQ[v]) - 1 /\ requestQ'[v] \in Seq(Messages)
        BY <2>1, <2>3, <3>1, HeadTailProperties
      <4>2. joined < WorkerCount => Len(requestQ'[v]) = 0
        BY <3>3, <3>4, <4>1
      <4>. QED BY <4>1, <4>2, EmptySeq
    <3>. QED BY <2>1, <3>1, <3>2, <3>4, <3>5 DEF Flow
  <2>. QED BY <2>2, <2>3
<1>11. ASSUME NEW w \in Workers, Crash(w)  PROVE Flow(v)'
  <2>1. (worker'[v].state = "stopped") = (worker[v].state = "stopped")
    BY <1>11 DEF Crash, Dies, TypeOK
  <2>. QED BY <1>11, <2>1, FlowSame DEF Crash, main, history
<1>12. CASE UNCHANGED vars
  BY <1>12, FlowSame DEF vars
<1>. QED
  BY <1>1, <1>2, <1>3, <1>4, <1>5, <1>6, <1>7, <1>8, <1>9, <1>10, <1>11, <1>12
     DEF Next, MainStep, WorkerStep

-----------------------------------------------------------------------------
(* No request is at two places. *)

\* A request is sent once, and a connection has sent no more than it counts.
Sending ==
  /\ \A w \in Workers : \A i \in 1 .. Len(sent[w]) :
       sent[w][i][2] <= conn[sent[w][i][1]].count
  /\ \A v, w \in Workers : \A i \in 1 .. Len(sent[v]), j \in 1 .. Len(sent[w]) :
       sent[v][i] = sent[w][j] => v = w /\ i = j

\* Each job is for a request sent to its worker, and is in one place.
Waiting ==
  /\ \A job \in Range(jobs) \cup running : job.request \in Range(sent[job.worker])
  /\ IsInjective(jobs)
  /\ Range(jobs) \cap running = {}

\* A worker's responses are for requests it has executed, each there once.
Responds(w) ==
  /\ worker[w].state # "running" => worker[w].busy = None
  /\ worker[w].busy # None => worker[w].busy \in Range(executed[w]) \ Range(responseQ[w])
  /\ Range(responseQ[w]) \subseteq Range(executed[w])
  /\ IsInjective(responseQ[w])

Responding == \A w \in Workers : Responds(w)

\* A response given to a client is nowhere else.
Answered == \A a \in answers :
  /\ \E w \in Workers : a.request \in Range(sent[w]) /\ a.response \in Range(executed[w])
  /\ \A w \in Workers : a.response \notin Range(responseQ[w]) \cup {worker[w].busy}
  /\ \A b \in answers : a.response = b.response => a = b

(* The elements of a sequence that grows, shrinks or is cut. *)
LEMMA RangeAppend ==
  ASSUME NEW S, NEW s \in Seq(S), NEW x \in S
  PROVE  /\ Range(Append(s, x)) = Range(s) \cup {x}
         /\ IsInjective(s) /\ x \notin Range(s) => IsInjective(Append(s, x))
<1>. DEFINE t == Append(s, x)
<1>1. /\ DOMAIN s = 1 .. Len(s) /\ DOMAIN t = 1 .. Len(s) + 1 /\ Len(s) \in Nat
      /\ t[Len(s) + 1] = x /\ \A i \in 1 .. Len(s) : t[i] = s[i]
  OBVIOUS
<1>. HIDE DEF t
<1>2. Range(t) = Range(s) \cup {x}
  BY <1>1 DEF Range
<1>3. ASSUME IsInjective(s), x \notin Range(s)  PROVE IsInjective(t)
  BY <1>1, <1>3 DEF Range, IsInjective
<1>. QED BY <1>2, <1>3 DEF t

LEMMA RangeTail ==
  ASSUME NEW S, NEW s \in Seq(S), s # <<>>
  PROVE  /\ Range(s) = {Head(s)} \cup Range(Tail(s))
         /\ IsInjective(s) => IsInjective(Tail(s)) /\ Head(s) \notin Range(Tail(s))
<1>. DEFINE t == Tail(s)
<1>1. /\ DOMAIN s = 1 .. Len(s) /\ DOMAIN t = 1 .. Len(s) - 1 /\ Len(s) \in Nat \ {0}
      /\ Head(s) = s[1] /\ \A i \in 1 .. Len(s) - 1 : t[i] = s[i + 1]
  BY HeadTailProperties, LenProperties, EmptySeq
<1>. HIDE DEF t
<1>2. Range(s) = {Head(s)} \cup Range(t)
  <2>1. ASSUME NEW i \in DOMAIN s  PROVE s[i] \in {Head(s)} \cup Range(t)
    <3>1. CASE i = 1
      BY <1>1, <3>1
    <3>2. CASE i # 1
      <4>1. i - 1 \in DOMAIN t /\ t[i - 1] = s[(i - 1) + 1]
        BY <1>1, <3>2
      <4>. QED BY <1>1, <4>1 DEF Range
    <3>. QED BY <3>1, <3>2
  <2>2. ASSUME NEW i \in DOMAIN t  PROVE t[i] \in Range(s)
    BY <1>1 DEF Range
  <2>. QED BY SMTT(60), <1>1, <2>1, <2>2 DEF Range
<1>3. ASSUME IsInjective(s)  PROVE IsInjective(t) /\ Head(s) \notin Range(t)
  <2>1. ASSUME NEW i \in DOMAIN t, NEW j \in DOMAIN t, t[i] = t[j]  PROVE i = j
    <3>1. i + 1 \in DOMAIN s /\ j + 1 \in DOMAIN s /\ s[i + 1] = s[j + 1]
      BY <1>1, <2>1
    <3>2. i + 1 = j + 1
      BY <1>3, <3>1 DEF IsInjective
    <3>. QED BY <1>1, <3>2
  <2>2. ASSUME NEW i \in DOMAIN t, t[i] = s[1]  PROVE FALSE
    <3>1. i + 1 \in DOMAIN s /\ 1 \in DOMAIN s /\ s[i + 1] = s[1]
      BY <1>1, <2>2
    <3>2. i + 1 = 1
      BY <1>3, <3>1 DEF IsInjective
    <3>. QED BY <1>1, <3>2
  <2>. QED BY <1>1, <2>1, <2>2 DEF Range, IsInjective
<1>. QED BY <1>2, <1>3 DEF t

LEMMA RangeCut ==
  ASSUME NEW S, NEW s \in Seq(S), NEW n \in 0 .. Len(s)
  PROVE  /\ Range(SubSeq(s, 1, n)) \subseteq Range(s)
         /\ IsInjective(s) => IsInjective(SubSeq(s, 1, n))
<1>. DEFINE t == SubSeq(s, 1, n)
<1>1. DOMAIN s = 1 .. Len(s) /\ DOMAIN t = 1 .. n /\ \A i \in 1 .. n : t[i] = s[i]
  BY SubSeqProperties
<1>. HIDE DEF t
<1>2. Len(s) \in Nat
  OBVIOUS
<1>3. Range(t) \subseteq Range(s) /\ (IsInjective(s) => IsInjective(t))
  BY <1>1, <1>2 DEF Range, IsInjective
<1>. QED BY <1>3 DEF t

(* What a worker has executed was sent to it; what it takes next was sent  *)
(* too, and no worker has executed it.                                     *)
LEMMA ExecutedWasSent ==
  ASSUME TypeOK, FlowOK, NEW w \in Workers
  PROVE  /\ Range(executed[w]) \subseteq Range(sent[w])
         /\ Sending /\ requestQ[w] # <<>> /\ Head(requestQ[w]) # Shutdown =>
              /\ Head(requestQ[w]) \in Range(sent[w])
              /\ \A v \in Workers : Head(requestQ[w]) \notin Range(executed[v])
<1>. DEFINE es(v) == Len(executed[v])
            ss(v) == Len(sent[v])
            qs(v) == Len(requestQ[v])
<1>1. \A v \in Workers : qs(v) \in Nat /\ ss(v) \in Nat /\ es(v) \in Nat
  BY LenProperties DEF TypeOK
<1>. HIDE DEF es, ss, qs
<1>2. ASSUME NEW v \in Workers
      PROVE  /\ es(v) <= ss(v)
             /\ \A i \in 1 .. es(v) : executed[v][i] = sent[v][i]
             /\ DOMAIN executed[v] = 1 .. es(v) /\ DOMAIN sent[v] = 1 .. ss(v)
  <2>1. Flow(v)
    BY DEF FlowOK
  <2>2. ASSUME InLine(sent[v], executed[v], requestQ[v])
        PROVE  /\ es(v) <= ss(v)
               /\ \A i \in 1 .. es(v) : executed[v][i] = sent[v][i]
    <3>1. ss(v) = es(v) + qs(v) /\ \A i \in 1 .. es(v) : executed[v][i] = sent[v][i]
      BY <2>2 DEF InLine, es, ss, qs
    <3>2. es(v) <= ss(v)
      BY <1>1, <3>1
    <3>. QED BY <3>1, <3>2
  <2>3. ASSUME NEW p \in Nat, InLineAround(sent[v], executed[v], requestQ[v], p)
        PROVE  /\ es(v) <= ss(v)
               /\ \A i \in 1 .. es(v) : executed[v][i] = sent[v][i]
    <3>1. /\ ss(v) + 1 = es(v) + qs(v) /\ p \in 1 .. qs(v)
          /\ \A i \in 1 .. es(v) : executed[v][i] = sent[v][i]
      BY <2>3 DEF InLineAround, es, ss, qs
    <3>2. es(v) <= ss(v)
      BY <1>1, <3>1
    <3>. QED BY <3>1, <3>2
  <2>4. DOMAIN executed[v] = 1 .. es(v) /\ DOMAIN sent[v] = 1 .. ss(v)
    BY DEF TypeOK, es, ss
  <2>. QED BY <2>1, <2>2, <2>3, <2>4 DEF Flow
<1>3. Range(executed[w]) \subseteq Range(sent[w])
  BY <1>1, <1>2 DEF Range
<1>4. ASSUME Sending, requestQ[w] # <<>>, Head(requestQ[w]) # Shutdown
      PROVE  /\ Head(requestQ[w]) \in Range(sent[w])
             /\ \A v \in Workers : Head(requestQ[w]) \notin Range(executed[v])
  <2>1. Head(requestQ[w]) = requestQ[w][1] /\ qs(w) > 0
    BY <1>4, EmptySeq DEF TypeOK, qs
  <2>2. es(w) + 1 \in 1 .. ss(w) /\ requestQ[w][1] = sent[w][es(w) + 1]
    <3>1. CASE InLine(sent[w], executed[w], requestQ[w])
      <4>1. /\ ss(w) = es(w) + qs(w)
            /\ \A i \in 1 .. qs(w) : requestQ[w][i] = sent[w][es(w) + i]
        BY <3>1 DEF InLine, es, ss, qs
      <4>2. es(w) + 1 \in 1 .. ss(w) /\ 1 \in 1 .. qs(w)
        BY <1>1, <2>1, <4>1
      <4>. QED BY <4>1, <4>2
    <3>2. ASSUME NEW p \in Nat, InLineAround(sent[w], executed[w], requestQ[w], p)
          PROVE  es(w) + 1 \in 1 .. ss(w) /\ requestQ[w][1] = sent[w][es(w) + 1]
      <4>1. /\ p # 1 /\ p \in 1 .. qs(w) /\ ss(w) + 1 = es(w) + qs(w)
            /\ \A i \in 1 .. p - 1 : requestQ[w][i] = sent[w][es(w) + i]
        BY <1>4, <2>1, <3>2 DEF InLineAround, es, ss, qs
      <4>2. 1 \in 1 .. p - 1 /\ es(w) + 1 \in 1 .. ss(w)
        BY <1>1, <4>1
      <4>. QED BY <4>1, <4>2
    <3>. QED BY <3>1, <3>2 DEF FlowOK, Flow
  <2>3. ASSUME NEW v \in Workers, Head(requestQ[w]) \in Range(executed[v])  PROVE FALSE
    <3>1. PICK i \in 1 .. es(v) : executed[v][i] = Head(requestQ[w])
      BY <1>2, <2>3 DEF Range
    <3>. sent[v][i] = sent[w][es(w) + 1]
      BY <1>2, <2>1, <2>2, <3>1
    <3>2. i \in 1 .. ss(v)
      BY <1>1, <1>2
    <3>3. v = w /\ i = es(w) + 1
      BY <1>4, <2>2, <3>1, <3>2 DEF Sending, ss
    <3>. QED BY <1>1, <3>3
  <2>. QED BY <1>2, <2>1, <2>2, <2>3 DEF Range
<1>. QED BY <1>3, <1>4

(* A request that is sent was never sent before. *)
LEMMA SendIsFresh ==
  ASSUME TypeOK, Sending, NEW c \in Clients, NEW w \in Workers, Send(c, w)
  PROVE  LET request == <<c, conn[c].count + 1>>
         IN  /\ request \in Requests
             /\ \A v \in Workers : request \notin Range(sent[v])
             /\ sent' = [sent EXCEPT ![w] = Append(sent[w], request)]
             /\ jobs' = Append(jobs, [request |-> request, worker |-> w])
             /\ \A d \in Clients : conn'[d].count = IF d = c THEN conn[c].count + 1
                                                             ELSE conn[d].count
<1>. DEFINE request == <<c, conn[c].count + 1>>
<1>1. conn[c].count \in Nat /\ conn[c].count + 1 \in 1 .. MaxRequests
  <2>1. conn[c].count \in 0 .. MaxRequests
    BY DEF TypeOK
  <2>2. conn[c].count < MaxRequests
    BY Zenon DEF Send
  <2>. QED BY <2>1, <2>2, PoolAssumption
<1>2. ASSUME NEW v \in Workers, request \in Range(sent[v])  PROVE FALSE
  <2>1. PICK i \in 1 .. Len(sent[v]) : sent[v][i] = request
    <3>1. DOMAIN sent[v] = 1 .. Len(sent[v])
      BY DEF TypeOK
    <3>. QED BY <1>2, <3>1 DEF Range
  <2>2. request[2] <= conn[request[1]].count
    <3>1. sent[v][i][2] <= conn[sent[v][i][1]].count
      BY DEF Sending
    <3>. HIDE DEF request
    <3>. QED BY <2>1, <3>1
  <2>. QED BY <1>1, <2>2
<1>3. \A d \in Clients : conn'[d].count = IF d = c THEN conn[c].count + 1 ELSE conn[d].count
  BY DEF Send, TypeOK
<1>. QED BY <1>1, <1>2, <1>3 DEF Send, Requests

LEMMA SendingStep == TypeOK /\ Sending /\ [Next]_vars => Sending'
<1>. SUFFICES ASSUME TypeOK, Sending, [Next]_vars PROVE Sending'
  OBVIOUS
<1>1. ASSUME NEW c \in Clients, NEW w \in Workers, Send(c, w)  PROVE Sending'
  <2>. DEFINE request == <<c, conn[c].count + 1>>
              n == Len(sent[w])
  <2>1. /\ request \in Requests /\ \A v \in Workers : request \notin Range(sent[v])
        /\ sent' = [sent EXCEPT ![w] = Append(sent[w], request)]
    BY <1>1, SendIsFresh
  <2>. \A d \in Clients : conn[d].count \in Nat
    BY DEF TypeOK
  <2>. \A d \in Clients : conn'[d].count = IF d = c THEN conn[c].count + 1 ELSE conn[d].count
    BY <1>1, SendIsFresh
  <2>2. \A d \in Clients : conn[d].count \in Nat /\ conn[d].count <= conn'[d].count
    OBVIOUS
  <2>3. request[2] = conn'[request[1]].count
    OBVIOUS
  <2>4. \A d \in Clients : conn'[d].count \in Nat
    OBVIOUS
  <2>. HIDE DEF request
  <2>5. n \in Nat /\ \A v \in Workers : \A i \in 1 .. Len(sent[v]) :
                       sent[v][i] \in Requests /\ sent[v][i] \in Range(sent[v])
    BY SMTT(60) DEF Range, TypeOK
  <2>6. ASSUME NEW v \in Workers, NEW i \in 1 .. Len(sent'[v])
        PROVE  \/ i \in 1 .. Len(sent[v]) /\ sent'[v][i] = sent[v][i]
               \/ v = w /\ i = n + 1 /\ sent'[v][i] = request
    <3>1. CASE v = w
      <4>1. sent'[v] = Append(sent[v], request) /\ sent[v] \in Seq(Requests)
        BY <2>1, <3>1 DEF TypeOK
      <4>2. i \in 1 .. n + 1
        BY <2>1, <2>6, <3>1, <4>1
      <4>. QED BY <2>1, <2>5, <3>1, <4>1, <4>2
    <3>2. CASE v # w
      BY <2>1, <2>6, <3>2 DEF TypeOK
    <3>. QED BY <3>1, <3>2
  <2>. HIDE DEF n
  <2>7. ASSUME NEW v \in Workers, NEW i \in 1 .. Len(sent'[v])
        PROVE  sent'[v][i][2] <= conn'[sent'[v][i][1]].count
    <3>1. CASE sent'[v][i] = request
      BY <2>1, <2>3, <2>4, <3>1 DEF Requests
    <3>2. CASE i \in 1 .. Len(sent[v]) /\ sent'[v][i] = sent[v][i]
      <4>1. sent[v][i][2] <= conn[sent[v][i][1]].count /\ sent[v][i] \in Requests
        BY <2>5, <3>2 DEF Sending
      <4>. QED BY <2>2, <2>4, <3>2, <4>1 DEF Requests
    <3>. QED BY <2>6, <3>1, <3>2
  <2>8. ASSUME NEW u \in Workers, NEW v \in Workers,
               NEW i \in 1 .. Len(sent'[u]), NEW j \in 1 .. Len(sent'[v]),
               sent'[u][i] = sent'[v][j]
        PROVE  u = v /\ i = j
    <3>1. CASE i \in 1 .. Len(sent[u]) /\ sent'[u][i] = sent[u][i]
      <4>1. j \in 1 .. Len(sent[v]) /\ sent'[v][j] = sent[v][j]
        BY <2>1, <2>5, <2>6, <2>8, <3>1
      <4>2. sent[u][i] = sent[v][j]
        BY <2>8, <3>1, <4>1
      <4>. QED BY <3>1, <4>1, <4>2 DEF Sending
    <3>2. CASE u = w /\ i = n + 1 /\ sent'[u][i] = request
      BY <2>1, <2>5, <2>6, <2>8, <3>2
    <3>. QED BY <2>6, <3>1, <3>2
  <2>. QED BY <2>7, <2>8 DEF Sending, Workers
<1>2. ASSUME sent' = sent, \A c \in Clients : conn'[c].count = conn[c].count
      PROVE  Sending'
  <2>1. ASSUME NEW w \in Workers, NEW i \in 1 .. Len(sent[w])
        PROVE  sent[w][i][1] \in Clients
    <3>1. sent[w] \in Seq(Requests)
      BY DEF TypeOK
    <3>2. sent[w][i] \in Requests
      BY <3>1
    <3>. QED BY Zenon, <3>2 DEF Requests
  <2>2. \A w \in Workers : \A i \in 1 .. Len(sent[w]) :
          sent[w][i][2] <= conn[sent[w][i][1]].count
    BY Zenon DEF Sending
  <2>3. \A v, w \in Workers : \A i \in 1 .. Len(sent[v]), j \in 1 .. Len(sent[w]) :
          sent[v][i] = sent[w][j] => v = w /\ i = j
    BY Zenon DEF Sending
  <2>4. \A w \in Workers : \A i \in 1 .. Len(sent'[w]) :
          sent'[w][i][2] <= conn'[sent'[w][i][1]].count
    BY Zenon, <1>2, <2>1, <2>2
  <2>5. \A v, w \in Workers : \A i \in 1 .. Len(sent'[v]), j \in 1 .. Len(sent'[w]) :
          sent'[v][i] = sent'[w][j] => v = w /\ i = j
    <3>. SUFFICES ASSUME NEW v \in Workers, NEW w \in Workers,
                         NEW i \in 1 .. Len(sent'[v]), NEW j \in 1 .. Len(sent'[w]),
                         sent'[v][i] = sent'[w][j]
                  PROVE  v = w /\ i = j
      OBVIOUS
    <3>1. i \in 1 .. Len(sent[v]) /\ j \in 1 .. Len(sent[w]) /\ sent[v][i] = sent[w][j]
      BY Zenon, <1>2
    <3>. QED BY Zenon, <2>3, <3>1
  <2>. QED BY Zenon, <2>4, <2>5 DEF Sending
<1>3. CASE StartJob \/ Close \/ Join \/ Terminate \/ UNCHANGED vars
  BY <1>2, <1>3 DEF StartJob, Close, Join, Terminate, vars, main, history
<1>4. ASSUME NEW job \in running, Receive(job)  PROVE Sending'
  <2>2. ASSUME NEW d \in Clients  PROVE conn'[d].count = conn[d].count
    <3>. DEFINE c == job.request[1]
    <3>1. conn' = conn \/ conn' = [conn EXCEPT ![c].state = "idle"]
      BY <1>4 DEF Receive
    <3>. HIDE DEF c
    <3>2. conn[d] \in [state : {"idle", "waiting", "cancelled"}, count : 0 .. MaxRequests,
                       worker : Workers] /\ d \in DOMAIN conn
      BY DEF TypeOK
    <3>3. conn'[d] = conn[d] \/ conn'[d] = [conn[d] EXCEPT !.state = "idle"]
      BY <3>1, <3>2
    <3>. QED BY <3>2, <3>3
  <2>. QED BY <1>2, <1>4, <2>2 DEF Receive
<1>5. CASE Exit
  <2>1. \A c \in Clients : conn'[c].count = conn[c].count
    BY <1>5 DEF Exit, TypeOK
  <2>. QED BY <1>2, <1>5, <2>1 DEF Exit, history
<1>6. ASSUME NEW w \in Workers, WorkerStep(w) \/ Crash(w)  PROVE Sending'
  BY <1>2, <1>6 DEF WorkerStep, Handle, Respond, Stop, Crash, main, history
<1>. QED BY <1>1, <1>3, <1>4, <1>5, <1>6 DEF Next, MainStep

LEMMA WaitingStep == TypeOK /\ Sending /\ Waiting /\ [Next]_vars => Waiting'
<1>. SUFFICES ASSUME TypeOK, Sending, Waiting, [Next]_vars PROVE Waiting'
  OBVIOUS
<1>. jobs \in Seq(Jobs) /\ running \subseteq Jobs /\ Range(jobs) \subseteq Jobs
  BY DEF TypeOK, Range
<1>1. ASSUME NEW c \in Clients, NEW w \in Workers, Send(c, w)  PROVE Waiting'
  <2>. DEFINE request == <<c, conn[c].count + 1>>
              job == [request |-> request, worker |-> w]
  <2>1. /\ request \in Requests /\ \A v \in Workers : request \notin Range(sent[v])
        /\ sent' = [sent EXCEPT ![w] = Append(sent[w], request)]
        /\ jobs' = Append(jobs, job)
    BY <1>1, SendIsFresh
  <2>. HIDE DEF request
  <2>2. job \in Jobs /\ job \notin Range(jobs) \cup running
    BY <2>1 DEF Jobs, Waiting
  <2>3. Range(jobs') = Range(jobs) \cup {job} /\ IsInjective(jobs')
    BY <2>1, <2>2, RangeAppend DEF Waiting
  <2>4. \A v \in Workers : Range(sent[v]) \subseteq Range(sent'[v])
    <3>1. Range(Append(sent[w], request)) = Range(sent[w]) \cup {request}
      BY <2>1, RangeAppend DEF TypeOK
    <3>. QED BY <2>1, <3>1 DEF TypeOK
  <2>5. request \in Range(sent'[w])
    <3>1. Range(Append(sent[w], request)) = Range(sent[w]) \cup {request}
      BY <2>1, RangeAppend DEF TypeOK
    <3>. QED BY <2>1, <3>1 DEF TypeOK
  <2>6. running' = running
    BY <1>1 DEF Send
  <2>. HIDE DEF job
  <2>7. \A k \in Range(jobs) \cup running : k.request \in Range(sent'[k.worker])
    BY <2>4 DEF Waiting, Jobs
  <2>8. job.request \in Range(sent'[job.worker])
    BY <2>5 DEF job
  <2>9. Range(jobs') \cap running' = {}
    BY <2>2, <2>3, <2>6 DEF Waiting
  <2>. QED BY <2>3, <2>6, <2>7, <2>8, <2>9 DEF Waiting
<1>2. CASE StartJob
  <2>1. /\ Range(jobs) = {Head(jobs)} \cup Range(jobs')
        /\ IsInjective(jobs') /\ Head(jobs) \notin Range(jobs')
        /\ running' = running \cup {Head(jobs)} /\ sent' = sent
    BY <1>2, RangeTail DEF StartJob, Waiting, history
  <2>. QED BY <2>1 DEF Waiting
<1>3. ASSUME NEW job \in running, Receive(job)  PROVE Waiting'
  BY <1>3 DEF Receive, Waiting
<1>4. CASE Exit
  <2>1. jobs' = <<>> /\ running' = running /\ sent' = sent
    BY <1>4 DEF Exit, history
  <2>2. Range(jobs') = {} /\ IsInjective(jobs')
    BY <2>1 DEF Range, IsInjective
  <2>. QED BY <2>1, <2>2 DEF Waiting
<1>5. CASE Close \/ Join \/ Terminate \/ UNCHANGED vars
  BY <1>5 DEF Close, Join, Terminate, vars, history, Waiting
<1>6. ASSUME NEW w \in Workers, WorkerStep(w) \/ Crash(w)  PROVE Waiting'
  BY <1>6 DEF WorkerStep, Handle, Respond, Stop, Crash, history, Waiting
<1>. QED BY <1>1, <1>2, <1>3, <1>4, <1>5, <1>6 DEF Next, MainStep

(* A worker that dies loses the request it works on and some responses. *)
LEMMA DeathLoses ==
  ASSUME TypeOK, NEW w \in Workers, Dies(w), NEW v \in Workers
  PROVE  /\ Range(responseQ'[v]) \subseteq Range(responseQ[v])
         /\ IsInjective(responseQ[v]) => IsInjective(responseQ'[v])
         /\ v # w => worker'[v] = worker[v] /\ responseQ'[v] = responseQ[v]
         /\ worker'[v].busy \in {worker[v].busy, None}
         /\ v = w => worker'[v] = [state |-> "dead", busy |-> None]
<1>1. PICK n \in 0 .. Len(responseQ[w]) :
        responseQ' = [responseQ EXCEPT ![w] = SubSeq(responseQ[w], 1, n)]
  BY DEF Dies
<1>2. responseQ[w] \in Seq(Requests) /\ w \in DOMAIN responseQ /\ v \in DOMAIN responseQ
  BY DEF TypeOK
<1>3. /\ Range(SubSeq(responseQ[w], 1, n)) \subseteq Range(responseQ[w])
      /\ IsInjective(responseQ[w]) => IsInjective(SubSeq(responseQ[w], 1, n))
  BY <1>2, RangeCut
<1>4. responseQ'[v] = IF v = w THEN SubSeq(responseQ[w], 1, n) ELSE responseQ[v]
  BY <1>1, <1>2
<1>5. worker'[v] = IF v = w THEN [state |-> "dead", busy |-> None] ELSE worker[v]
  BY DEF Dies, TypeOK
<1>. QED BY <1>3, <1>4, <1>5

(* A worker's next request moves to the worker. *)
LEMMA HandleMoves ==
  ASSUME TypeOK, FlowOK, Sending, NEW w \in Workers, Handle(w)
  PROVE  /\ requestQ[w] # <<>> /\ Head(requestQ[w]) # Shutdown /\ Head(requestQ[w]) \in Requests
         /\ \A v \in Workers : Head(requestQ[w]) \notin Range(executed[v])
         /\ \A v \in Workers : v # w => worker'[v] = worker[v] /\ executed'[v] = executed[v]
         /\ worker'[w].busy = Head(requestQ[w]) /\ worker'[w].state = "running"
         /\ Range(executed'[w]) = Range(executed[w]) \cup {Head(requestQ[w])}
<1>1. /\ requestQ[w] # <<>> /\ Head(requestQ[w]) # Shutdown
      /\ executed' = [executed EXCEPT ![w] = Append(executed[w], Head(requestQ[w]))]
      /\ worker[w].state = "running"
      /\ worker' = [worker EXCEPT ![w].busy = Head(requestQ[w])]
  BY DEF Handle
<1>2. Head(requestQ[w]) \in Requests
  BY <1>1, HeadTailProperties DEF TypeOK, Messages
<1>3. executed'[w] = Append(executed[w], Head(requestQ[w]))
  BY <1>1 DEF TypeOK
<1>4. Range(executed'[w]) = Range(executed[w]) \cup {Head(requestQ[w])}
  BY <1>2, <1>3, RangeAppend DEF TypeOK
<1>5. \A v \in Workers : v # w => worker'[v] = worker[v] /\ executed'[v] = executed[v]
  BY <1>1 DEF TypeOK
<1>6. worker'[w].busy = Head(requestQ[w]) /\ worker'[w].state = "running"
  BY <1>1 DEF TypeOK
<1>7. \A v \in Workers : Head(requestQ[w]) \notin Range(executed[v])
  BY <1>1, ExecutedWasSent
<1>. QED BY <1>1, <1>2, <1>4, <1>5, <1>6, <1>7

(* A request that is answered moves to the responses. *)
LEMMA RespondMoves ==
  ASSUME TypeOK, NEW w \in Workers, Respond(w)
  PROVE  /\ worker[w].busy \in Requests
         /\ \A v \in Workers : v # w => worker'[v] = worker[v] /\ responseQ'[v] = responseQ[v]
         /\ worker'[w].busy = None /\ worker'[w].state = worker[w].state
         /\ responseQ'[w] = Append(responseQ[w], worker[w].busy)
         /\ Range(responseQ'[w]) = Range(responseQ[w]) \cup {worker[w].busy}
         /\ IsInjective(responseQ[w]) /\ worker[w].busy \notin Range(responseQ[w])
              => IsInjective(responseQ'[w])
<1>1. /\ worker[w].busy # None
      /\ responseQ' = [responseQ EXCEPT ![w] = Append(responseQ[w], worker[w].busy)]
      /\ worker' = [worker EXCEPT ![w].busy = None]
  BY DEF Respond
<1>2. worker[w].busy \in Requests
  BY <1>1 DEF TypeOK
<1>3. responseQ'[w] = Append(responseQ[w], worker[w].busy)
  BY <1>1 DEF TypeOK
<1>4. \A v \in Workers : v # w => worker'[v] = worker[v] /\ responseQ'[v] = responseQ[v]
  BY <1>1 DEF TypeOK
<1>5. worker'[w].busy = None /\ worker'[w].state = worker[w].state
  BY <1>1 DEF TypeOK
<1>6. /\ Range(responseQ'[w]) = Range(responseQ[w]) \cup {worker[w].busy}
      /\ IsInjective(responseQ[w]) /\ worker[w].busy \notin Range(responseQ[w])
              => IsInjective(responseQ'[w])
  BY <1>2, <1>3, RangeAppend DEF TypeOK
<1>. QED BY <1>2, <1>3, <1>4, <1>5, <1>6

(* A response is taken by the job that is first. *)
LEMMA ReceiveMoves ==
  ASSUME TypeOK, Responding, NEW job \in running, Receive(job)
  PROVE  LET w == job.worker
         IN  /\ w \in Workers /\ Head(responseQ[w]) \in Requests
             /\ \A v \in Workers : v # w => responseQ'[v] = responseQ[v]
             /\ responseQ'[w] = Tail(responseQ[w]) /\ responseQ[w] # <<>>
             /\ Range(responseQ[w]) = {Head(responseQ[w])} \cup Range(responseQ'[w])
             /\ IsInjective(responseQ'[w]) /\ Head(responseQ[w]) \notin Range(responseQ'[w])
<1>. DEFINE w == job.worker
<1>1. w \in Workers
  BY DEF TypeOK, Jobs
<1>2. responseQ[w] # <<>> /\ responseQ' = [responseQ EXCEPT ![w] = Tail(responseQ[w])]
  BY DEF Receive
<1>. HIDE DEF w
<1>3. responseQ'[w] = Tail(responseQ[w]) /\ \A v \in Workers : v # w => responseQ'[v] = responseQ[v]
  BY <1>1, <1>2 DEF TypeOK
<1>4. responseQ[w] \in Seq(Requests) /\ IsInjective(responseQ[w])
  BY <1>1 DEF TypeOK, Responding, Responds
<1>5. Head(responseQ[w]) \in Requests
  BY <1>2, <1>4, HeadTailProperties
<1>6. /\ Range(responseQ[w]) = {Head(responseQ[w])} \cup Range(Tail(responseQ[w]))
      /\ IsInjective(Tail(responseQ[w])) /\ Head(responseQ[w]) \notin Range(Tail(responseQ[w]))
  BY <1>2, <1>4, RangeTail
<1>. QED BY <1>1, <1>2, <1>3, <1>5, <1>6 DEF w

LEMMA RespondingStep == TypeOK /\ FlowOK /\ Sending /\ Responding /\ [Next]_vars => Responding'
<1>. SUFFICES ASSUME TypeOK, FlowOK, Sending, Responding, [Next]_vars, NEW v \in Workers
              PROVE  Responds(v)'
  BY DEF Responding, Workers
<1>. Responds(v)
  BY DEF Responding
<1>1. ASSUME worker'[v] = worker[v], executed'[v] = executed[v], responseQ'[v] = responseQ[v]
      PROVE  Responds(v)'
  BY <1>1 DEF Responds
<1>2. CASE \/ \E c \in Clients, w \in Workers : Send(c, w)
           \/ StartJob \/ Close \/ Join \/ Exit \/ UNCHANGED vars
  BY <1>1, <1>2 DEF Send, StartJob, Close, Join, Exit, vars, history
<1>3. ASSUME NEW job \in running, Receive(job)  PROVE Responds(v)'
  <2>1. UNCHANGED <<worker, executed>>
    BY <1>3 DEF Receive
  <2>2. CASE v = job.worker
    <3>1. /\ Range(responseQ[v]) = {Head(responseQ[v])} \cup Range(responseQ'[v])
          /\ IsInjective(responseQ'[v])
      BY <1>3, <2>2, ReceiveMoves
    <3>. QED BY <2>1, <3>1 DEF Responds
  <2>3. CASE v # job.worker
    BY <1>1, <1>3, <2>1, <2>3, ReceiveMoves
  <2>. QED BY <2>2, <2>3
<1>4. ASSUME NEW w \in Workers, Dies(w), executed' = executed  PROVE Responds(v)'
  <2>1. CASE v # w
    BY <1>1, <1>4, <2>1, DeathLoses
  <2>2. CASE v = w
    <3>1. /\ Range(responseQ'[v]) \subseteq Range(responseQ[v]) /\ IsInjective(responseQ'[v])
          /\ worker'[v].busy = None
      BY <1>4, <2>2, DeathLoses DEF Responds
    <3>. QED BY <1>4, <3>1 DEF Responds
  <2>. QED BY <2>1, <2>2
<1>5. CASE Terminate
  <2>1. joined \in Workers
    BY <1>5, PoolAssumption DEF Terminate, Workers, TypeOK
  <2>. QED BY <1>4, <1>5, <2>1 DEF Terminate, history
<1>6. ASSUME NEW w \in Workers, Handle(w)  PROVE Responds(v)'
  <2>1. responseQ' = responseQ
    BY <1>6 DEF Handle
  <2>2. CASE v # w
    BY <1>1, <1>6, <2>1, <2>2, HandleMoves
  <2>3. CASE v = w
    <3>1. /\ Head(requestQ[v]) \notin Range(executed[v])
          /\ worker'[v].busy = Head(requestQ[v]) /\ worker'[v].state = "running"
          /\ Range(executed'[v]) = Range(executed[v]) \cup {Head(requestQ[v])}
      BY <1>6, <2>3, HandleMoves
    <3>. QED BY <2>1, <3>1 DEF Responds
  <2>. QED BY <2>2, <2>3
<1>7. ASSUME NEW w \in Workers, Respond(w)  PROVE Responds(v)'
  <2>1. executed' = executed
    BY <1>7 DEF Respond, history
  <2>2. CASE v # w
    BY <1>1, <1>7, <2>1, <2>2, RespondMoves
  <2>3. CASE v = w
    <3>1. /\ worker[v].busy # None /\ worker'[v].busy = None
          /\ Range(responseQ'[v]) = Range(responseQ[v]) \cup {worker[v].busy}
          /\ IsInjective(responseQ'[v])
      <4>1. worker[v].busy # None
        BY <1>7, <2>3 DEF Respond
      <4>. QED BY <1>7, <2>3, <4>1, RespondMoves DEF Responds
    <3>. QED BY <2>1, <3>1 DEF Responds
  <2>. QED BY <2>2, <2>3
<1>8. ASSUME NEW w \in Workers, Stop(w)  PROVE Responds(v)'
  <2>1. UNCHANGED <<responseQ, executed>> /\ worker[w] = [state |-> "running", busy |-> None]
    BY <1>8 DEF Stop, history
  <2>2. worker'[v].busy = worker[v].busy /\ (v # w => worker'[v] = worker[v])
    BY <1>8 DEF Stop, TypeOK
  <2>. QED BY <2>1, <2>2 DEF Responds
<1>9. ASSUME NEW w \in Workers, Crash(w)  PROVE Responds(v)'
  BY <1>4, <1>9 DEF Crash, history
<1>. QED BY <1>2, <1>3, <1>5, <1>6, <1>7, <1>8, <1>9 DEF Next, MainStep, WorkerStep

LEMMA AnsweredStep ==
  /\ TypeOK /\ FlowOK /\ Sending /\ Waiting /\ Responding /\ Answered /\ [Next]_vars
  => Answered'
<1>. SUFFICES ASSUME TypeOK, FlowOK, Sending, Waiting, Responding, Answered, [Next]_vars
              PROVE  Answered'
  OBVIOUS
<1>. DEFINE Given(a) ==
              /\ \E w \in Workers : a.request \in Range(sent[w]) /\ a.response \in Range(executed[w])
              /\ \A w \in Workers : a.response \notin Range(responseQ[w]) \cup {worker[w].busy}
<1>. \A a \in answers : Given(a) /\ a.response \in Requests
  BY DEF Answered, TypeOK
<1>1. ASSUME answers' = answers,
             \A w \in Workers : /\ Range(sent[w]) \subseteq Range(sent'[w])
                                /\ Range(executed[w]) \subseteq Range(executed'[w]),
             \A a \in answers, w \in Workers :
               a.response \notin Range(responseQ'[w]) \cup {worker'[w].busy}
      PROVE  Answered'
  <2>1. \A a \in answers : \E w \in Workers :
          a.request \in Range(sent'[w]) /\ a.response \in Range(executed'[w])
    BY <1>1
  <2>2. \A a, b \in answers : a.response = b.response => a = b
    BY DEF Answered
  <2>. QED BY <1>1, <2>1, <2>2 DEF Answered, Workers
<1>2. ASSUME NEW c \in Clients, NEW w \in Workers, Send(c, w)  PROVE Answered'
  <2>. DEFINE request == <<c, conn[c].count + 1>>
  <2>1. /\ UNCHANGED <<responseQ, worker, executed, answers>>
        /\ sent' = [sent EXCEPT ![w] = Append(sent[w], request)]
        /\ request \in Requests
    BY <1>2, SendIsFresh DEF Send
  <2>. HIDE DEF request
  <2>2. Range(Append(sent[w], request)) = Range(sent[w]) \cup {request}
    BY <2>1, RangeAppend DEF TypeOK
  <2>3. \A v \in Workers : Range(sent[v]) \subseteq Range(sent'[v])
    BY <2>1, <2>2 DEF TypeOK
  <2>. QED BY <1>1, <2>1, <2>3
<1>3. CASE StartJob \/ Close \/ Join \/ Exit \/ UNCHANGED vars
  <2>1. UNCHANGED <<responseQ, worker, executed, answers, sent>>
    BY <1>3 DEF StartJob, Close, Join, Exit, vars, history
  <2>. QED BY <1>1, <2>1
<1>4. ASSUME NEW job \in running, Receive(job)  PROVE Answered'
  <2>. DEFINE w == job.worker
              r == Head(responseQ[w])
              new == [request |-> job.request, response |-> r]
  <2>1. /\ w \in Workers /\ r \in Requests
        /\ \A v \in Workers : v # w => responseQ'[v] = responseQ[v]
        /\ Range(responseQ[w]) = {r} \cup Range(responseQ'[w])
        /\ r \notin Range(responseQ'[w])
    BY <1>4, ReceiveMoves
  <2>2. UNCHANGED <<worker, sent, executed>>
    BY <1>4 DEF Receive
  <2>3. answers' = answers \/ answers' = answers \cup {new}
    BY <1>4 DEF Receive
  <2>4. job.request \in Range(sent[w])
    BY DEF Waiting
  <2>. HIDE DEF w, r
  <2>5. \A v \in Workers : Range(responseQ'[v]) \subseteq Range(responseQ[v])
    BY <2>1
  <2>6. \A a \in answers, v \in Workers :
          a.response \notin Range(responseQ'[v]) \cup {worker'[v].busy}
    BY <2>2, <2>5
  <2>7. CASE answers' = answers
    BY <1>1, <2>2, <2>6, <2>7
  <2>8. CASE answers' = answers \cup {new}
    <3>1. r \in Range(executed[w]) /\ Range(executed[w]) \subseteq Range(sent[w])
      BY <2>1, ExecutedWasSent DEF Responding, Responds
    <3>2. ASSUME NEW v \in Workers
          PROVE  r \notin Range(responseQ'[v]) \cup {worker'[v].busy}
      <4>1. CASE v = w
        <5>1. worker[w].busy = None \/ worker[w].busy \notin Range(responseQ[w])
          BY <2>1 DEF Responding, Responds
        <5>2. r # worker[w].busy
          BY <2>1, <5>1, PoolAssumption
        <5>. QED BY <2>1, <2>2, <4>1, <5>2
      <4>2. CASE v # w
        <5>1. /\ Range(responseQ[v]) \subseteq Range(sent[v])
              /\ worker[v].busy \in Range(sent[v]) \cup {None}
          BY ExecutedWasSent DEF Responding, Responds
        <5>2. r \notin Range(sent[v])
          <6>1. ASSUME r \in Range(sent[v])  PROVE FALSE
            <7>1. PICK i \in DOMAIN sent[v] : sent[v][i] = r
              BY <6>1 DEF Range
            <7>2. PICK j \in DOMAIN sent[w] : sent[w][j] = r
              BY <3>1 DEF Range
            <7>3. DOMAIN sent[v] = 1 .. Len(sent[v]) /\ DOMAIN sent[w] = 1 .. Len(sent[w])
              BY <2>1 DEF TypeOK
            <7>. QED BY <2>1, <4>2, <7>1, <7>2, <7>3 DEF Sending
          <6>. QED BY <6>1
        <5>. QED BY <2>1, <2>2, <4>2, <5>1, <5>2, PoolAssumption
      <4>. QED BY <4>1, <4>2
    <3>3. \A a \in answers : a.response # r
      BY <2>1
    <3>4. new.request = job.request /\ new.response = r
      OBVIOUS
    <3>. HIDE DEF new
    <3>5. ASSUME NEW a \in answers'
          PROVE  /\ \E u \in Workers : a.request \in Range(sent'[u]) /\ a.response \in Range(executed'[u])
                 /\ \A u \in Workers : a.response \notin Range(responseQ'[u]) \cup {worker'[u].busy}
      <4>1. CASE a \in answers
        BY <2>2, <2>6, <4>1
      <4>2. CASE a = new
        BY <2>1, <2>2, <2>4, <3>1, <3>2, <3>4, <4>2
      <4>. QED BY <2>8, <4>1, <4>2
    <3>6. \A a, b \in answers' : a.response = b.response => a = b
      <4>1. \A a, b \in answers : a.response = b.response => a = b
        BY DEF Answered
      <4>. QED BY <2>8, <3>3, <3>4, <4>1
    <3>. QED BY <3>5, <3>6 DEF Answered, Workers
  <2>. QED BY <2>3, <2>7, <2>8
<1>5. ASSUME NEW w \in Workers, Dies(w), UNCHANGED <<executed, sent, answers>>
      PROVE  Answered'
  <2>1. ASSUME NEW a \in answers, NEW v \in Workers
        PROVE  a.response \notin Range(responseQ'[v]) \cup {worker'[v].busy}
    <3>1. /\ Range(responseQ'[v]) \subseteq Range(responseQ[v])
          /\ worker'[v].busy \in {worker[v].busy, None}
      BY <1>5, DeathLoses
    <3>. QED BY <3>1, PoolAssumption
  <2>. QED BY <1>1, <1>5, <2>1
<1>6. CASE Terminate
  <2>1. joined \in Workers
    BY <1>6, PoolAssumption DEF Terminate, Workers, TypeOK
  <2>. QED BY <1>5, <1>6, <2>1 DEF Terminate, history
<1>7. ASSUME NEW w \in Workers, Handle(w)  PROVE Answered'
  <2>1. UNCHANGED <<responseQ, sent, answers>>
    BY <1>7 DEF Handle
  <2>2. ASSUME NEW a \in answers, NEW v \in Workers
        PROVE  a.response # worker'[v].busy
    <3>1. a.response # Head(requestQ[w])
      BY <1>7, HandleMoves
    <3>. QED BY <1>7, <3>1, HandleMoves
  <2>3. \A v \in Workers : Range(executed[v]) \subseteq Range(executed'[v])
    BY <1>7, HandleMoves
  <2>. QED BY <1>1, <2>1, <2>2, <2>3
<1>8. ASSUME NEW w \in Workers, Respond(w)  PROVE Answered'
  <2>1. UNCHANGED <<executed, sent, answers>>
    BY <1>8 DEF Respond, history
  <2>2. ASSUME NEW a \in answers, NEW v \in Workers
        PROVE  a.response \notin Range(responseQ'[v]) \cup {worker'[v].busy}
    <3>1. CASE v = w
      <4>1. Range(responseQ'[w]) = Range(responseQ[w]) \cup {worker[w].busy} /\ worker'[w].busy = None
        BY <1>8, RespondMoves
      <4>. QED BY <3>1, <4>1, PoolAssumption
    <3>2. CASE v # w
      BY <1>8, <3>2, RespondMoves
    <3>. QED BY <3>1, <3>2
  <2>. QED BY <1>1, <2>1, <2>2
<1>9. ASSUME NEW w \in Workers, Stop(w)  PROVE Answered'
  <2>1. UNCHANGED <<responseQ, executed, sent, answers>>
    BY <1>9 DEF Stop, history
  <2>2. \A v \in Workers : worker'[v].busy = worker[v].busy
    BY <1>9 DEF Stop, TypeOK
  <2>. QED BY <1>1, <2>1, <2>2
<1>10. ASSUME NEW w \in Workers, Crash(w)  PROVE Answered'
  BY <1>5, <1>10 DEF Crash, history
<1>. QED BY <1>2, <1>3, <1>4, <1>6, <1>7, <1>8, <1>9, <1>10 DEF Next, MainStep, WorkerStep

-----------------------------------------------------------------------------
(* The threads that wait. *)

\* The requests of a worker that have no response yet, and its responses.
Open(w) == Len(requestQ[w]) + (IF worker[w].busy = None THEN 0 ELSE 1) + Len(responseQ[w])

Counts(w) ==
  /\ worker[w].state = "running" => Cardinality(Getters(w)) = Open(w)
  /\ worker[w].state = "dead" => Cardinality(Getters(w)) >= Len(responseQ[w])

Counted == phase = "serving" => \A w \in Workers : Counts(w)

LEMMA GettersFinite ==
  ASSUME TypeOK, NEW w \in Workers
  PROVE  IsFiniteSet(Getters(w)) /\ Cardinality(Getters(w)) \in Nat
<1>1. IsFiniteSet(Range(jobs))
  <2>1. IsFiniteSet(1 .. Len(jobs)) /\ DOMAIN jobs = 1 .. Len(jobs)
    BY FS_Interval DEF TypeOK
  <2>2. jobs \in Surjection(1 .. Len(jobs), Range(jobs))
    BY <2>1 DEF Surjection, Range, TypeOK
  <2>. QED BY <2>1, <2>2, FS_Surjection
<1>2. IsFiniteSet(Range(jobs) \cup running)
  BY <1>1, FS_Union DEF TypeOK
<1>3. Getters(w) \subseteq Range(jobs) \cup running
  BY DEF Getters
<1>. QED BY <1>2, <1>3, FS_Subset, FS_CardinalityType

LEMMA CountedStep ==
  /\ TypeOK /\ FlowOK /\ Sending /\ Waiting /\ Responding /\ Counted /\ [Next]_vars
  => Counted'
<1>. SUFFICES ASSUME TypeOK, FlowOK, Sending, Waiting, Responding, Counted, [Next]_vars,
                     phase' = "serving", NEW v \in Workers
              PROVE  Counts(v)'
  BY DEF Counted, Workers
<1>. DEFINE g == Cardinality(Getters(v))
            q == Len(requestQ[v])
            r == Len(responseQ[v])
            b == IF worker[v].busy = None THEN 0 ELSE 1
<1>0. phase = "serving" /\ Counts(v)
  BY DEF Next, MainStep, WorkerStep, Send, StartJob, Receive, Close, Join, Terminate, Exit,
         Handle, Respond, Stop, Crash, vars, main, Counted
<1>. /\ worker[v].state = "running" => g = q + b + r
     /\ worker[v].state = "dead" => g >= r
     /\ worker[v].state # "stopped"
  BY <1>0 DEF Counts, Open, FlowOK, Flow
<1>. q \in Nat /\ r \in Nat /\ b \in 0 .. 1
  BY LenProperties DEF TypeOK
<1>. IsFiniteSet(Getters(v)) /\ g \in Nat
  BY GettersFinite
<1>1. ASSUME Getters(v)' = Getters(v), Len(requestQ'[v]) = q, worker'[v] = worker[v],
             responseQ'[v] = responseQ[v]
      PROVE  Counts(v)'
  BY <1>0, <1>1 DEF Counts, Open
<1>2. ASSUME NEW c \in Clients, NEW w \in Workers, Send(c, w)  PROVE Counts(v)'
  <2>. DEFINE request == <<c, conn[c].count + 1>>
              job == [request |-> request, worker |-> w]
  <2>1. /\ request \in Requests /\ request \notin Range(sent[w])
        /\ jobs' = Append(jobs, job) /\ running' = running
        /\ requestQ' = [requestQ EXCEPT ![w] = Append(requestQ[w], request)]
        /\ UNCHANGED <<worker, responseQ>>
    BY <1>2, SendIsFresh DEF Send
  <2>. HIDE DEF request
  <2>2. job \in Jobs /\ job.worker = w /\ job.request = request
    BY <2>1 DEF Jobs
  <2>. HIDE DEF job
  <2>3. Range(jobs') = Range(jobs) \cup {job}
    BY <2>1, <2>2, RangeAppend DEF TypeOK
  <2>4. job \notin Getters(v)
    BY <2>1, <2>2 DEF Getters, Waiting
  <2>5. CASE v = w
    <3>1. Getters(v)' = Getters(v) \cup {job}
      BY <2>1, <2>2, <2>3, <2>5 DEF Getters
    <3>2. Cardinality(Getters(v)') = g + 1
      BY <2>4, <3>1, FS_AddElement
    <3>3. Len(requestQ'[v]) = q + 1
      BY <2>1, <2>5 DEF TypeOK, Messages
    <3>4. Len(responseQ'[v]) = r /\ worker'[v] = worker[v]
      BY <2>1
    <3>. HIDE DEF g, q, r, b
    <3>5. /\ worker[v].state = "running" => g + 1 = q + 1 + b + r
          /\ worker[v].state = "dead" => g + 1 >= r
      OBVIOUS
    <3>. QED BY <3>2, <3>3, <3>4, <3>5 DEF Counts, Open, b
  <2>6. CASE v # w
    <3>1. Getters(v)' = Getters(v)
      BY <2>1, <2>2, <2>3, <2>6 DEF Getters
    <3>2. requestQ'[v] = requestQ[v]
      BY <2>1, <2>6 DEF TypeOK
    <3>. QED BY <1>1, <2>1, <3>1, <3>2
  <2>. QED BY <2>5, <2>6
<1>3. CASE StartJob
  <2>1. /\ Range(jobs) = {Head(jobs)} \cup Range(jobs')
        /\ running' = running \cup {Head(jobs)}
        /\ UNCHANGED <<requestQ, responseQ, worker>>
    BY <1>3, RangeTail DEF StartJob, TypeOK
  <2>2. Getters(v)' = Getters(v)
    BY <2>1 DEF Getters
  <2>. QED BY <1>1, <2>1, <2>2
<1>4. ASSUME NEW job \in running, Receive(job)  PROVE Counts(v)'
  <2>1. running' = running \ {job} /\ UNCHANGED <<requestQ, worker, jobs>>
    BY <1>4 DEF Receive
  <2>2. job \notin Range(jobs)
    BY DEF Waiting
  <2>3. CASE v = job.worker
    <3>1. Getters(v)' = Getters(v) \ {job} /\ job \in Getters(v)
      BY <2>1, <2>2, <2>3 DEF Getters
    <3>2. Cardinality(Getters(v)') = g - 1
      BY <3>1, FS_RemoveElement
    <3>3. Len(responseQ'[v]) = r - 1
      <4>1. responseQ'[v] = Tail(responseQ[v]) /\ responseQ[v] # <<>>
        BY <1>4, <2>3, ReceiveMoves
      <4>. QED BY <4>1, HeadTailProperties DEF TypeOK
    <3>4. Len(requestQ'[v]) = q /\ worker'[v] = worker[v]
      BY <2>1
    <3>. HIDE DEF g, q, r, b
    <3>5. /\ worker[v].state = "running" => g - 1 = q + b + (r - 1)
          /\ worker[v].state = "dead" => g - 1 >= r - 1
      OBVIOUS
    <3>. QED BY <3>2, <3>3, <3>4, <3>5 DEF Counts, Open, b
  <2>4. CASE v # job.worker
    <3>1. Getters(v)' = Getters(v)
      BY <2>1, <2>4 DEF Getters
    <3>2. responseQ'[v] = responseQ[v]
      BY <1>4, <2>4, ReceiveMoves
    <3>. QED BY <1>1, <2>1, <3>1, <3>2
  <2>. QED BY <2>3, <2>4
<1>5. CASE Close \/ Join \/ Terminate \/ Exit \/ UNCHANGED vars
  <2>1. UNCHANGED vars
    BY <1>0, <1>5 DEF Close, Join, Terminate, Exit
  <2>. QED BY <1>1, <2>1 DEF vars, Getters
<1>6. ASSUME UNCHANGED <<jobs, running>>
      PROVE  Getters(v)' = Getters(v)
  BY <1>6 DEF Getters
<1>7. ASSUME NEW w \in Workers, Handle(w)  PROVE Counts(v)'
  <2>1. /\ requestQ' = [requestQ EXCEPT ![w] = Tail(requestQ[w])]
        /\ UNCHANGED <<responseQ, jobs, running>>
        /\ worker[w].state = "running" /\ worker[w].busy = None
    BY <1>7 DEF Handle
  <2>2. CASE v # w
    <3>1. requestQ'[v] = requestQ[v]
      BY <2>1, <2>2 DEF TypeOK
    <3>. QED BY <1>1, <1>6, <1>7, <2>1, <2>2, <3>1, HandleMoves
  <2>3. CASE v = w
    <3>1. Len(requestQ'[v]) = q - 1
      <4>1. requestQ'[v] = Tail(requestQ[v]) /\ requestQ[v] # <<>>
        BY <1>7, <2>1, <2>3, HandleMoves DEF TypeOK
      <4>. QED BY <4>1, HeadTailProperties DEF TypeOK
    <3>2. worker'[v].busy # None /\ worker'[v].state = "running"
      BY <1>7, <2>3, HandleMoves, PoolAssumption
    <3>3. Cardinality(Getters(v)') = g /\ Len(responseQ'[v]) = r /\ b = 0 /\ worker[v].state = "running"
      BY <1>6, <2>1, <2>3
    <3>. HIDE DEF g, q, r, b
    <3>4. g = (q - 1) + 1 + r
      BY <3>3
    <3>. QED BY <3>1, <3>2, <3>3, <3>4 DEF Counts, Open
  <2>. QED BY <2>2, <2>3
<1>8. ASSUME NEW w \in Workers, Respond(w)  PROVE Counts(v)'
  <2>1. UNCHANGED <<requestQ, jobs, running>> /\ worker[w].busy # None
    BY <1>8 DEF Respond, history
  <2>2. CASE v # w
    BY <1>1, <1>6, <1>8, <2>1, <2>2, RespondMoves
  <2>3. CASE v = w
    <3>1. worker[v].state = "running"
      BY <2>1, <2>3 DEF Responding, Responds
    <3>2. Len(responseQ'[v]) = r + 1
      <4>1. responseQ'[v] = Append(responseQ[v], worker[v].busy)
        BY <1>8, <2>3, RespondMoves
      <4>. QED BY <4>1 DEF TypeOK
    <3>3. worker'[v].busy = None /\ worker'[v].state = "running"
      BY <1>8, <2>3, <3>1, RespondMoves
    <3>4. Cardinality(Getters(v)') = g /\ Len(requestQ'[v]) = q /\ b = 1
      BY <1>6, <2>1, <2>3
    <3>. HIDE DEF g, q, r, b
    <3>5. g = q + 0 + (r + 1)
      BY <3>1, <3>4
    <3>. QED BY <3>2, <3>3, <3>4, <3>5 DEF Counts, Open
  <2>. QED BY <2>2, <2>3
<1>9. ASSUME NEW w \in Workers, Stop(w)  PROVE FALSE
  <2>1. requestQ[w] # <<>> /\ requestQ[w][1] = Shutdown
    BY <1>9 DEF Stop
  <2>2. 1 \in 1 .. Len(requestQ[w])
    BY <2>1, EmptySeq DEF TypeOK
  <2>. QED BY <1>0, <2>1, <2>2, NoShutdownYet DEF FlowOK, Flow
<1>10. ASSUME NEW w \in Workers, Crash(w)  PROVE Counts(v)'
  <2>1. UNCHANGED <<requestQ, jobs, running>> /\ worker[w].state = "running" /\ Dies(w)
    BY <1>10 DEF Crash, history
  <2>2. CASE v # w
    BY <1>1, <1>6, <2>1, <2>2, DeathLoses
  <2>3. CASE v = w
    <3>1. PICK n \in 0 .. r : responseQ' = [responseQ EXCEPT ![v] = SubSeq(responseQ[v], 1, n)]
      BY <2>1, <2>3 DEF Dies
    <3>2. Len(responseQ'[v]) = n
      <4>1. responseQ'[v] = SubSeq(responseQ[v], 1, n)
        BY <3>1 DEF TypeOK
      <4>. QED BY <4>1, SubSeqProperties DEF TypeOK
    <3>3. worker'[v].state = "dead" /\ Cardinality(Getters(v)') = g /\ worker[v].state = "running"
      BY <1>6, <2>1, <2>3, DeathLoses
    <3>. HIDE DEF g, q, r, b
    <3>4. g >= n
      BY <3>3
    <3>. QED BY <3>2, <3>3, <3>4 DEF Counts
  <2>. QED BY <2>2, <2>3
<1>. QED BY <1>2, <1>3, <1>4, <1>5, <1>7, <1>8, <1>9, <1>10 DEF Next, MainStep, WorkerStep

-----------------------------------------------------------------------------
(* The invariant and what follows from it. *)

IInv == TypeOK /\ FlowOK /\ Sending /\ Waiting /\ Responding /\ Answered /\ Counted

LEMMA Invariant == Spec => []IInv
<1>1. Init => IInv
  <2>. SUFFICES ASSUME Init PROVE IInv
    OBVIOUS
  <2>. USE PoolAssumption DEF Init
  <2>1. TypeOK
    <3>1. 0 \in Workers /\ joined \in 0 .. WorkerCount /\ crashes \in 0 .. MaxCrashes
      BY DEF Workers
    <3>2. conn \in [Clients -> [state  : {"idle", "waiting", "cancelled"},
                                count  : 0 .. MaxRequests, worker : Workers]]
      BY <3>1
    <3>3. IsFiniteSet(running)
      BY FS_EmptySet
    <3>. QED BY <3>1, <3>2, <3>3, EmptySeq DEF TypeOK
  <2>2. \A w \in Workers : /\ requestQ[w] = <<>> /\ responseQ[w] = <<>>
                           /\ worker[w].state = "running" /\ worker[w].busy = None
                           /\ sent[w] = <<>> /\ executed[w] = <<>>
    OBVIOUS
  <2>3. FlowOK
    BY <2>2 DEF FlowOK, Flow, InLine
  <2>4. Range(jobs) = {} /\ \A w \in Workers : Range(responseQ[w]) = {}
    BY <2>2 DEF Range
  <2>5. Sending /\ Waiting /\ Responding /\ Answered
    BY <2>2, <2>4 DEF Sending, Waiting, Responding, Responds, Answered, IsInjective
  <2>6. \A w \in Workers : Getters(w) = {}
    BY <2>4 DEF Getters
  <2>7. \A w \in Workers : Len(requestQ[w]) = 0 /\ Len(responseQ[w]) = 0
    BY <2>2
  <2>8. ASSUME NEW w \in Workers  PROVE Counts(w)
    <3>1. Cardinality(Getters(w)) = 0
      BY <2>6, FS_EmptySet
    <3>2. Open(w) = 0
      BY <2>2, <2>7 DEF Open
    <3>. QED BY <2>7, <3>1, <3>2 DEF Counts
  <2>. QED BY <2>1, <2>3, <2>5, <2>8 DEF IInv, Counted
<1>2. IInv /\ [Next]_vars => IInv'
  BY TypeStep, FlowStep, SendingStep, WaitingStep, RespondingStep, AnsweredStep, CountedStep
     DEF IInv
<1>. QED BY <1>1, <1>2, PTL DEF Spec

(* The queues hold requests and the shutdown message, the histories and    *)
(* answers only requests, and the thread pool a finite set of jobs.        *)
THEOREM TypeCorrect == Spec => []TypeOK
<1>1. IInv => TypeOK
  BY DEF IInv
<1>. QED BY <1>1, Invariant, PTL

(* A worker executes its requests in the order in which execute() put them *)
(* in its queue, and each response it puts is for one it has executed.     *)
THEOREM WorkersKeepOrder == Spec => []ExecutedInOrder
<1>1. ASSUME TypeOK, FlowOK, Responding  PROVE ExecutedInOrder
  <2>. SUFFICES ASSUME NEW w \in Workers  PROVE IsPrefix(executed[w], sent[w])
    BY <1>1 DEF ExecutedInOrder, Responding, Responds
  <2>. DEFINE e == executed[w]
              s == sent[w]
              m == Len(e)
              n == Len(s)
              q == Len(requestQ[w])
  <2>1. e \in Seq(Requests) /\ s \in Seq(Requests) /\ m \in Nat /\ n \in Nat /\ q \in Nat
    BY <1>1, LenProperties DEF TypeOK
  <2>2. m + q = n \/ (m + q = n + 1 /\ q > 0)
    <3>1. CASE InLine(s, e, requestQ[w])
      BY <3>1 DEF InLine
    <3>2. ASSUME NEW p \in Nat, InLineAround(s, e, requestQ[w], p)
          PROVE  m + q = n + 1 /\ q > 0
      <4>1. n + 1 = m + q /\ p \in 1 .. q
        BY <3>2 DEF InLineAround
      <4>. HIDE DEF m, n, q
      <4>. QED BY <2>1, <4>1
    <3>. HIDE DEF e, s, m, n, q
    <3>. QED BY <1>1, <3>1, <3>2 DEF FlowOK, Flow, e, s
  <2>3. \A i \in 1 .. m : e[i] = s[i]
    BY <1>1 DEF FlowOK, Flow, InLine, InLineAround
  <2>4. m <= n
    <3>. HIDE DEF m, n, q
    <3>. QED BY <2>1, <2>2
  <2>5. /\ SubSeq(e, 1, m) \in Seq(Requests) /\ Len(SubSeq(e, 1, m)) = m
        /\ \A i \in 1 .. m : SubSeq(e, 1, m)[i] = e[i]
    BY <2>1, SubSeqProperties
  <2>6. /\ SubSeq(s, 1, m) \in Seq(Requests) /\ Len(SubSeq(s, 1, m)) = m
        /\ \A i \in 1 .. m : SubSeq(s, 1, m)[i] = s[i]
    <3>1. \A i \in 1 .. m : s[i] \in Requests
      BY <2>1, <2>4
    <3>. HIDE DEF m
    <3>. QED BY <2>1, <3>1, SubSeqProperties
  <2>. HIDE DEF e, s, m, n
  <2>7. SubSeq(e, 1, m) = SubSeq(s, 1, m)
    BY <2>3, <2>5, <2>6, SeqEqual
  <2>. QED BY <2>4, <2>7 DEF IsPrefix, e, s, m, n
<1>2. IInv => ExecutedInOrder
  BY <1>1 DEF IInv
<1>. QED BY <1>2, Invariant, PTL

(* When _handle_control ends the loop of a worker, every request put in    *)
(* its queue before the shutdown message has been executed.                *)
THEOREM StoppedWorkersAreDrained == Spec => []StopsWhenDrained
<1>1. ASSUME TypeOK, FlowOK  PROVE StopsWhenDrained
  <2>. SUFFICES ASSUME NEW w \in Workers, worker[w].state = "stopped"
                PROVE  /\ sent[w] = executed[w] \o requestQ[w]
                       /\ joined < WorkerCount => requestQ[w] = <<>>
    BY DEF StopsWhenDrained
  <2>. DEFINE e == executed[w]
              s == sent[w]
              q == requestQ[w]
              m == Len(e)
              n == Len(s)
              k == Len(q)
  <2>1. InLine(s, e, q) /\ (joined < WorkerCount => q = <<>>)
    BY <1>1 DEF FlowOK, Flow
  <2>2. e \in Seq(Messages) /\ s \in Seq(Messages) /\ q \in Seq(Messages)
    BY <1>1 DEF TypeOK, Messages
  <2>3. m \in Nat /\ n \in Nat /\ k \in Nat
    BY <2>2, LenProperties
  <2>4. /\ n = m + k /\ \A i \in 1 .. m : e[i] = s[i]
        /\ \A i \in 1 .. k : q[i] = s[m + i]
    BY <2>1 DEF InLine
  <2>5. /\ e \o q \in Seq(Messages) /\ Len(e \o q) = m + k
        /\ \A i \in 1 .. m + k : (e \o q)[i] = IF i <= m THEN e[i] ELSE q[i - m]
    BY <2>2, ConcatProperties
  <2>. HIDE DEF e, s, q
  <2>6. ASSUME NEW i \in 1 .. n  PROVE s[i] = (e \o q)[i]
    <3>. HIDE DEF m, n, k
    <3>1. CASE i <= m
      BY <2>3, <2>4, <2>5, <3>1
    <3>2. CASE ~ (i <= m)
      <4>1. i - m \in 1 .. k /\ m + (i - m) = i
        BY <2>3, <2>4, <3>2
      <4>. QED BY <2>3, <2>4, <2>5, <3>2, <4>1
    <3>. QED BY <3>1, <3>2
  <2>7. s = e \o q
    BY <2>2, <2>4, <2>5, <2>6, SeqEqual
  <2>. QED BY <2>1, <2>7 DEF e, s, q
<1>2. IInv => StopsWhenDrained
  BY <1>1 DEF IInv
<1>. QED BY <1>2, Invariant, PTL

(* A response goes to one client only, and to one that waits for the       *)
(* worker that gave it: whatever thread of the pool takes it.              *)
THEOREM ResponsesStayHome == Spec => []ResponsesStayInPartition
<1>1. ASSUME TypeOK, FlowOK, Answered  PROVE ResponsesStayInPartition
  <2>1. \A w \in Workers : Range(executed[w]) \subseteq Range(sent[w])
    BY <1>1, ExecutedWasSent
  <2>. QED BY <1>1, <2>1 DEF ResponsesStayInPartition, Answered
<1>2. IInv => ResponsesStayInPartition
  BY <1>1 DEF IInv
<1>. QED BY <1>2, Invariant, PTL

(* While the server serves, as many threads wait or will wait on the       *)
(* response queue of a live worker as it has requests and responses, and   *)
(* no dead worker keeps a response that nobody will take.                  *)
THEOREM GettersMatchRequests == Spec => []OneGetterPerRequest
<1>1. ASSUME TypeOK, FlowOK, Counted  PROVE OneGetterPerRequest
  <2>. SUFFICES ASSUME phase = "serving", NEW w \in Workers
                PROVE  /\ worker[w].state = "running" => Cardinality(Getters(w)) = InProgress(w)
                       /\ worker[w].state = "dead" => Cardinality(Getters(w)) >= Len(responseQ[w])
    BY DEF OneGetterPerRequest
  <2>1. Counts(w)
    BY <1>1 DEF Counted
  <2>2. {i \in DOMAIN requestQ[w] : requestQ[w][i] # Shutdown} = 1 .. Len(requestQ[w])
    <3>1. \A i \in 1 .. Len(requestQ[w]) : requestQ[w][i] # Shutdown
      BY <1>1, NoShutdownYet DEF FlowOK, Flow
    <3>2. DOMAIN requestQ[w] = 1 .. Len(requestQ[w])
      BY <1>1 DEF TypeOK
    <3>. QED BY <3>1, <3>2
  <2>3. Cardinality({i \in DOMAIN requestQ[w] : requestQ[w][i] # Shutdown}) = Len(requestQ[w])
    <3>1. Len(requestQ[w]) \in Nat
      BY <1>1, LenProperties DEF TypeOK
    <3>2. Cardinality(1 .. Len(requestQ[w])) = Len(requestQ[w])
      <4>. DEFINE n == Len(requestQ[w])
      <4>. HIDE DEF n
      <4>. QED BY <3>1, FS_Interval DEF n
    <3>. QED BY <2>2, <3>2
  <2>4. InProgress(w) = Open(w)
    BY <2>3, Zenon DEF InProgress, Open
  <2>. QED BY <2>1, <2>4 DEF Counts
<1>2. IInv => OneGetterPerRequest
  BY <1>1 DEF IInv
<1>. QED BY <1>2, Invariant, PTL

-----------------------------------------------------------------------------
(* A client that shares its worker with nobody.  execute() does not look   *)
(* at the request_id of a response, but a connection has one request at a  *)
(* time: what its job takes can only be the response to that one.          *)

Current(c)    == <<c, conn[c].count>>
OneUser(w, c) == \A r \in Range(sent[w]) : r[1] = c

\* While the server serves, a job is for the request its connection waits for.
Outstanding ==
  phase = "serving" =>
    \A job \in Range(jobs) \cup running :
      LET c == job.request[1]
      IN  conn[c].state = "waiting" /\ job.request = Current(c)

\* Of a worker with one user, all requests but the one that user waits for
\* have their responses given.
AllGiven(w) ==
  phase = "serving" =>
    \A c \in Clients : OneUser(w, c) =>
      \A x \in Range(sent[w]) :
        \/ \E a \in answers : a.response = x
        \/ conn[c].state = "waiting" /\ x = Current(c)

OwnInv == Outstanding /\ (\A w \in Workers : AllGiven(w)) /\ OwnWorkerMatches

(* A request is in one worker's queue only. *)
LEMMA SentToOne ==
  ASSUME TypeOK, Sending, NEW v \in Workers, NEW w \in Workers,
         NEW x, x \in Range(sent[v]), x \in Range(sent[w])
  PROVE  v = w
<1>1. DOMAIN sent[v] = 1 .. Len(sent[v]) /\ DOMAIN sent[w] = 1 .. Len(sent[w])
  BY DEF TypeOK
<1>2. /\ \E i \in 1 .. Len(sent[v]) : sent[v][i] = x
      /\ \E i \in 1 .. Len(sent[w]) : sent[w][i] = x
  BY <1>1 DEF Range
<1>. QED BY <1>2 DEF Sending

LEMMA OwnSend ==
  ASSUME IInv, OwnInv, NEW c \in Clients, NEW w \in Workers, Send(c, w)
  PROVE  OwnInv'
<1>. DEFINE request == <<c, conn[c].count + 1>>
            job == [request |-> request, worker |-> w]
<1>1. /\ conn[c].state = "idle" /\ conn[c].count \in Nat /\ conn[c].count < MaxRequests
      /\ answers' = answers /\ running' = running /\ phase' = phase
      /\ jobs' = Append(jobs, job)
      /\ sent' = [sent EXCEPT ![w] = Append(sent[w], request)]
  BY DEF Send, main, IInv, TypeOK
<1>2. /\ conn'[c].state = "waiting" /\ conn'[c].count = conn[c].count + 1
      /\ \A d \in Clients : d # c => conn'[d] = conn[d]
  BY DEF Send, IInv, TypeOK
<1>3. request \in Requests /\ job \in Jobs /\ job.request = request /\ request[1] = c
  <2>1. conn[c].count + 1 \in 1 .. MaxRequests
    BY <1>1, PoolAssumption
  <2>2. request \in Requests
    BY <2>1, Zenon DEF Requests
  <2>. QED BY <2>2 DEF Jobs
<1>4. Current(c)' = request
  BY <1>2 DEF Current
<1>. HIDE DEF job, request
<1>5. Range(jobs') = Range(jobs) \cup {job}
  BY <1>1, <1>3, RangeAppend DEF IInv, TypeOK
<1>6. /\ Range(sent'[w]) = Range(sent[w]) \cup {request}
      /\ \A v \in Workers : v # w => sent'[v] = sent[v]
  <2>1. sent'[w] = Append(sent[w], request) /\ \A v \in Workers : v # w => sent'[v] = sent[v]
    BY <1>1 DEF IInv, TypeOK
  <2>. QED BY <1>3, <2>1, RangeAppend DEF IInv, TypeOK
<1>7. \A v \in Workers : request \notin Range(sent[v])
  BY SendIsFresh DEF IInv, request
<1>8. Outstanding'
  <2>. SUFFICES ASSUME phase = "serving", NEW j \in Range(jobs') \cup running'
                PROVE  /\ conn'[j.request[1]].state = "waiting"
                       /\ j.request = <<j.request[1], conn'[j.request[1]].count>>
    BY <1>1 DEF Outstanding, Current
  <2>1. CASE j = job
    BY <1>2, <1>3, <1>4, <2>1 DEF Current
  <2>2. CASE j # job
    <3>1. j \in Range(jobs) \cup running
      BY <1>1, <1>5, <2>2
    <3>2. /\ conn[j.request[1]].state = "waiting"
          /\ j.request = <<j.request[1], conn[j.request[1]].count>>
      BY <3>1 DEF OwnInv, Outstanding, Current
    <3>3. j \in Jobs
      BY <3>1 DEF IInv, TypeOK, Range
    <3>4. j.request[1] \in Clients
      BY <3>3 DEF Jobs, Requests
    <3>5. j.request[1] # c
      BY <1>1, <3>2
    <3>. QED BY <1>2, <3>2, <3>4, <3>5
  <2>. QED BY <2>1, <2>2
<1>9. ASSUME NEW v \in Workers  PROVE AllGiven(v)'
  <2>. SUFFICES ASSUME phase = "serving", NEW d \in Clients, OneUser(v, d)',
                       NEW x \in Range(sent'[v])
                PROVE  \/ \E a \in answers : a.response = x
                       \/ conn'[d].state = "waiting" /\ x = Current(d)'
    BY <1>1 DEF AllGiven
  <2>1. OneUser(v, d)
    BY <1>6 DEF OneUser
  <2>2. CASE x \in Range(sent[v])
    <3>1. \/ \E a \in answers : a.response = x
          \/ conn[d].state = "waiting" /\ x = Current(d)
      BY <2>1, <2>2 DEF OwnInv, AllGiven
    <3>2. CASE d = c
      BY <1>1, <3>1, <3>2
    <3>3. CASE d # c
      BY <1>2, <3>1, <3>3 DEF Current
    <3>. QED BY <3>2, <3>3
  <2>3. CASE x \notin Range(sent[v])
    <3>1. x = request
      BY <1>6, <2>3
    <3>2. d = c
      BY <1>3, <3>1 DEF OneUser
    <3>. QED BY <1>2, <1>4, <3>1, <3>2
  <2>. QED BY <2>2, <2>3
<1>10. OwnWorkerMatches'
  <2>. SUFFICES ASSUME NEW a \in answers, NEW v \in Workers, a.request \in Range(sent'[v]),
                       \A r \in Range(sent'[v]) : r[1] = a.request[1]
                PROVE  a.response = a.request
    BY <1>1 DEF OwnWorkerMatches
  <2>1. PICK u \in Workers : a.request \in Range(sent[u])
    BY DEF IInv, Answered
  <2>2. a.request # request
    BY <1>7, <2>1
  <2>3. a.request \in Range(sent[v]) /\ Range(sent[v]) \subseteq Range(sent'[v])
    BY <1>6, <2>2
  <2>. QED BY <2>3 DEF OwnInv, OwnWorkerMatches
<1>. QED BY <1>8, <1>9, <1>10 DEF OwnInv

(* The response a job takes has not been given, as what is given is in no  *)
(* queue (Answered): with one user it is the one to the request that waits.*)
LEMMA OwnTake ==
  ASSUME IInv, OwnInv, phase = "serving", NEW job \in running, Receive(job),
         OneUser(job.worker, job.request[1])
  PROVE  Head(responseQ[job.worker]) = job.request
<1>. DEFINE w == job.worker
            x == Head(responseQ[w])
            c == job.request[1]
<1>1. w \in Workers /\ c \in Clients
  <2>1. job \in Jobs
    BY DEF IInv, TypeOK
  <2>. QED BY <2>1 DEF Jobs, Requests
<1>2. x \in Range(responseQ[w])
  BY ReceiveMoves DEF IInv
<1>3. job.request = Current(c)
  BY DEF OwnInv, Outstanding
<1>4. OneUser(w, c)
  OBVIOUS
<1>. HIDE DEF w, x, c
<1>5. x \in Range(sent[w])
  BY <1>1, <1>2, ExecutedWasSent DEF IInv, Responding, Responds
<1>6. ~ \E a \in answers : a.response = x
  BY <1>1, <1>2 DEF IInv, Answered
<1>7. x = Current(c)
  BY <1>1, <1>4, <1>5, <1>6 DEF OwnInv, AllGiven
<1>. QED BY <1>3, <1>7 DEF x, w

LEMMA OwnReceive ==
  ASSUME IInv, OwnInv, NEW job \in running, Receive(job)
  PROVE  OwnInv'
<1>. DEFINE c == job.request[1]
            x == Head(responseQ[job.worker])
            given == [request |-> job.request, response |-> x]
<1>1. /\ c \in Clients /\ job.worker \in Workers /\ job.request \in Range(sent[job.worker])
      /\ job \in Jobs
  <2>1. job \in Jobs
    BY DEF IInv, TypeOK
  <2>. QED BY <2>1 DEF Jobs, Requests, IInv, Waiting
<1>2. CASE phase # "serving"
  <2>1. phase' # "serving" /\ UNCHANGED <<sent, answers>>
    BY <1>2 DEF Receive, main
  <2>. QED BY <2>1 DEF OwnInv, Outstanding, AllGiven, OwnWorkerMatches
<1>3. CASE phase = "serving"
  <2>1. /\ conn' = [conn EXCEPT ![c].state = "idle"]
        /\ answers' = answers \cup {given}
        /\ running' = running \ {job} /\ jobs' = jobs /\ sent' = sent /\ phase' = phase
    BY <1>3 DEF Receive, main
  <2>2. /\ conn'[c].state = "idle" /\ conn'[c].count = conn[c].count
        /\ \A d \in Clients : d # c => conn'[d] = conn[d]
    BY <1>1, <2>1 DEF IInv, TypeOK
  <2>3. given.request = job.request /\ given.response = x
    OBVIOUS
  <2>4. OneUser(job.worker, c) => x = job.request
    BY <1>3, OwnTake
  <2>5. job.request = Current(c)
    BY <1>3 DEF OwnInv, Outstanding
  <2>. HIDE DEF c, x, given
  <2>6. Outstanding'
    <3>. SUFFICES ASSUME NEW j \in Range(jobs') \cup running'
                  PROVE  /\ conn'[j.request[1]].state = "waiting"
                         /\ j.request = <<j.request[1], conn'[j.request[1]].count>>
      BY DEF Outstanding, Current
    <3>1. j \in Range(jobs) \cup running /\ j # job
      BY <2>1 DEF IInv, Waiting
    <3>2. j \in Jobs
      BY <3>1 DEF IInv, TypeOK, Range
    <3>3. /\ conn[j.request[1]].state = "waiting"
          /\ j.request = <<j.request[1], conn[j.request[1]].count>>
      BY <1>3, <3>1 DEF OwnInv, Outstanding, Current
    <3>4. ASSUME j.request[1] = c  PROVE FALSE
      <4>1. j.request = job.request
        BY <2>5, <3>3, <3>4 DEF Current
      <4>2. job.request \in Range(sent[j.worker])
        BY <3>1, <4>1 DEF IInv, Waiting
      <4>3. j.worker \in Workers
        BY <3>2 DEF Jobs
      <4>4. j.worker = job.worker
        BY <1>1, <4>2, <4>3, SentToOne DEF IInv
      <4>. QED BY <1>1, <3>1, <3>2, <4>1, <4>4 DEF Jobs
    <3>5. j.request[1] \in Clients
      BY <3>2 DEF Jobs, Requests
    <3>. QED BY <2>2, <3>3, <3>4, <3>5
  <2>7. ASSUME NEW v \in Workers  PROVE AllGiven(v)'
    <3>. SUFFICES ASSUME NEW d \in Clients, OneUser(v, d), NEW y \in Range(sent[v])
                  PROVE  \/ \E a \in answers' : a.response = y
                         \/ conn'[d].state = "waiting" /\ y = Current(d)'
      BY <2>1 DEF AllGiven, OneUser
    <3>1. \/ \E a \in answers : a.response = y
          \/ conn[d].state = "waiting" /\ y = Current(d)
      BY <1>3 DEF OwnInv, AllGiven
    <3>2. CASE \E a \in answers : a.response = y
      BY <2>1, <3>2
    <3>3. CASE y = Current(d) /\ d # c
      BY <2>2, <3>1, <3>2, <3>3 DEF Current
    <3>4. CASE y = Current(d) /\ d = c
      <4>1. y = job.request
        BY <2>5, <3>4
      <4>2. v = job.worker
        BY <1>1, <4>1, SentToOne DEF IInv
      <4>3. given \in answers' /\ given.response = y
        BY <2>1, <2>3, <2>4, <3>4, <4>1, <4>2
      <4>. QED BY <4>3
    <3>. QED BY <3>1, <3>2, <3>3, <3>4
  <2>8. OwnWorkerMatches'
    <3>. SUFFICES ASSUME NEW a \in answers', NEW v \in Workers, a.request \in Range(sent[v]),
                         OneUser(v, a.request[1])
                  PROVE  a.response = a.request
      BY <2>1 DEF OwnWorkerMatches, OneUser
    <3>1. CASE a \in answers
      BY <3>1 DEF OwnInv, OwnWorkerMatches, OneUser
    <3>2. CASE a = given
      <4>1. v = job.worker
        BY <1>1, <2>3, <3>2, SentToOne DEF IInv
      <4>2. OneUser(job.worker, c)
        BY <2>3, <3>2, <4>1 DEF c
      <4>. QED BY <2>3, <2>4, <3>2, <4>2
    <3>. QED BY <2>1, <3>1, <3>2
  <2>. QED BY <2>6, <2>7, <2>8 DEF OwnInv
<1>. QED BY <1>2, <1>3

(* From a worker that no other client has used a client gets the responses *)
(* to its own requests, however many threads take them, through deaths and *)
(* close(), and whatever happens at the workers it shares.                 *)
THEOREM OwnResponsesAlone == Spec => []OwnWorkerMatches
<1>1. Init => OwnInv
  <2>. SUFFICES ASSUME Init
                PROVE  OwnInv
    OBVIOUS
  <2>1. Range(jobs) \cup running = {} /\ \A w \in Workers : Range(sent[w]) = {}
    BY DEF Init, Range
  <2>. QED BY <2>1 DEF Init, OwnInv, Outstanding, AllGiven, OwnWorkerMatches
<1>2. IInv /\ OwnInv /\ [Next]_vars => OwnInv'
  <2>. SUFFICES ASSUME IInv, OwnInv, [Next]_vars
                PROVE  OwnInv'
    OBVIOUS
  <2>1. ASSUME NEW c \in Clients, NEW w \in Workers, Send(c, w)  PROVE OwnInv'
    BY <2>1, OwnSend
  <2>2. ASSUME NEW job \in running, Receive(job)  PROVE OwnInv'
    BY <2>2, OwnReceive
  <2>3. ASSUME UNCHANGED <<conn, phase, answers, sent>>,
               Range(jobs') \cup running' = Range(jobs) \cup running
        PROVE  OwnInv'
    BY <2>3 DEF OwnInv, Outstanding, AllGiven, OwnWorkerMatches, OneUser, Current
  <2>4. CASE StartJob
    <3>1. /\ jobs # <<>> /\ running' = running \cup {Head(jobs)} /\ jobs' = Tail(jobs)
          /\ UNCHANGED <<conn, phase, answers, sent>>
      BY <2>4 DEF StartJob, main, history
    <3>2. Range(jobs) = {Head(jobs)} \cup Range(Tail(jobs))
      BY <3>1, RangeTail DEF IInv, TypeOK
    <3>. QED BY <2>3, <3>1, <3>2
  <2>5. CASE Close \/ Exit
    <3>1. phase' # "serving" /\ UNCHANGED <<sent, answers>>
      BY <2>5 DEF Close, Exit, history
    <3>. QED BY <3>1 DEF OwnInv, Outstanding, AllGiven, OwnWorkerMatches
  <2>6. CASE Join \/ Terminate
    BY <2>6, <2>3 DEF Join, Terminate, history
  <2>7. ASSUME NEW w \in Workers, WorkerStep(w) \/ Crash(w)  PROVE OwnInv'
    BY <2>3, <2>7 DEF WorkerStep, Handle, Respond, Stop, Crash, main, history
  <2>8. CASE UNCHANGED vars
    BY <2>3, <2>8 DEF vars
  <2>. QED BY <2>1, <2>2, <2>4, <2>5, <2>6, <2>7, <2>8 DEF Next, MainStep
<1>3. OwnInv => OwnWorkerMatches
  BY DEF OwnInv
<1>. QED BY <1>1, <1>2, <1>3, Invariant, PTL DEF Spec

=============================================================================
