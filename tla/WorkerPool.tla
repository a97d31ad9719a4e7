------------------------------ MODULE WorkerPool ------------------------------
(***************************************************************************)
(* Multiprocess dispatch: the TCP connections of the main process          *)
(* (server.py), the pool that talks to the worker processes through two    *)
(* queues each (worker_pool.py), the main loop of a worker                 *)
(* (process_worker.py), and the event loop's default thread pool, in which *)
(* execute() waits for the response.                                       *)
(*                                                                         *)
(* A request is <<c, n>>, the n-th of connection c (request_id is          *)
(* "<connection>:<n>").  A job is one response_queue.get handed to the     *)
(* thread pool; the pool runs ThreadCount of them at a time and shares     *)
(* them among all workers.  What a request does to the store is the matter *)
(* of other modules: here it is only executed.                             *)
(***************************************************************************)
EXTENDS Integers, FiniteSets, SequencesExt

CONSTANTS Clients,
          WorkerCount,
          ThreadCount,   \* max_workers of the default executor
          MaxRequests,   \* bound on the requests of one connection
          MaxCrashes,    \* bound on the worker processes that die
          MayClose,      \* whether close() may be called
          None,
          Shutdown       \* WorkerControl(action="shutdown")

Workers  == 0 .. WorkerCount - 1
Requests == Clients \X (1 .. MaxRequests)
Messages == Requests \cup {Shutdown}
Jobs     == [request : Requests, worker : Workers]

ASSUME PoolAssumption == /\ WorkerCount \in Nat \ {0}
                         /\ ThreadCount \in Nat \ {0}
                         /\ MaxRequests \in Nat /\ MaxCrashes \in Nat
                         /\ MayClose \in BOOLEAN
                         /\ None \notin Requests /\ Shutdown \notin Requests

VARIABLES
  conn,        \* connection -> [state, count, worker]
  requestQ,    \* worker -> its request queue
  responseQ,   \* worker -> its response queue
  worker,      \* worker -> [state, busy]
  jobs,        \* jobs the thread pool has not started, in order
  running,     \* jobs whose thread waits in response_queue.get
  phase,       \* of the main process: "serving", "stopping", "exiting"
  joined,      \* how many workers shutdown_all has joined
  crashes,
  sent,        \* worker -> requests put in its queue         (history)
  executed,    \* worker -> requests it has executed          (history)
  answers      \* [request, response] pairs of all clients    (history)

vars == <<conn, requestQ, responseQ, worker, jobs, running, phase, joined,
          crashes, sent, executed, answers>>

main    == <<phase, joined>>
history == <<sent, executed, answers>>

Init ==
  /\ conn = [c \in Clients |-> [state |-> "idle", count |-> 0, worker |-> 0]]
  /\ requestQ = [w \in Workers |-> <<>>]
  /\ responseQ = [w \in Workers |-> <<>>]
  /\ worker = [w \in Workers |-> [state |-> "running", busy |-> None]]
  /\ jobs = <<>> /\ running = {}
  /\ phase = "serving" /\ joined = 0 /\ crashes = 0
  /\ sent = [w \in Workers |-> <<>>]
  /\ executed = [w \in Workers |-> <<>>]
  /\ answers = {}

-----------------------------------------------------------------------------
(* The main process.  What a coroutine does between two awaits is one step.*)

(* execute up to its await: the request goes to the worker's queue, and a  *)
(* job that will take some response of that worker goes to the thread      *)
(* pool.  shutdown_all holds the event loop, but a handler that was awake  *)
(* before it may still run when it returns.                                *)
Send(c, w) ==
  /\ phase = "serving" \/ (phase = "stopping" /\ joined = WorkerCount)
  /\ conn[c].state = "idle" /\ conn[c].count < MaxRequests
  /\ LET request == <<c, conn[c].count + 1>>
     IN  /\ conn' = [conn EXCEPT ![c] = [state  |-> "waiting",
                                         count  |-> @.count + 1,
                                         worker |-> w]]
         /\ requestQ' = [requestQ EXCEPT ![w] = Append(@, request)]
         /\ jobs' = Append(jobs, [request |-> request, worker |-> w])
         /\ sent' = [sent EXCEPT ![w] = Append(@, request)]
  /\ UNCHANGED <<responseQ, worker, running, main, crashes, executed, answers>>

(* A thread of the pool is free: it starts the first job. *)
StartJob ==
  /\ jobs # <<>> /\ Cardinality(running) < ThreadCount
  /\ running' = running \cup {Head(jobs)}
  /\ jobs' = Tail(jobs)
  /\ UNCHANGED <<conn, requestQ, responseQ, worker, main, crashes, history>>

(* Whichever thread waits on the queue gets the first response, and        *)
(* execute returns it to its own client without looking at its request_id. *)
(* A response taken while shutdown_all holds the event loop, or after the  *)
(* handler was cancelled, reaches no client.                               *)
Receive(job) ==
  LET c == job.request[1]
      w == job.worker
  IN  /\ responseQ[w] # <<>>
      /\ responseQ' = [responseQ EXCEPT ![w] = Tail(@)]
      /\ running' = running \ {job}
      /\ IF phase = "serving"
         THEN /\ conn' = [conn EXCEPT ![c].state = "idle"]
              /\ answers' = answers \cup {[request  |-> job.request,
                                           response |-> Head(responseQ[w])]}
         ELSE UNCHANGED <<conn, answers>>
      /\ UNCHANGED <<requestQ, worker, jobs, main, crashes, sent, executed>>

(* Mutated shutdown_all: the message goes to the front of the queue. *)
CloseAtOnce ==
  /\ MayClose /\ phase = "serving"
  /\ phase' = "stopping"
  /\ requestQ' = [w \in Workers |-> <<Shutdown>> \o requestQ[w]]
  /\ UNCHANGED <<conn, responseQ, worker, jobs, running, joined, crashes, history>>

(* close(), then shutdown_all: a shutdown message to every worker ...      *)
Close ==
  /\ MayClose /\ phase = "serving"
  /\ phase' = "stopping"
  /\ requestQ' = [w \in Workers |-> Append(requestQ[w], Shutdown)]
  /\ UNCHANGED <<conn, responseQ, worker, jobs, running, joined, crashes, history>>

(* ... and each is joined, in turn ...                                     *)
Join ==
  /\ phase = "stopping" /\ joined < WorkerCount
  /\ worker[joined].state # "running"
  /\ joined' = joined + 1
  /\ UNCHANGED <<conn, requestQ, responseQ, worker, jobs, running, phase,
                 crashes, history>>

(* A process that ends without being asked to: its queue's feeder thread   *)
(* may not have written the last responses to the pipe.                    *)
Dies(w) ==
  /\ worker' = [worker EXCEPT ![w] = [state |-> "dead", busy |-> None]]
  /\ \E n \in 0 .. Len(responseQ[w]) :
       responseQ' = [responseQ EXCEPT ![w] = SubSeq(@, 1, n)]

(* ... or, when five seconds were not enough, terminated.                  *)
Terminate ==
  /\ phase = "stopping" /\ joined < WorkerCount
  /\ worker[joined].state = "running"
  /\ Dies(joined)
  /\ joined' = joined + 1
  /\ UNCHANGED <<conn, requestQ, jobs, running, phase, crashes, history>>

(* The main task is done: asyncio.run cancels the handlers and the jobs    *)
(* that have not started, and waits for the threads of the pool.           *)
Exit ==
  /\ phase = "stopping" /\ joined = WorkerCount
  /\ phase' = "exiting"
  /\ jobs' = <<>>
  /\ conn' = [c \in Clients |-> [conn[c] EXCEPT !.state = "cancelled"]]
  /\ UNCHANGED <<requestQ, responseQ, worker, running, joined, crashes, history>>

-----------------------------------------------------------------------------
(* A worker process. *)

(* Mutated main loop: a control message is handled as a request. *)
HandleAnything(w) ==
  /\ worker[w] = [state |-> "running", busy |-> None]
  /\ requestQ[w] # <<>>
  /\ requestQ' = [requestQ EXCEPT ![w] = Tail(@)]
  /\ worker' = [worker EXCEPT ![w].busy = Head(requestQ[w])]
  /\ executed' = [executed EXCEPT ![w] = Append(@, Head(requestQ[w]))]
  /\ UNCHANGED <<conn, responseQ, jobs, running, main, crashes, sent, answers>>

(* Mutated main loop: the newest request first. *)
HandleNewest(w) ==
  /\ worker[w] = [state |-> "running", busy |-> None]
  /\ requestQ[w] # <<>> /\ Last(requestQ[w]) # Shutdown
  /\ requestQ' = [requestQ EXCEPT ![w] = Front(@)]
  /\ worker' = [worker EXCEPT ![w].busy = Last(requestQ[w])]
  /\ executed' = [executed EXCEPT ![w] = Append(@, Last(requestQ[w]))]
  /\ UNCHANGED <<conn, responseQ, jobs, running, main, crashes, sent, answers>>

(* _handle_request, up to the put of the response. *)
Handle(w) ==
  /\ worker[w] = [state |-> "running", busy |-> None]
  /\ requestQ[w] # <<>> /\ Head(requestQ[w]) # Shutdown
  /\ requestQ' = [requestQ EXCEPT ![w] = Tail(@)]
  /\ worker' = [worker EXCEPT ![w].busy = Head(requestQ[w])]
  /\ executed' = [executed EXCEPT ![w] = Append(@, Head(requestQ[w]))]
  /\ UNCHANGED <<conn, responseQ, jobs, running, main, crashes, sent, answers>>

(* Mutated _handle_request: it returns without a response. *)
RespondNever(w) ==
  /\ worker[w].busy # None
  /\ worker' = [worker EXCEPT ![w].busy = None]
  /\ UNCHANGED <<conn, requestQ, responseQ, jobs, running, main, crashes, history>>

(* Mutated _handle_request: the response is put twice. *)
RespondTwice(w) ==
  /\ worker[w].busy # None
  /\ responseQ' = [responseQ EXCEPT ![w] = @ \o <<worker[w].busy, worker[w].busy>>]
  /\ worker' = [worker EXCEPT ![w].busy = None]
  /\ UNCHANGED <<conn, requestQ, jobs, running, main, crashes, history>>

(* The response is put in the queue. *)
Respond(w) ==
  /\ worker[w].busy # None
  /\ responseQ' = [responseQ EXCEPT ![w] = Append(@, worker[w].busy)]
  /\ worker' = [worker EXCEPT ![w].busy = None]
  /\ UNCHANGED <<conn, requestQ, jobs, running, main, crashes, history>>

(* _handle_control: the loop ends. *)
Stop(w) ==
  /\ worker[w] = [state |-> "running", busy |-> None]
  /\ requestQ[w] # <<>> /\ Head(requestQ[w]) = Shutdown
  /\ requestQ' = [requestQ EXCEPT ![w] = Tail(@)]
  /\ worker' = [worker EXCEPT ![w].state = "stopped"]
  /\ UNCHANGED <<conn, responseQ, jobs, running, main, crashes, history>>

(* The process is killed, or an OSError of the append ends its loop; no    *)
(* one restarts it or notices.                                             *)
Crash(w) ==
  /\ crashes < MaxCrashes
  /\ worker[w].state = "running"
  /\ crashes' = crashes + 1
  /\ Dies(w)
  /\ UNCHANGED <<conn, requestQ, jobs, running, main, history>>

-----------------------------------------------------------------------------
MainStep == \/ \E c \in Clients, w \in Workers : Send(c, w)
            \/ StartJob
            \/ \E job \in running : Receive(job)
            \/ Close \/ Join \/ Terminate \/ Exit

WorkerStep(w) == Handle(w) \/ Respond(w) \/ Stop(w)

Next == MainStep \/ \E w \in Workers : WorkerStep(w) \/ Crash(w)

Spec == Init /\ [][Next]_vars

(* Processes and threads that can run do run; nothing makes a client send, *)
(* the operator close or a worker die.                                     *)
FairSpec ==
  /\ Spec
  /\ WF_vars(StartJob) /\ WF_vars(Join) /\ WF_vars(Exit)
  /\ \A c \in Clients, n \in 1 .. MaxRequests, w \in Workers :
       LET job == [request |-> <<c, n>>, worker |-> w]
       IN  WF_vars(job \in running /\ Receive(job))
  /\ \A w \in Workers : WF_vars(WorkerStep(w))

-----------------------------------------------------------------------------
(* Type invariant. *)
TypeOK ==
  /\ conn \in [Clients -> [state  : {"idle", "waiting", "cancelled"},
                           count  : 0 .. MaxRequests,
                           worker : Workers]]
  /\ requestQ \in [Workers -> Seq(Messages)]
  /\ responseQ \in [Workers -> Seq(Requests)]
  /\ worker \in [Workers -> [state : {"running", "stopped", "dead"},
                             busy  : Requests \cup {None}]]
  /\ jobs \in Seq(Jobs) /\ running \subseteq Jobs /\ IsFiniteSet(running)
  /\ phase \in {"serving", "stopping", "exiting"}
  /\ joined \in 0 .. WorkerCount /\ crashes \in 0 .. MaxCrashes
  /\ sent \in [Workers -> Seq(Requests)] /\ executed \in [Workers -> Seq(Requests)]
  /\ answers \subseteq [request : Requests, response : Requests]

(* The waits and the work of a worker. *)
Getters(w)   == {job \in Range(jobs) \cup running : job.worker = w}
InProgress(w) ==
  Cardinality({i \in DOMAIN requestQ[w] : requestQ[w][i] # Shutdown})
    + (IF worker[w].busy = None THEN 0 ELSE 1) + Len(responseQ[w])

(* While a worker lives, exactly one get() waits for each of its requests  *)
(* that has not been answered.  With a get too few a response would stay   *)
(* in the queue and answer every later request one too late; with one too  *)
(* many a client would wait for ever.  execute() puts, gets and answers in *)
(* three different threads and processes.                                  *)
OneGetterPerRequest ==
  phase = "serving" =>
    \A w \in Workers :
      /\ worker[w].state = "running" => Cardinality(Getters(w)) = InProgress(w)
      /\ worker[w].state = "dead" => Cardinality(Getters(w)) >= Len(responseQ[w])

(* Nobody gets the response of another partition, and nobody gets one      *)
(* twice: a worker's responses go to the clients that wait for that        *)
(* worker, each to one of them.                                            *)
ResponsesStayInPartition ==
  \A a, b \in answers :
    /\ \E w \in Workers : {a.request, a.response} \subseteq Range(sent[w])
    /\ a.response = b.response => a = b

(* A worker executes what it is sent in the order it was sent, each        *)
(* request at most once, and a response is for a request it has executed.  *)
ExecutedInOrder ==
  \A w \in Workers :
    /\ IsPrefix(executed[w], sent[w])
    /\ Range(responseQ[w]) \subseteq Range(executed[w])

(* A worker that stops on the shutdown message has executed every request  *)
(* put in its queue before: only requests sent once shutdown_all has       *)
(* returned are left.                                                      *)
StopsWhenDrained ==
  \A w \in Workers :
    worker[w].state = "stopped" =>
      /\ sent[w] = executed[w] \o requestQ[w]
      /\ joined < WorkerCount => requestQ[w] = <<>>

(* README.md:65: "The multiprocess architecture's advantage is correctness *)
(* under concurrent TCP load"; worker_pool.py:82: execute sends a request  *)
(* and awaits "response".  A client would get the response to its own      *)
(* request.                                                                *)
ResponseMatchesRequest == \A a \in answers : a.response = a.request

(* What is left of it: a worker that no other client has used gives each   *)
(* response to its request.  execute() has one request of a connection at  *)
(* a time, and relies on the queue to hold nothing but its response: not   *)
(* one that was put twice, nor one of a request that was not waited for,   *)
(* even when the connection has gone to other, shared workers in between.  *)
OwnWorkerMatches ==
  \A a \in answers, w \in Workers :
    /\ a.request \in Range(sent[w])
    /\ \A r \in Range(sent[w]) : r[1] = a.request[1]
    => a.response = a.request

(* Every client that waits is answered, or cancelled by close(), unless a  *)
(* worker dies (it would then wait in vain, and make others wait: see      *)
(* LiveWorkersAnswer).                                                     *)
EveryWaitEnds ==
  \A c \in Clients :
    conn[c].state = "waiting"
      ~> \/ conn[c].state # "waiting"
         \/ \E w \in Workers : worker[w].state = "dead"

(* README.md:20: "Each process owns its own MemoryStore, TimingWheel, and  *)
(* AOF shard -- no shared state, no locks": the death of one worker would  *)
(* leave the clients of the others alone.                                  *)
LiveWorkersAnswer ==
  \A c \in Clients, w \in Workers :
    (conn[c].state = "waiting" /\ conn[c].worker = w)
      ~> (conn[c].state # "waiting" \/ worker[w].state # "running")

(* server.py:112: close() is to "gracefully shut down network listeners    *)
(* and owned resources": a thread that waits for a response when close()   *)
(* is called would end, and with the threads the process.                  *)
WaitingThreadsEnd ==
  \A c \in Clients, n \in 1 .. MaxRequests, w \in Workers :
    LET job == [request |-> <<c, n>>, worker |-> w]
    IN  (phase = "stopping" /\ joined = 0 /\ job \in running)
          ~> job \notin running

=============================================================================
