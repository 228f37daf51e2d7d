--------------------------- MODULE ServerLifecycle ---------------------------
(***************************************************************************)
(* The life of the server process: main() loads the model, installs the    *)
(* signal handlers, runs the main loop and cleans up; a change of model    *)
(* replaces the model under the running loop; SIGINT and SIGTERM run       *)
(* signal_handler on top of any thread, in the middle of what it does.     *)
(* A request is one task; the slots are the set of requests at work.       *)
(* mutex_tasks is modelled as a lock, because a signal can find its holder *)
(* inside; so is the moment in recv between the test and the wait.         *)
(***************************************************************************)
EXTENDS Naturals, FiniteSets

CONSTANTS
    Client,         \* threads of the HTTP pool, with one request each
    Kind,           \* [Client -> what the request's handler does]
    MAX_SIGNALS     \* bound on the signals sent to the process

\* "poll": a completion, embedding or rerank, which polls recv_with_timeout;
\* "block": metrics, slot actions and adapters, which wait in recv;
\* "change": a change of model.
Kinds == {"poll", "block", "change"}

ASSUME LifecycleAssumption ==
    /\ Kind \in [Client -> Kinds]
    /\ "main" \notin Client /\ "none" \notin Client
    /\ MAX_SIGNALS \in Nat

Thread == Client \cup {"main"}

VARIABLES
    process,            \* "up", "killed" by a signal, "exited" or "aborted"
    main,               \* where main() is
    state,              \* server_state: "loading" or "ready"
    model,              \* "loaded" or, after a failed load, "none"
    listening,          \* the HTTP server accepts requests
    running,            \* server_queue::running
    results_running,    \* server_response::running
    mutex_tasks,        \* the holder, or "none"
    queue_tasks,        \* requests whose task is in the queue
    task,               \* the request whose task the main loop has in hand, or "none"
    next_response,      \* a NEXT_RESPONSE task is in the queue
    slots,              \* requests whose task is in a slot
    results,            \* requests whose result is in the result queue
    client,             \* where each request's thread is
    lost,               \* requests whose task went with the slots of an old model
    installed,          \* sigaction was called
    signals,            \* signals sent so far
    is_terminating,     \* the flag of signal_handler
    handler             \* the thread on which shutdown_handler runs, or "none"

mainVars == <<main, state, model, listening, running, results_running>>
queueVars == <<mutex_tasks, queue_tasks, task, next_response>>
workVars == <<slots, results, client, lost>>
signalVars == <<installed, signals, is_terminating, handler>>
vars == <<process, mainVars, queueVars, workVars, signalVars>>

Init ==
    /\ process = "up" /\ main = "load" /\ state = "loading" /\ model = "none"
    /\ listening = TRUE /\ running = FALSE /\ results_running = TRUE
    /\ mutex_tasks = "none" /\ queue_tasks = {}
    /\ task = "none" /\ next_response = FALSE
    /\ slots = {} /\ results = {} /\ lost = {}
    /\ client = [c \in Client |-> "idle"]
    /\ installed = FALSE /\ signals = 0 /\ is_terminating = FALSE /\ handler = "none"

\* A thread goes on while the process is up and no signal handler sits on it.
Runs(t) == process = "up" /\ handler # t

GoMain(where) == main' = where
Go(c, where) == client' = [client EXCEPT ![c] = where]

-----------------------------------------------------------------------------
(* main(), up to the loop.  The HTTP server listens before the model is there.*)

LoadModel ==
    /\ Runs("main") /\ main = "load"
    /\ \/ model' = "loaded" /\ GoMain("init")
       \/ model' = model /\ GoMain("stop")
    /\ UNCHANGED <<process, state, listening, running, results_running, queueVars, workVars, signalVars>>

\* init() and the READY state; requests come in from here on.
Ready ==
    /\ Runs("main") /\ main = "init"
    /\ state' = "ready" /\ GoMain("install")
    /\ UNCHANGED <<process, model, listening, running, results_running, queueVars, workVars, signalVars>>

\* The callbacks and shutdown_handler are set, then sigaction.
Install ==
    /\ Runs("main") /\ main = "install"
    /\ GoMain("start") /\ installed' = TRUE
    /\ UNCHANGED <<process, state, model, listening, running, results_running, queueVars, workVars,
                   signals, is_terminating, handler>>

start_loop ==
    /\ Runs("main") /\ main = "start"
    /\ running' = TRUE /\ GoMain("take")
    /\ UNCHANGED <<process, state, model, listening, results_running, queueVars, workVars, signalVars>>

-----------------------------------------------------------------------------
(* The main loop.  Each critical section of mutex_tasks is entered and left.*)

Lock(t) == mutex_tasks = "none" /\ mutex_tasks' = t
Unlock(t) == mutex_tasks = t /\ mutex_tasks' = "none"

TakeLock ==
    /\ Runs("main") /\ main = "take"
    /\ Lock("main") /\ GoMain("taking")
    /\ UNCHANGED <<process, state, model, listening, running, results_running, queue_tasks,
                   task, next_response, workVars, signalVars>>

Empty == queue_tasks = {} /\ ~next_response

Take ==
    /\ Runs("main") /\ main = "taking"
    /\ Unlock("main")
    /\ \/ /\ ~running
          /\ GoMain("stop")
          /\ UNCHANGED <<queue_tasks, next_response, task>>
       \/ /\ running /\ Empty
          /\ GoMain("update")
          /\ UNCHANGED <<queue_tasks, next_response, task>>
       \/ /\ running /\ next_response
          /\ next_response' = FALSE
          /\ GoMain("take")
          /\ UNCHANGED <<queue_tasks, task>>
       \/ \E c \in queue_tasks :
          /\ running
          /\ queue_tasks' = queue_tasks \ {c}
          /\ task' = c
          /\ GoMain("callback")
          /\ UNCHANGED next_response
    /\ UNCHANGED <<process, state, model, listening, running, results_running, workVars, signalVars>>

\* A thread in recv holds mutex_results from its test until it waits.
ResultsFree == \A c \in Client : client[c] # "entering"

\* Plausible bug: a result is sent and nobody is notified.
WokenNobody == client

\* The results go to the queue and everyone in recv looks again.
Woken == [c \in Client |-> IF client[c] = "blocked" THEN "checking" ELSE client[c]]

\* process_single_task puts a task into a slot or, for metrics and the like,
\* sends its result.
Process ==
    /\ Runs("main") /\ main = "callback"
    /\ \/ /\ Kind[task] = "poll"
          /\ slots' = slots \cup {task}
          /\ UNCHANGED <<results, client>>
       \/ /\ Kind[task] = "block" /\ ResultsFree
          /\ results' = results \cup {task}
          /\ client' = Woken
          /\ UNCHANGED slots
    /\ task' = "none"
    /\ GoMain("take")
    /\ UNCHANGED <<process, state, model, listening, running, results_running, mutex_tasks,
                   queue_tasks, next_response, lost, signalVars>>

\* update_slots begins, if there is work, by posting NEXT_RESPONSE.
PostNextResponse ==
    /\ Runs("main") /\ main = "update"
    /\ \/ slots = {} /\ UNCHANGED next_response
       \/ slots # {} /\ mutex_tasks = "none" /\ next_response' = TRUE
    /\ GoMain("decode")
    /\ UNCHANGED <<process, state, model, listening, running, results_running, mutex_tasks,
                   queue_tasks, task, workVars, signalVars>>

\* The batch: with a model some of the work is finished, without one llama_decode
\* is called on nothing.
Decode ==
    /\ Runs("main") /\ main = "decode"
    /\ \/ /\ slots = {}
          /\ GoMain("sleep")
          /\ UNCHANGED <<process, slots, results, client>>
       \/ /\ slots # {} /\ model = "loaded" /\ ResultsFree
          /\ \E done \in SUBSET slots :
                /\ slots' = slots \ done
                /\ results' = results \cup done
          /\ client' = Woken
          /\ GoMain("sleep")
          /\ UNCHANGED process
       \/ /\ slots # {} /\ model = "none"
          /\ process' = "aborted"
          /\ UNCHANGED <<main, slots, results, client>>
    /\ UNCHANGED <<state, model, listening, running, results_running, queueVars, lost, signalVars>>

SleepLock ==
    /\ Runs("main") /\ main = "sleep"
    /\ Lock("main") /\ GoMain("testing")
    /\ UNCHANGED <<process, state, model, listening, running, results_running, queue_tasks,
                   task, next_response, workVars, signalVars>>

\* The wait gives the mutex back; its predicate is tested under the mutex.
Sleep ==
    /\ Runs("main") /\ main = "testing"
    /\ Unlock("main")
    /\ GoMain(IF ~running THEN "stop" ELSE IF Empty THEN "asleep" ELSE "take")
    /\ UNCHANGED <<process, state, model, listening, running, results_running, queue_tasks,
                   task, next_response, workVars, signalVars>>

\* Plausible bug: the predicate forgets the flag.
WakeForTasks ==
    /\ Runs("main") /\ main = "asleep"
    /\ mutex_tasks = "none"
    /\ ~Empty
    /\ GoMain("take")
    /\ UNCHANGED <<process, state, model, listening, running, results_running, queueVars, workVars, signalVars>>

Wake ==
    /\ Runs("main") /\ main = "asleep"
    /\ mutex_tasks = "none"
    /\ ~Empty \/ ~running
    /\ GoMain("take")
    /\ UNCHANGED <<process, state, model, listening, running, results_running, queueVars, workVars, signalVars>>

-----------------------------------------------------------------------------
(* clean_up() and the end of main().                                       *)

Stop ==
    /\ Runs("main") /\ main = "stop"
    /\ listening' = FALSE /\ GoMain("terminate")
    /\ UNCHANGED <<process, state, model, running, results_running, queueVars, workVars, signalVars>>

\* server_response::terminate writes the flag and notifies without the mutex.
TerminateResults ==
    /\ Runs("main") /\ main = "terminate"
    /\ results_running' = FALSE
    /\ client' = Woken
    /\ GoMain("join")
    /\ UNCHANGED <<process, state, model, listening, running, queueVars, slots, results, lost, signalVars>>

Over == {"idle", "refused", "answered", "failed"}

\* The listener's thread ends when its workers have.
Join ==
    /\ Runs("main") /\ main = "join"
    /\ \A c \in Client : client[c] \in Over
    /\ process' = "exited"
    /\ UNCHANGED <<mainVars, queueVars, workVars, signalVars>>

-----------------------------------------------------------------------------
(* The threads of the HTTP pool.                                           *)

\* The middleware turns requests away while a model is loaded.
Arrive(c) ==
    /\ Runs(c) /\ client[c] = "idle" /\ listening
    /\ Go(c, IF state = "loading" THEN "refused"
             ELSE IF Kind[c] = "change" THEN "changing" ELSE "posting")
    /\ UNCHANGED <<process, mainVars, queueVars, slots, results, lost, signalVars>>

PostLock(c) ==
    /\ Runs(c) /\ client[c] = "posting"
    /\ Lock(c) /\ Go(c, "locked")
    /\ UNCHANGED <<process, mainVars, queue_tasks, task, next_response, slots, results, lost, signalVars>>

Post(c) ==
    /\ Runs(c) /\ client[c] = "locked"
    /\ queue_tasks' = queue_tasks \cup {c}
    /\ Unlock(c) /\ Go(c, "checking")
    /\ UNCHANGED <<process, mainVars, task, next_response, slots, results, lost, signalVars>>

\* recv: the predicate ends the process when the queue was terminated, and holds
\* for any result; while another's is there the thread goes round.
Receive(c) ==
    /\ Runs(c) /\ client[c] = "checking" /\ Kind[c] = "block" /\ ResultsFree
    /\ \/ /\ ~results_running
          /\ process' = "aborted"
          /\ UNCHANGED <<client, results>>
       \/ /\ results_running /\ c \in results
          /\ results' = results \ {c} /\ Go(c, "answered")
          /\ UNCHANGED process
       \/ /\ results_running /\ results = {}
          /\ Go(c, "entering")
          /\ UNCHANGED <<process, results>>
    /\ UNCHANGED <<mainVars, queueVars, slots, lost, signalVars>>

Enter(c) ==
    /\ Runs(c) /\ client[c] = "entering"
    /\ Go(c, "blocked")
    /\ UNCHANGED <<process, mainVars, queueVars, slots, results, lost, signalVars>>

\* recv_with_timeout looks for its result first, and at the flag after each wait,
\* which ends by itself after a second.
Poll(c) ==
    /\ Runs(c) /\ Kind[c] = "poll" /\ ResultsFree
    /\ \/ /\ client[c] = "checking" /\ c \in results
          /\ results' = results \ {c} /\ Go(c, "answered")
          /\ UNCHANGED process
       \/ /\ client[c] = "checking" /\ c \notin results
          /\ Go(c, "blocked")
          /\ UNCHANGED <<process, results>>
       \/ /\ client[c] = "blocked" /\ results_running
          /\ Go(c, "checking")
          /\ UNCHANGED <<process, results>>
       \/ /\ client[c] = "blocked" /\ ~results_running
          /\ process' = "aborted"
          /\ UNCHANGED <<client, results>>
    /\ UNCHANGED <<mainVars, queueVars, slots, lost, signalVars>>

-----------------------------------------------------------------------------
(* handle_model_change_model.                                              *)

ChangeBegin(c) ==
    /\ Runs(c) /\ client[c] = "changing"
    /\ state' = "loading" /\ Go(c, "loading")
    /\ UNCHANGED <<process, main, model, listening, running, results_running, queueVars,
                   slots, results, lost, signalVars>>

\* load_model frees the old model first: under a llama_decode that may end the
\* process.  If it fails the handler returns and the state stays as it is.
ChangeLoad(c) ==
    /\ Runs(c) /\ client[c] = "loading"
    /\ process' \in IF main = "decode" /\ slots # {} THEN {"up", "aborted"} ELSE {"up"}
    /\ \/ model' = "loaded" /\ Go(c, "clearing")
       \/ model' = "none" /\ Go(c, "failed")
    /\ UNCHANGED <<main, state, listening, running, results_running, queueVars, slots,
                   results, lost, signalVars>>

\* Plausible bug: the state is not set back to READY.
ChangeEndUnready(c) ==
    /\ Runs(c) /\ client[c] = "clearing"
    /\ slots' = {} /\ lost' = lost \cup slots
    /\ Go(c, "answered")
    /\ UNCHANGED <<process, mainVars, queueVars, results, signalVars>>

\* slots.clear(), init() and READY.
ChangeEnd(c) ==
    /\ Runs(c) /\ client[c] = "clearing"
    /\ slots' = {} /\ lost' = lost \cup slots
    /\ state' = "ready" /\ Go(c, "answered")
    /\ UNCHANGED <<process, main, model, listening, running, results_running, queueVars,
                   results, signalVars>>

-----------------------------------------------------------------------------
(* Signals.                                                                *)

\* Any thread may be chosen to handle a signal; before sigaction it kills.
Signal(t) ==
    /\ process = "up" /\ signals < MAX_SIGNALS
    /\ signals' = signals + 1
    /\ \/ /\ ~installed
          /\ process' = "killed"
          /\ UNCHANGED <<is_terminating, handler>>
       \/ /\ installed /\ is_terminating
          /\ process' = "exited"
          /\ UNCHANGED <<is_terminating, handler>>
       \/ /\ installed /\ ~is_terminating
          /\ is_terminating' = TRUE /\ handler' = t
          /\ UNCHANGED process
    /\ UNCHANGED <<installed, mainVars, queueVars, workVars>>

\* shutdown_handler: server_queue::terminate, on top of the interrupted thread.
Shutdown ==
    /\ process = "up" /\ handler # "none"
    /\ mutex_tasks = "none"
    /\ running' = FALSE
    /\ handler' = "none"
    /\ UNCHANGED <<process, main, state, model, listening, results_running, queueVars, workVars,
                   installed, signals, is_terminating>>

-----------------------------------------------------------------------------

MainStep ==
    \/ LoadModel \/ Ready \/ Install \/ start_loop
    \/ TakeLock \/ Take \/ Process \/ PostNextResponse \/ Decode \/ SleepLock \/ Sleep \/ Wake
    \/ Stop \/ TerminateResults \/ Join

\* What a thread does once its request is there.
ClientStep(c) ==
    \/ PostLock(c) \/ Post(c) \/ Receive(c) \/ Enter(c) \/ Poll(c)
    \/ ChangeBegin(c) \/ ChangeLoad(c) \/ ChangeEnd(c)

Next ==
    \/ MainStep
    \/ \E c \in Client : Arrive(c) \/ ClientStep(c)
    \/ \E t \in Thread : Signal(t)
    \/ Shutdown

Spec == Init /\ [][Next]_vars

\* Work in the slots is finished.
Finish == Decode /\ slots' # slots

\* Threads are scheduled, and generations end (GenerationEnds of SlotContext);
\* nobody has to send requests or signals.
FairSpec ==
    /\ Spec
    /\ WF_vars(MainStep) /\ SF_vars(Finish) /\ WF_vars(Shutdown)
    /\ \A c \in Client : WF_vars(ClientStep(c))

-----------------------------------------------------------------------------
(* Properties.                                                             *)

\* The signal came to a thread inside mutex_tasks, and its handler waits for the
\* mutex of the thread it sits on.
SelfLocked == handler # "none" /\ mutex_tasks = handler

\* The handler ran before start_loop, which raised the flag again.
SignalLost == is_terminating /\ handler = "none" /\ running

\* The notification of terminate came between a thread's test and its wait.
Overslept(c) == Kind[c] = "block" /\ client[c] = "blocked" /\ ~results_running

\* The first signal ends the process, whatever the main loop and the other threads
\* are doing, outside of three races: the handler and the lock of its own thread
\* (server.cpp 1757), the handler and start_loop (1771), and the notification that
\* a thread in recv misses (1957).
ShutdownEnds ==
    is_terminating ~> \/ process # "up"
                      \/ SelfLocked \/ SignalLost \/ \E c \in Client : Overslept(c)

\* A request that passed the middleware is answered or ends with the process,
\* unless a change of model cleared its slot (server.cpp 5779) or it met one of
\* the races of a shutdown.
AdmittedEnds ==
    \A c \in Client : client[c] = "posting" ~>
        \/ client[c] = "answered" \/ process # "up"
        \/ c \in lost \/ SelfLocked \/ Overslept(c)

\* "Loading model" does not last: the server becomes ready or ends, unless a change
\* of model failed, after which every request is turned away (server.cpp 5774).
LoadingEnds ==
    state = "loading" ~> \/ state = "ready" \/ process # "up"
                         \/ \E c \in Client : client[c] = "failed"
=============================================================================
