--------------------------- MODULE HttpAgent_proofs ---------------------------
(***************************************************************************)
(* For every set of requests, connections and runs: both HTTP front ends     *)
(* keep the promise of an at-least-once queue although callers give up and   *)
(* repeat themselves, an rdf response agrees with the loop that made it, and *)
(* a recovered panic leaves no task behind.  Of RequestsSettle, which needs   *)
(* fairness, the part that does not is proved: a measure of the steps every  *)
(* handler has left (HandlersAreCounted).                                    *)
(***************************************************************************)
EXTENDS HttpAgent, TLAPS

\* A handler at work holds a request; a free slot has no caller.
HandlersHoldRequests ==
    \A s \in Slots :
        /\ handler[s] # "free" => message[s] \in Messages
        /\ caller[s] => handler[s] # "free"

Shape == TypeOK /\ HandlersHoldRequests

\* A process starts in a state of the declared shape.
LEMMA InitShape == Init => Shape
<1> SUFFICES ASSUME Init PROVE Shape
    OBVIOUS
<1>1. StatsTypeOK({TaskId})
    BY DEF Init, StatsInit, StatsTypeOK
<1>2. runs \in 1..MaxRuns
    BY HttpAssumption, SMT DEF Init
<1>3. /\ command \in Commands
      /\ request \in [Messages -> RequestStates]
      /\ answered \subseteq Messages
      /\ process \in ProcessStates
      /\ main \in MainStates
      /\ forced \in BOOLEAN
    BY DEF Init, RequestStates, ProcessStates, MainStates
<1>4. /\ handler \in [Slots -> HandlerStates]
      /\ message \in [Slots -> Messages \cup {NoMessage}]
      /\ caller \in [Slots -> BOOLEAN]
      /\ call \in [Slots -> Nat]
      /\ replies \in [Slots -> SUBSET Nat]
      /\ HandlersHoldRequests
    BY DEF Init, HandlerStates, HandlersHoldRequests
<1> QED
    BY <1>1, <1>2, <1>3, <1>4 DEF Shape, TypeOK

\* A process that ends leaves a state of the declared shape behind.
LEMMA EndKeepsShape ==
    ASSUME Shape, NEW how \in ProcessStates, ProcessEnds(how)
    PROVE  Shape'
<1>1. StatsTypeOK({TaskId})'
    BY DEF ProcessEnds, StatsFresh, StatsTypeOK
<1>2. request' \in [Messages -> RequestStates]
    BY DEF ProcessEnds, Shape, TypeOK, RequestStates
<1>3. /\ command' \in Commands
      /\ answered' \subseteq Messages
      /\ process' \in ProcessStates
      /\ main' \in MainStates
      /\ forced' \in BOOLEAN
      /\ runs' \in 1..MaxRuns
    BY DEF ProcessEnds, Shape, TypeOK, MainStates
<1>4. /\ handler' \in [Slots -> HandlerStates]
      /\ message' \in [Slots -> Messages \cup {NoMessage}]
      /\ caller' \in [Slots -> BOOLEAN]
      /\ call' \in [Slots -> Nat]
      /\ replies' \in [Slots -> SUBSET Nat]
      /\ HandlersHoldRequests'
    BY DEF ProcessEnds, HandlerStates, HandlersHoldRequests
<1> QED
    BY <1>1, <1>2, <1>3, <1>4 DEF Shape, TypeOK

\* The loop's own branches keep its variables in their types and touch nothing
\* else.
LEMMA LoopFrame ==
    ASSUME Shape, Loop
    PROVE  /\ Shape'
           /\ UNCHANGED <<callerVars, mainVars, handlerVars, closed, currentOps>>
<1>1. /\ UNCHANGED <<callerVars, mainVars, handlerVars, closed, currentOps,
                     idleTime, timeoutSet>>
      /\ cancelled' \in BOOLEAN
      /\ loop' \in {"head", "select", "gone"}
      /\ timerOn' \in BOOLEAN
    BY DEF Loop, LoopStep, LoopEnds, LoopWaits, LoopIdleOver, SelectDone,
           SelectLog, SelectTimer, Shape, TypeOK, StatsTypeOK
<1> QED
    BY <1>1 DEF Shape, TypeOK, StatsTypeOK, HandlersHoldRequests, callerVars,
                mainVars, handlerVars, batchVars

\* The rendezvous with the loop keeps its variables in their types.
LEMMA ReceiveShape ==
    ASSUME Shape, ReceiveStart(TaskId) \/ ReceiveDone(TaskId)
    PROVE  StatsTypeOK({TaskId})'
    BY DEF ReceiveStart, ReceiveDone, Receive, Shape, TypeOK, StatsTypeOK

\* A connection that ends keeps the shape.
LEMMA HangupKeepsShape ==
    ASSUME Shape, NEW s \in Slots, NEW outcome \in RequestStates,
           NEW from, Goes(s, from, "free"), Hangup(s, outcome)
    PROVE  Shape'
<1>1. /\ request' \in [Messages -> RequestStates]
      /\ StatsTypeOK({TaskId})'
    BY DEF Shape, TypeOK, HandlersHoldRequests, Hangup, statsVars, loopVars, StatsTypeOK
<1>2. /\ command' \in Commands
      /\ answered' \subseteq Messages
      /\ process' \in ProcessStates
      /\ main' \in MainStates
      /\ forced' \in BOOLEAN
      /\ runs' \in 1..MaxRuns
    BY DEF Hangup, Shape, TypeOK, mainVars
<1>3. /\ handler' \in [Slots -> HandlerStates]
      /\ message' \in [Slots -> Messages \cup {NoMessage}]
      /\ caller' \in [Slots -> BOOLEAN]
      /\ call' \in [Slots -> Nat]
      /\ replies' \in [Slots -> SUBSET Nat]
      /\ HandlersHoldRequests'
    BY DEF Hangup, Goes, Shape, TypeOK, HandlerStates, HandlersHoldRequests
<1> QED
    BY <1>1, <1>2, <1>3 DEF Shape, TypeOK

\* So does a handler that only goes on.
LEMMA GoingKeepsShape ==
    ASSUME Shape, NEW s \in Slots, NEW from \in HandlerStates \ {"free"},
           NEW to \in HandlerStates \ {"free"}, Goes(s, from, to),
           StatsTypeOK({TaskId})', UNCHANGED <<callerVars, mainVars, caller, batchVars>>
    PROVE  Shape'
    BY DEF Shape, TypeOK, HandlersHoldRequests, Goes, callerVars, mainVars, batchVars

\* Every step of a handler and of its caller keeps the shape.
LEMMA SlotKeepsShape ==
    ASSUME Shape, NEW s \in Slots,
           \/ HandlerStep(s) \/ CallerGivesUp(s)
           \/ \E m \in Messages : Arrive(s, m)
    PROVE  Shape'
<1> USE DEF HandlerStates
<1>0. UNCHANGED statsVars => StatsTypeOK({TaskId})'
    BY DEF statsVars, loopVars, StatsTypeOK, Shape, TypeOK
<1>1. CASE BatchEnds(s)
    <2>1. CASE /\ Goes(s, "call", "ok")
               /\ answered' \in {answered, answered \cup {message[s]}}
               /\ UNCHANGED <<statsVars, command, request, mainVars, caller, batchVars>>
        BY <1>0, <2>1 DEF Goes, Shape, TypeOK, HandlersHoldRequests, mainVars, batchVars
    <2>2. CASE Goes(s, "call", "free") /\ Hangup(s, "pending")
        BY <2>2, HangupKeepsShape DEF RequestStates
    <2> QED
        BY <1>1, <2>1, <2>2 DEF BatchEnds
<1>2. CASE Decode(s)
    BY <1>0, <1>2, GoingKeepsShape DEF Decode
<1>3. CASE StartTask(s)
    BY <1>3, ReceiveShape, GoingKeepsShape DEF StartTask
<1>4. CASE InvokeReturns(s)
    BY <1>0, <1>4, GoingKeepsShape DEF InvokeReturns
<1>5. CASE DoneTask(s)
    <2>1. StatsTypeOK({TaskId})'
        BY <1>5, ReceiveShape DEF DoneTask
    <2>2. CASE FillReply(s) /\ Goes(s, "done", "call")
        <3>1. UNCHANGED <<mainVars, caller, command, request, answered, message>>
            BY <1>5, <2>2 DEF DoneTask, FillReply, callerVars
        <3>2. call[s] \in Nat /\ message[s] \in Messages
            BY <2>2 DEF Shape, TypeOK, HandlersHoldRequests, Goes
        <3>3. /\ call' \in [Slots -> Nat]
              /\ replies' \in [Slots -> SUBSET Nat]
            BY <2>2, <3>2 DEF FillReply, Shape, TypeOK
        <3>4. /\ handler' \in [Slots -> HandlerStates]
              /\ HandlersHoldRequests'
            BY <2>2, <3>1 DEF Goes, Shape, TypeOK, HandlersHoldRequests
        <3> QED
            BY <2>1, <3>1, <3>3, <3>4 DEF Shape, TypeOK, mainVars
    <2>3. CASE /\ Goes(s, "doneErr", "error") \/ Goes(s, "done", "reply")
               /\ UNCHANGED <<callerVars, batchVars>>
        BY <1>5, <2>1, <2>3, GoingKeepsShape DEF DoneTask
    <2> QED
        BY <1>5, <2>2, <2>3 DEF DoneTask
<1>6. CASE Reply(s)
    BY <1>0, <1>6, HangupKeepsShape, GoingKeepsShape DEF Reply, RequestStates
<1>7. CASE PublishReturns(s)
    BY <1>0, <1>7 DEF PublishReturns, Goes, Shape, TypeOK, HandlersHoldRequests,
                      mainVars, batchVars
<1>8. CASE Respond(s)
    BY <1>8, HangupKeepsShape DEF Respond, RequestStates
<1>9. CASE SendPanics(s)
    BY <1>9, HangupKeepsShape DEF SendPanics, RequestStates
<1>10. CASE CallerGivesUp(s)
    BY <1>0, <1>10 DEF CallerGivesUp, Shape, TypeOK, HandlersHoldRequests,
                       RequestStates, mainVars, batchVars
<1>11. ASSUME NEW m \in Messages, Arrive(s, m)
       PROVE  Shape'
    <2>1. /\ StatsTypeOK({TaskId})'
          /\ UNCHANGED <<command, answered, mainVars>>
        BY <1>0, <1>11 DEF Arrive
    <2>2. /\ request' \in [Messages -> RequestStates]
          /\ handler' \in [Slots -> HandlerStates]
          /\ message' \in [Slots -> Messages \cup {NoMessage}]
          /\ caller' \in [Slots -> BOOLEAN]
          /\ call' \in [Slots -> Nat]
          /\ replies' \in [Slots -> SUBSET Nat]
        BY <1>11 DEF Arrive, Goes, Shape, TypeOK, RequestStates
    <2>3. HandlersHoldRequests'
        BY <1>11 DEF Arrive, Goes, Shape, TypeOK, HandlersHoldRequests
    <2> QED
        BY <2>1, <2>2, <2>3 DEF Shape, TypeOK, mainVars
<1> QED
    BY <1>1, <1>2, <1>3, <1>4, <1>5, <1>6, <1>7, <1>8, <1>9, <1>10, <1>11
    DEF HandlerStep, HandlerMoves

\* main's steps end the process, or move nothing but main and the context.
LEMMA MainFrame ==
    ASSUME Shape, MainStep
    PROVE  \/ \E how \in ProcessStates : ProcessEnds(how)
           \/ /\ Shape'
              /\ UNCHANGED <<callerVars, handlerVars, currentOps>>
              /\ closed => closed'
<1>1. CASE \/ ServeFails \/ StopReturns \/ ForcedExit \/ Crash
           \/ cancelled /\ Signal
    BY <1>1 DEF ServeFails, StopReturns, ForcedExit, Crash, Signal, ProcessStates
<1>2. CASE \/ Connect \/ Shutdown \/ ListenReturns \/ Restart
           \/ ~cancelled /\ Signal
    <2>1. /\ UNCHANGED <<callerVars, handlerVars, loopVars>>
          /\ cancelled' \in BOOLEAN /\ closed' \in BOOLEAN /\ forced' \in BOOLEAN
          /\ closed => closed'
          /\ process' \in ProcessStates
          /\ main' \in MainStates
        BY <1>2 DEF Connect, Shutdown, ListenReturns, Restart, Signal, statsVars,
                    ProcessStates, MainStates, Shape, TypeOK, StatsTypeOK
    <2>2. runs' \in 1..MaxRuns
        BY <1>2, HttpAssumption, SMT DEF Connect, Shutdown, ListenReturns, Restart, Signal,
                                Shape, TypeOK
    <2> QED
        BY <2>1, <2>2 DEF Shape, TypeOK, StatsTypeOK, HandlersHoldRequests, loopVars,
                          callerVars, handlerVars, batchVars
<1> QED
    BY <1>1, <1>2 DEF MainStep

\* Every step keeps the shape.
LEMMA NextKeepsShape == Shape /\ [Next]_vars => Shape'
<1> SUFFICES ASSUME Shape, [Next]_vars PROVE Shape'
    OBVIOUS
<1>1. CASE UNCHANGED vars
    BY <1>1 DEF vars, Shape, TypeOK, StatsTypeOK, HandlersHoldRequests, statsVars,
                loopVars, callerVars, mainVars, handlerVars, batchVars
<1> QED
    BY <1>1, MainFrame, EndKeepsShape, LoopFrame, SlotKeepsShape DEF Next

\* The state of server and callers keeps its shape.
THEOREM HttpTypes == Spec => []TypeOK
<1>1. Shape => TypeOK
    BY DEF Shape
<1> QED
    BY <1>1, InitShape, NextKeepsShape, PTL DEF Spec

-----------------------------------------------------------------------------
(* The rdf response.                                                        *)

\* What the loop over the calls knows of slot t: the calls before the current
\* one are filled in, and only the loop's end lies beyond the last call.
BatchOK(t) ==
    command = "rdf" /\ handler[t] # "free" =>
        /\ handler[t] \notin {"reply", "publishing"}
        /\ call[t] \in Nat \ {0}
        /\ replies[t] = 1..(call[t] - 1)
        /\ call[t] <= Calls[message[t]] + 1
        /\ handler[t] \in {"start", "invoke", "done", "doneErr", "error"} =>
              call[t] <= Calls[message[t]]
        /\ handler[t] = "ok" => call[t] = Calls[message[t]] + 1

BatchInv == \A t \in Slots : BatchOK(t)

\* A step of one slot leaves what the others know alone.
LEMMA OthersKeepBatch ==
    ASSUME Shape, BatchInv, NEW s \in Slots, UNCHANGED command,
           \A t \in Slots \ {s} : /\ handler'[t] = handler[t]
                                  /\ message'[t] = message[t]
                                  /\ call'[t] = call[t]
                                  /\ replies'[t] = replies[t],
           BatchOK(s)'
    PROVE  BatchInv'
    BY DEF BatchInv, BatchOK

\* Slots that are freed have nothing to know.
LEMMA FreeKeepsBatch ==
    ASSUME Shape, BatchInv, NEW s \in Slots, NEW from, NEW outcome,
           Goes(s, from, "free"), Hangup(s, outcome)
    PROVE  BatchInv'
<1>1. /\ handler'[s] = "free"
      /\ \A t \in Slots \ {s} : /\ handler'[t] = handler[t]
                                /\ message'[t] = message[t]
                                /\ call'[t] = call[t]
                                /\ replies'[t] = replies[t]
      /\ UNCHANGED command
    BY DEF Goes, Hangup, Shape, TypeOK
<1> QED
    BY <1>1, OthersKeepBatch DEF BatchOK

\* A handler that goes on without moving the loop.
LEMMA GoingKeepsBatch ==
    ASSUME Shape, BatchInv, NEW s \in Slots, NEW from \in HandlerStates \ {"free"}, NEW to,
           Goes(s, from, to), UNCHANGED <<command, batchVars>>,
           command = "rdf" => to \notin {"reply", "publishing"},
           command = "rdf" /\ to \in {"start", "invoke", "done", "doneErr", "error"} =>
               call[s] <= Calls[message[s]],
           command = "rdf" /\ to = "ok" => call[s] = Calls[message[s]] + 1
    PROVE  BatchInv'
<1>1. /\ handler'[s] = to
      /\ \A t \in Slots \ {s} : handler'[t] = handler[t]
      /\ handler[s] = from
      /\ UNCHANGED <<command, message, call, replies>>
    BY DEF Goes, Shape, TypeOK, batchVars
<1>2. BatchOK(s)'
    BY <1>1 DEF BatchInv, BatchOK
<1> QED
    BY <1>1, <1>2, OthersKeepBatch

\* Every step of a slot keeps what is known of the batches.
LEMMA SlotKeepsBatch ==
    ASSUME Shape, BatchInv, NEW s \in Slots,
           \/ HandlerStep(s) \/ CallerGivesUp(s)
           \/ \E m \in Messages : Arrive(s, m)
    PROVE  BatchInv'
<1> USE DEF HandlerStates
<1>0. /\ BatchOK(s)
      /\ handler[s] # "free" => Calls[message[s]] \in Nat /\ call[s] \in Nat
    BY HttpAssumption DEF BatchInv, Shape, TypeOK, HandlersHoldRequests
<1>1. CASE BatchEnds(s)
    <2>1. CASE call[s] > Calls[message[s]] /\ Goes(s, "call", "ok")
        <3>1. command = "rdf" => call[s] = Calls[message[s]] + 1
            BY <1>0, <2>1 DEF BatchOK, Goes
        <3>2. UNCHANGED <<command, batchVars>>
            BY <1>0, <1>1, <2>1 DEF BatchEnds
        <3> QED
            BY <2>1, <3>1, <3>2, GoingKeepsBatch
    <2>2. CASE Goes(s, "call", "free") /\ Hangup(s, "pending")
        BY <2>2, FreeKeepsBatch
    <2> QED
        BY <1>1, <2>1, <2>2 DEF BatchEnds
<1>2. CASE Decode(s)
    BY <1>2, GoingKeepsBatch DEF Decode, callerVars
<1>3. CASE StartTask(s)
    BY <1>0, <1>3, GoingKeepsBatch DEF StartTask, callerVars, Goes, BatchOK
<1>4. CASE InvokeReturns(s)
    BY <1>0, <1>4, GoingKeepsBatch DEF InvokeReturns, callerVars, Goes, BatchOK
<1>5. CASE DoneTask(s)
    <2>1. CASE /\ Goes(s, "doneErr", "error")
               /\ UNCHANGED <<callerVars, batchVars>>
        BY <1>0, <2>1, GoingKeepsBatch DEF callerVars, Goes, BatchOK
    <2>2. CASE /\ command = "push"
               /\ Goes(s, "done", "reply")
               /\ UNCHANGED <<callerVars, batchVars>>
        BY <2>2, GoingKeepsBatch DEF callerVars
    <2>3. CASE /\ command = "rdf"
               /\ Goes(s, "done", "call")
               /\ FillReply(s)
        <3>1. /\ handler[s] = "done"
              /\ handler'[s] = "call"
              /\ message'[s] = message[s]
              /\ call'[s] = call[s] + 1
              /\ replies'[s] = replies[s] \cup {call[s]}
              /\ UNCHANGED command
              /\ \A t \in Slots \ {s} : /\ handler'[t] = handler[t]
                                        /\ message'[t] = message[t]
                                        /\ call'[t] = call[t]
                                        /\ replies'[t] = replies[t]
            BY <2>3 DEF Goes, FillReply, callerVars, Shape, TypeOK
        <3>2. /\ call[s] \in Nat \ {0}
              /\ replies[s] = 1..(call[s] - 1)
              /\ call[s] <= Calls[message[s]]
            BY <1>0, <2>3, <3>1 DEF BatchOK
        <3>3. (1..(call[s] - 1)) \cup {call[s]} = 1..call[s]
            BY <3>2
        <3>4. BatchOK(s)'
            BY <1>0, <3>1, <3>2, <3>3 DEF BatchOK
        <3> QED
            BY <3>1, <3>4, OthersKeepBatch
    <2> QED
        BY <1>5, <2>1, <2>2, <2>3 DEF DoneTask
<1>6. CASE Reply(s)
    <2>1. CASE Goes(s, "reply", "publishing")
        BY <1>0, <1>6, <2>1 DEF BatchInv, BatchOK, Reply, Goes, Hangup, callerVars,
                                batchVars, Shape, TypeOK
    <2> QED
        BY <1>6, <2>1, FreeKeepsBatch DEF Reply
<1>7. CASE PublishReturns(s)
    <2>1. command # "rdf"
        BY <1>0, <1>7 DEF PublishReturns, Goes, BatchOK
    <2> QED
        BY <1>7, <2>1 DEF PublishReturns, BatchInv, BatchOK
<1>8. CASE Respond(s)
    BY <1>8, FreeKeepsBatch DEF Respond
<1>9. CASE SendPanics(s)
    BY <1>9, FreeKeepsBatch DEF SendPanics
<1>10. CASE CallerGivesUp(s)
    BY <1>10 DEF CallerGivesUp, batchVars, BatchInv, BatchOK
<1>11. ASSUME NEW m \in Messages, Arrive(s, m)
       PROVE  BatchInv'
    <2>1. /\ handler'[s] \in {"call", "refused"}
          /\ message'[s] = m
          /\ call'[s] = 1
          /\ replies'[s] = {}
          /\ UNCHANGED command
          /\ \A t \in Slots \ {s} : /\ handler'[t] = handler[t]
                                    /\ message'[t] = message[t]
                                    /\ call'[t] = call[t]
                                    /\ replies'[t] = replies[t]
        BY <1>11 DEF Arrive, Goes, Shape, TypeOK
    <2>2. Calls[m] \in Nat
        BY HttpAssumption
    <2>3. BatchOK(s)'
        BY <2>1, <2>2 DEF BatchOK
    <2> QED
        BY <2>1, <2>3, OthersKeepBatch
<1> QED
    BY <1>1, <1>2, <1>3, <1>4, <1>5, <1>6, <1>7, <1>8, <1>9, <1>10, <1>11
    DEF HandlerStep, HandlerMoves

\* Every step keeps what is known of the batches.
LEMMA NextKeepsBatch ==
    ASSUME Shape, BatchInv, [Next]_vars
    PROVE  BatchInv'
<1>1. CASE UNCHANGED <<callerVars, handlerVars>>
    BY <1>1 DEF callerVars, handlerVars, batchVars, BatchInv, BatchOK
<1>2. ASSUME NEW how \in ProcessStates, ProcessEnds(how)
      PROVE  BatchInv'
    BY <1>2 DEF ProcessEnds, BatchInv, BatchOK
<1>3. CASE UNCHANGED vars
    BY <1>1, <1>3 DEF vars
<1> QED
    BY <1>1, <1>2, <1>3, MainFrame, LoopFrame, SlotKeepsBatch DEF Next

\* At first every slot is free.
LEMMA InitBatch == Init => BatchInv
    BY DEF Init, BatchInv, BatchOK

\* An rdf response without an error message carries every reply, one with it
\* exactly those before the call that failed.
THEOREM ReplyPrefix == Spec => []RepliesMatch
<1>1. Shape /\ BatchInv => RepliesMatch
    <2> SUFFICES ASSUME Shape, BatchInv, command = "rdf", NEW s \in Slots,
                        handler[s] \in {"ok", "error"}
                 PROVE  /\ handler[s] = "ok" => replies[s] = 1..Calls[message[s]]
                        /\ handler[s] = "error" =>
                              /\ replies[s] = 1..(call[s] - 1)
                              /\ call[s] <= Calls[message[s]]
        BY DEF RepliesMatch
    <2>1. BatchOK(s) /\ Calls[message[s]] \in Nat
        BY HttpAssumption DEF BatchInv, Shape, HandlersHoldRequests
    <2> QED
        BY <2>1 DEF BatchOK
<1>2. Shape /\ BatchInv /\ [Next]_vars => (Shape /\ BatchInv)'
    BY NextKeepsShape, NextKeepsBatch
<1> QED
    BY <1>1, <1>2, InitShape, InitBatch, PTL DEF Spec

-----------------------------------------------------------------------------
(* At least once, over connections.                                         *)

\* The handler of slot t is about to write a 200 without an error message.
Ready(t) == handler[t] = "ok"

AnswersFirst ==
    /\ Settled \subseteq answered
    /\ \A t \in Slots : Ready(t) => message[t] \in answered

\* A caller waits for one answer at a time.  Without this a late failure could
\* bring a settled request back.
OneCaller ==
    /\ \A t \in Slots : caller[t] => request[message[t]] = "sent"
    /\ \A t, u \in Slots : caller[t] /\ caller[u] /\ message[t] = message[u] => t = u

PromiseInv == AnswersFirst /\ OneCaller

\* A step of the queue that may do nothing.
QueueStep == [Promise!Next]_<<answered, Settled>>

\* Steps that leave requests, callers and handlers alone.
LEMMA QuietKeepsPromise ==
    ASSUME PromiseInv, UNCHANGED <<callerVars, handlerVars>>
    PROVE  PromiseInv' /\ QueueStep
    BY DEF PromiseInv, AnswersFirst, Ready, OneCaller, Settled, QueueStep, callerVars,
           handlerVars, batchVars

\* A process that ends takes no answer and nothing settled back.
LEMMA EndKeepsPromise ==
    ASSUME Shape, PromiseInv, NEW how, ProcessEnds(how)
    PROVE  PromiseInv' /\ QueueStep
<1>1. /\ UNCHANGED answered
      /\ Settled' = Settled
    BY DEF ProcessEnds, Settled, Shape, TypeOK
<1>2. \A t \in Slots : handler'[t] = "free" /\ ~caller'[t]
    BY DEF ProcessEnds
<1> QED
    BY <1>1, <1>2 DEF PromiseInv, AnswersFirst, Ready, OneCaller, QueueStep

\* A handler that goes on, and adds at most its own request to the answers.
LEMMA GoingKeepsPromise ==
    ASSUME Shape, PromiseInv, NEW s \in Slots, handler[s] # "free",
           UNCHANGED <<command, request, message, caller>>,
           answered' = answered \/ answered' = answered \cup {message[s]},
           \A t \in Slots \ {s} : handler'[t] = handler[t] /\ call'[t] = call[t],
           Ready(s)' => message[s] \in answered'
    PROVE  PromiseInv' /\ QueueStep
<1>1. Settled' = Settled
    BY DEF Settled
<1>2. \A t \in Slots \ {s} : Ready(t)' <=> Ready(t)
    BY DEF Ready
<1>3. AnswersFirst'
    BY <1>1, <1>2 DEF PromiseInv, AnswersFirst
<1>4. OneCaller'
    BY DEF PromiseInv, OneCaller
<1>5. message[s] \in Messages
    BY DEF Shape, HandlersHoldRequests
<1> QED
    BY <1>1, <1>3, <1>4, <1>5 DEF PromiseInv, QueueStep, Promise!Next, Promise!Answer

\* A connection that ends settles its request only after a success.
LEMMA HangupKeepsPromise ==
    ASSUME Shape, PromiseInv, NEW s \in Slots, NEW from \in HandlerStates \ {"free"},
           NEW outcome \in {"pending", "settled", "faulted"}, Goes(s, from, "free"),
           Hangup(s, outcome), outcome = "settled" => from = "ok"
    PROVE  PromiseInv' /\ QueueStep
<1> DEFINE m == message[s]
<1>1. /\ m \in Messages
      /\ UNCHANGED <<command, answered>>
      /\ handler[s] = from /\ handler'[s] = "free" /\ ~caller'[s]
      /\ \A t \in Slots \ {s} : /\ handler'[t] = handler[t]
                                /\ message'[t] = message[t]
                                /\ caller'[t] = caller[t]
                                /\ call'[t] = call[t]
    BY DEF Goes, Hangup, Shape, TypeOK, HandlersHoldRequests
<1>2. /\ \A n \in Messages \ {m} : request'[n] = request[n]
      /\ caller[s] => request[m] = "sent" /\ request'[m] = outcome
      /\ ~caller[s] => request' = request
    BY <1>1 DEF Hangup, Shape, TypeOK, PromiseInv, OneCaller
<1>3. OneCaller'
    <2>1. \A t \in Slots : caller'[t] => request'[message'[t]] = "sent"
        BY <1>1, <1>2 DEF PromiseInv, OneCaller, Shape, HandlersHoldRequests
    <2>2. \A t, u \in Slots :
              caller'[t] /\ caller'[u] /\ message'[t] = message'[u] => t = u
        BY <1>1 DEF PromiseInv, OneCaller
    <2> QED
        BY <2>1, <2>2 DEF OneCaller
<1>4. \A t \in Slots : Ready(t)' => message'[t] \in answered'
    BY <1>1 DEF Ready, PromiseInv, AnswersFirst
<1>5. CASE caller[s] /\ outcome = "settled"
    <2>1. m \in answered
        BY <1>1, <1>5 DEF PromiseInv, AnswersFirst, Ready
    <2>2. Settled' = Settled \cup {m}
        BY <1>1, <1>2, <1>5 DEF Settled
    <2> QED
        BY <1>1, <1>3, <1>4, <2>1, <2>2
        DEF PromiseInv, AnswersFirst, QueueStep, Promise!Next, Promise!Settle
<1>6. CASE ~(caller[s] /\ outcome = "settled")
    <2>1. Settled' = Settled
        BY <1>1, <1>2, <1>6 DEF Settled
    <2> QED
        BY <1>1, <1>3, <1>4, <2>1 DEF PromiseInv, AnswersFirst, QueueStep
<1> QED
    BY <1>5, <1>6

\* Every step of a slot keeps answers before settlements and is an answer, a
\* settlement or nothing to the queue.
LEMMA SlotKeepsPromise ==
    ASSUME Shape, BatchInv, PromiseInv, NEW s \in Slots,
           \/ HandlerStep(s) \/ CallerGivesUp(s)
           \/ \E m \in Messages : Arrive(s, m)
    PROVE  PromiseInv' /\ QueueStep
<1> USE DEF HandlerStates
<1>1. CASE BatchEnds(s)
    <2>1. CASE /\ call[s] > Calls[message[s]]
               /\ Goes(s, "call", "ok")
               /\ answered' = IF 1..Calls[message[s]] \subseteq replies[s]
                              THEN answered \cup {message[s]} ELSE answered
               /\ UNCHANGED <<statsVars, command, request, mainVars, caller, batchVars>>
        <3>1. /\ handler[s] = "call"
              /\ \A t \in Slots \ {s} : handler'[t] = handler[t]
            BY <2>1 DEF Goes, Shape, TypeOK
        <3>2. 1..Calls[message[s]] \subseteq replies[s]
            <4>1. Calls[message[s]] \in Nat /\ message[s] \in Messages
                BY <3>1, HttpAssumption DEF Shape, HandlersHoldRequests
            <4>2. call[s] \in Nat /\ replies[s] = 1..(call[s] - 1)
                BY <1>1, <3>1 DEF BatchEnds, BatchInv, BatchOK
            <4> QED
                BY <2>1, <4>1, <4>2
        <3>3. answered' = answered \cup {message[s]}
            BY <2>1, <3>2
        <3> QED
            BY <2>1, <3>1, <3>3, GoingKeepsPromise DEF batchVars
    <2>2. CASE Goes(s, "call", "free") /\ Hangup(s, "pending")
        BY <2>2, HangupKeepsPromise
    <2> QED
        BY <1>1, <2>1, <2>2 DEF BatchEnds
<1>2. CASE Decode(s) \/ StartTask(s) \/ InvokeReturns(s)
    <2>1. /\ handler[s] # "free"
          /\ handler'[s] \in {"start", "error", "invoke", "done", "doneErr"}
          /\ UNCHANGED <<callerVars, caller, batchVars>>
          /\ \A t \in Slots \ {s} : handler'[t] = handler[t]
        BY <1>2 DEF Decode, StartTask, InvokeReturns, Goes, Shape, TypeOK
    <2> QED
        BY <2>1, GoingKeepsPromise DEF Ready, callerVars, batchVars
<1>3. CASE DoneTask(s)
    <2>1. CASE /\ Goes(s, "doneErr", "error") \/ Goes(s, "done", "reply")
               /\ UNCHANGED <<callerVars, batchVars>>
        <3>1. /\ handler[s] # "free"
              /\ handler'[s] \in {"error", "reply"}
              /\ UNCHANGED <<callerVars, caller, batchVars>>
              /\ \A t \in Slots \ {s} : handler'[t] = handler[t]
            BY <1>3, <2>1 DEF DoneTask, Goes, Shape, TypeOK
        <3> QED
            BY <3>1, GoingKeepsPromise DEF Ready, callerVars, batchVars
    <2>2. CASE /\ command = "rdf"
               /\ Goes(s, "done", "call")
               /\ FillReply(s)
        <3>1. /\ handler[s] = "done"
              /\ handler'[s] = "call"
              /\ call'[s] = call[s] + 1
              /\ UNCHANGED <<command, request, message, caller>>
              /\ \A t \in Slots \ {s} : handler'[t] = handler[t] /\ call'[t] = call[t]
              /\ UNCHANGED answered
            BY <1>3, <2>2 DEF DoneTask, Goes, FillReply, callerVars, Shape, TypeOK
        <3> QED
            BY <3>1, GoingKeepsPromise DEF Ready
    <2> QED
        BY <1>3, <2>1, <2>2 DEF DoneTask
<1>4. CASE Reply(s)
    <2>1. CASE /\ Goes(s, "reply", "publishing")
               /\ UNCHANGED <<statsVars, callerVars, mainVars, caller, batchVars>>
        <3>1. /\ handler[s] # "free"
              /\ handler'[s] = "publishing"
              /\ \A t \in Slots \ {s} : handler'[t] = handler[t]
            BY <2>1 DEF Goes, Shape, TypeOK
        <3> QED
            BY <2>1, <3>1, GoingKeepsPromise DEF Ready, callerVars, batchVars
    <2> QED
        BY <1>4, <2>1, HangupKeepsPromise DEF Reply
<1>5. CASE PublishReturns(s)
    <2>1. /\ handler[s] # "free"
          /\ handler'[s] \in {"ok", "error"}
          /\ UNCHANGED <<command, request, caller, batchVars>>
          /\ \A t \in Slots \ {s} : handler'[t] = handler[t]
          /\ answered' = answered \/ answered' = answered \cup {message[s]}
          /\ handler'[s] = "ok" => answered' = answered \cup {message[s]}
        BY <1>5 DEF PublishReturns, Goes, Shape, TypeOK
    <2> QED
        BY <2>1, GoingKeepsPromise DEF Ready, batchVars
<1>6. CASE Respond(s) \/ SendPanics(s)
    BY <1>6, HangupKeepsPromise DEF Respond, SendPanics, Sending
<1>7. CASE CallerGivesUp(s)
    <2>1. /\ request[message[s]] = "sent"
          /\ message[s] \in Messages
        BY <1>7 DEF CallerGivesUp, PromiseInv, OneCaller, Shape, HandlersHoldRequests
    <2>2. /\ Settled' = Settled
          /\ UNCHANGED <<command, answered, handler, message, call>>
        BY <1>7, <2>1 DEF CallerGivesUp, Settled, Shape, TypeOK, batchVars
    <2>3. AnswersFirst'
        BY <2>2 DEF PromiseInv, AnswersFirst, Ready
    <2>4. OneCaller'
        BY <1>7, <2>1, <2>2 DEF CallerGivesUp, PromiseInv, OneCaller, Shape, TypeOK,
                                HandlersHoldRequests
    <2> QED
        BY <2>2, <2>3, <2>4 DEF PromiseInv, QueueStep
<1>8. ASSUME NEW m \in Messages, Arrive(s, m)
      PROVE  PromiseInv' /\ QueueStep
    <2>1. /\ request[m] = "pending"
          /\ UNCHANGED <<command, answered>>
          /\ handler'[s] \in {"call", "refused"}
          /\ message'[s] = m /\ call'[s] = 1
          /\ \A t \in Slots \ {s} : /\ handler'[t] = handler[t]
                                    /\ message'[t] = message[t]
                                    /\ caller'[t] = caller[t]
                                    /\ call'[t] = call[t]
          /\ request' = [request EXCEPT ![m] = "sent"]
        BY <1>8 DEF Arrive, Goes, Shape, TypeOK
    <2>2. Settled' = Settled
        BY <2>1 DEF Settled, Shape, TypeOK
    <2>3. ~Ready(s)'
        BY <2>1 DEF Ready
    <2>4. AnswersFirst'
        BY <2>1, <2>2, <2>3 DEF PromiseInv, AnswersFirst, Ready
    <2>5. \A t \in Slots \ {s} : caller[t] => message[t] # m /\ message[t] \in Messages
        BY <2>1 DEF PromiseInv, OneCaller, Shape, HandlersHoldRequests
    <2>6. OneCaller'
        BY <2>1, <2>5 DEF PromiseInv, OneCaller, Shape, TypeOK
    <2> QED
        BY <2>1, <2>2, <2>4, <2>6 DEF PromiseInv, QueueStep
<1> QED
    BY <1>1, <1>2, <1>3, <1>4, <1>5, <1>6, <1>7, <1>8 DEF HandlerStep, HandlerMoves

\* Every step does.
LEMMA NextKeepsPromise ==
    ASSUME Shape, BatchInv, PromiseInv, [Next]_vars
    PROVE  PromiseInv' /\ QueueStep
<1>1. CASE UNCHANGED vars
    BY <1>1, QuietKeepsPromise DEF vars
<1>2. CASE MainStep
    BY <1>2, MainFrame, EndKeepsPromise, QuietKeepsPromise
<1>3. CASE Loop
    BY <1>3, LoopFrame, QuietKeepsPromise
<1> QED
    BY <1>1, <1>2, <1>3, SlotKeepsPromise DEF Next

\* At first nothing is answered and nobody waits.
LEMMA InitPromise == Init => PromiseInv /\ Promise!Init
    BY DEF Init, PromiseInv, AnswersFirst, OneCaller, Ready, Promise!Init, Settled

\* Both front ends implement the at-least-once queue for a caller that reads the
\* error message: what it drops, the batch that failed aside, was answered.
THEOREM HttpImplementsPromise == Spec => KeepsPromise
<1> DEFINE Inv == Shape /\ BatchInv /\ PromiseInv
<1>1. Inv /\ [Next]_vars => Inv'
    BY NextKeepsShape, NextKeepsBatch, NextKeepsPromise
<1>2. Inv /\ [Next]_vars => [Promise!Next]_<<answered, Settled>>
    BY NextKeepsPromise DEF QueueStep
<1>3. Init => Inv /\ Promise!Init
    BY InitShape, InitBatch, InitPromise
<1> QED
    BY <1>1, <1>2, <1>3, PTL DEF Spec, KeepsPromise, Promise!Spec

-----------------------------------------------------------------------------
(* The table of running tasks.                                              *)

\* A step of one slot that leaves the table alone, and leaves a task only when
\* the channel is closed.
LEMMA SlotKeepsTable ==
    ASSUME Shape, NoGhostTask, NEW s \in Slots,
           \/ HandlerStep(s) \/ CallerGivesUp(s)
           \/ \E m \in Messages : Arrive(s, m)
    PROVE  NoGhostTask'
<1> USE DEF Shape, TypeOK, StatsTypeOK
<1>1. CASE StartTask(s)
    BY <1>1 DEF StartTask, Goes, NoGhostTask, Working
<1>2. CASE DoneTask(s)
    BY <1>2 DEF DoneTask, ReceiveDone, Receive, NoGhostTask
<1>3. CASE \/ BatchEnds(s) \/ Decode(s) \/ InvokeReturns(s) \/ Reply(s)
           \/ PublishReturns(s) \/ Respond(s) \/ CallerGivesUp(s)
           \/ \E m \in Messages : Arrive(s, m)
    <2>1. /\ UNCHANGED <<closed, currentOps>>
          /\ \A t \in Slots : Working(t)' <=> Working(t)
        BY <1>3 DEF BatchEnds, Decode, InvokeReturns, Reply, PublishReturns, Respond,
                    CallerGivesUp, Arrive, Goes, Hangup, Working, statsVars, loopVars
    <2> QED
        BY <2>1 DEF NoGhostTask
<1>4. CASE SendPanics(s)
    BY <1>4 DEF SendPanics, Hangup, NoGhostTask, statsVars
<1> QED
    BY <1>1, <1>2, <1>3, <1>4 DEF HandlerStep, HandlerMoves

\* No panic leaves a task in the table while the channel is open.
THEOREM HttpNoGhostTask == Spec => []NoGhostTask
<1>1. Init => NoGhostTask
    BY DEF Init, StatsInit, NoGhostTask
<1>2. Shape /\ NoGhostTask /\ [Next]_vars => NoGhostTask'
    <2> SUFFICES ASSUME Shape, NoGhostTask, [Next]_vars PROVE NoGhostTask'
        OBVIOUS
    <2>1. CASE \/ /\ UNCHANGED <<handlerVars, currentOps>>
                  /\ closed => closed'
               \/ UNCHANGED vars
        BY <2>1 DEF vars, handlerVars, statsVars, loopVars, NoGhostTask, Working
    <2>2. ASSUME NEW how \in ProcessStates, ProcessEnds(how)
          PROVE  NoGhostTask'
        BY <2>2 DEF ProcessEnds, StatsFresh, NoGhostTask
    <2> QED
        BY <2>1, <2>2, MainFrame, LoopFrame, SlotKeepsTable DEF Next
<1> QED
    BY <1>1, <1>2, InitShape, NextKeepsShape, PTL DEF Spec

-----------------------------------------------------------------------------
(* Requests settle.                                                         *)

\* How far a handler is from the end of a request, a pass of the loop over the
\* calls counting for four.
Ahead(state) ==
    CASE state = "call" -> 7
      [] state = "start" -> 6
      [] state = "invoke" -> 5
      [] state \in {"done", "doneErr"} -> 4
      [] state = "reply" -> 3
      [] state = "publishing" -> 2
      [] state \in {"ok", "error", "refused"} -> 1
      [] OTHER -> 0

\* The steps the handler of slot s has left at most.
StepsLeft(s) ==
    IF handler[s] = "free" THEN 0
    ELSE Ahead(handler[s]) +
         (IF command = "rdf" THEN 4 * (Calls[message[s]] + 1 - call[s]) ELSE 0)

\* The steps left are a number.
LEMMA StepsLeftType ==
    ASSUME NEW s \in Slots
    PROVE  Shape /\ BatchInv => StepsLeft(s) \in Nat
<1> SUFFICES ASSUME Shape, BatchInv, handler[s] # "free" PROVE StepsLeft(s) \in Nat
    BY DEF StepsLeft
<1>1. Ahead(handler[s]) \in Nat
    BY DEF Ahead
<1>2. command = "rdf" => 4 * (Calls[message[s]] + 1 - call[s]) \in Nat
    <2>1. Calls[message[s]] \in Nat
        BY HttpAssumption DEF Shape, HandlersHoldRequests
    <2> QED
        BY <2>1 DEF BatchInv, BatchOK
<1> QED
    BY <1>1, <1>2 DEF StepsLeft

\* After a step too.
LEMMA StepsLeftAfter ==
    ASSUME NEW s \in Slots
    PROVE  (Shape /\ BatchInv)' => (StepsLeft(s) \in Nat)'
<1>1. Shape /\ BatchInv => StepsLeft(s) \in Nat
    BY StepsLeftType
<1> QED
    BY <1>1, PTL

\* A handler at work has one left, at the end of its batch too.
LEMMA StepsLeftPositive ==
    ASSUME Shape, BatchInv, NEW s \in Slots, handler[s] # "free"
    PROVE  StepsLeft(s) > 0
<1>1. Ahead(handler[s]) \in Nat \ {0}
    BY DEF Ahead, Shape, TypeOK, HandlerStates
<1>2. command = "rdf" => 4 * (Calls[message[s]] + 1 - call[s]) \in Nat
    <2>1. Calls[message[s]] \in Nat
        BY HttpAssumption DEF Shape, HandlersHoldRequests
    <2> QED
        BY <2>1 DEF BatchInv, BatchOK
<1> QED
    BY <1>1, <1>2 DEF StepsLeft

\* A handler that goes on with the same call comes nearer to the end.
LEMMA GoingLeavesFewer ==
    ASSUME Shape, BatchInv, NEW s \in Slots, NEW from, NEW to, from # "free",
           Goes(s, from, to), to \in HandlerStates, to # "free",
           Ahead(to) < Ahead(from),
           UNCHANGED <<command, message, call>>
    PROVE  StepsLeft(s)' < StepsLeft(s)
<1>1. handler[s] = from /\ handler'[s] = to
    BY DEF Goes, Shape, TypeOK
<1>2. Ahead(to) \in Nat /\ Ahead(from) \in Nat
    BY DEF Ahead
<1>3. command = "rdf" => 4 * (Calls[message[s]] + 1 - call[s]) \in Nat
    <2>1. Calls[message[s]] \in Nat
        BY <1>1 , HttpAssumption DEF Shape, HandlersHoldRequests
    <2> QED
        BY <1>1, <2>1 DEF BatchInv, BatchOK
<1> QED
    BY <1>1, <1>2, <1>3 DEF StepsLeft

\* A handler that is through has none left.
LEMMA EndingLeavesNone ==
    ASSUME Shape, BatchInv, NEW s \in Slots, NEW from, from # "free", Goes(s, from, "free")
    PROVE  StepsLeft(s)' < StepsLeft(s)
<1>1. handler[s] # "free" /\ handler'[s] = "free"
    BY DEF Goes, Shape, TypeOK
<1> QED
    BY <1>1, StepsLeftPositive DEF StepsLeft

\* Every step of a handler is one of its steps.
LEMMA HandlerLeavesFewer ==
    ASSUME Shape, BatchInv, NEW s \in Slots, HandlerStep(s)
    PROVE  StepsLeft(s)' < StepsLeft(s)
<1> USE GoingLeavesFewer, EndingLeavesNone DEF HandlerStates
<1>1. CASE BatchEnds(s)
    BY <1>1 DEF BatchEnds, Ahead, batchVars
<1>2. CASE Decode(s)
    BY <1>2 DEF Decode, Ahead, callerVars, batchVars
<1>3. CASE StartTask(s)
    BY <1>3 DEF StartTask, Ahead, callerVars, batchVars
<1>4. CASE InvokeReturns(s)
    BY <1>4 DEF InvokeReturns, Ahead, callerVars, batchVars
<1>5. CASE DoneTask(s)
    <2>1. CASE Goes(s, "done", "call") /\ FillReply(s) /\ command = "rdf"
        <3>1. /\ handler[s] = "done" /\ handler'[s] = "call"
              /\ UNCHANGED <<command, message>>
              /\ call'[s] = call[s] + 1
            BY <2>1 DEF Goes, FillReply, callerVars, Shape, TypeOK
        <3>2. Calls[message[s]] \in Nat /\ call[s] \in Nat
            BY <3>1, HttpAssumption DEF Shape, TypeOK, HandlersHoldRequests
        <3> QED
            BY <2>1, <3>1, <3>2 DEF StepsLeft, Ahead
    <2>2. CASE /\ Goes(s, "doneErr", "error") \/ Goes(s, "done", "reply")
               /\ UNCHANGED <<callerVars, batchVars>>
        BY <2>2 DEF Ahead, callerVars, batchVars
    <2> QED
        BY <1>5, <2>1, <2>2 DEF DoneTask
<1>6. CASE Reply(s)
    BY <1>6 DEF Reply, Ahead, callerVars, batchVars
<1>7. CASE PublishReturns(s)
    BY <1>7 DEF PublishReturns, Ahead, batchVars
<1>8. CASE Respond(s)
    BY <1>8 DEF Respond
<1>9. CASE SendPanics(s)
    <2>1. handler[s] # "free"
        BY <1>9 DEF SendPanics, Sending
    <2> QED
        BY <1>9, <2>1 DEF SendPanics
<1> QED
    BY <1>1, <1>2, <1>3, <1>4, <1>5, <1>6, <1>7, <1>8, <1>9 DEF HandlerStep, HandlerMoves

\* Nothing but a new request brings a handler more steps.
LEMMA NothingAddsSteps ==
    ASSUME Shape, BatchInv, [Next]_vars, NEW s \in Slots, handler[s] # "free"
    PROVE  StepsLeft(s)' <= StepsLeft(s)
<1>0. StepsLeft(s) \in Nat
    BY StepsLeftType
<1>1. ASSUME UNCHANGED command, handler'[s] = handler[s], message'[s] = message[s],
             call'[s] = call[s]
      PROVE  StepsLeft(s)' <= StepsLeft(s)
    <2>1. StepsLeft(s)' = StepsLeft(s)
        BY <1>1 DEF StepsLeft
    <2> QED
        BY <1>0, <2>1
<1>2. ASSUME UNCHANGED <<command, handler, message, call>>
      PROVE  StepsLeft(s)' <= StepsLeft(s)
    BY <1>1, <1>2
<1>3. ASSUME NEW how, ProcessEnds(how) PROVE StepsLeft(s)' <= StepsLeft(s)
    <2>1. StepsLeft(s)' = 0
        BY <1>3 DEF ProcessEnds, StepsLeft
    <2> QED
        BY <1>0, <2>1
<1>4. CASE \/ Connect \/ Shutdown \/ ListenReturns \/ Restart \/ Loop
           \/ ~cancelled /\ Signal
    BY <1>2, <1>3, <1>4 DEF Connect, Shutdown, ListenReturns, Restart, Loop, Signal,
                     callerVars, handlerVars, batchVars
<1>5. CASE HandlerStep(s)
    <2>1. StepsLeft(s)' < StepsLeft(s)
        BY <1>5, HandlerLeavesFewer
    <2>2. StepsLeft(s)' \in Nat
        BY NextKeepsShape, NextKeepsBatch, StepsLeftAfter
    <2> QED
        BY <1>0, <2>1, <2>2
<1>6. ASSUME NEW t \in Slots \ {s},
             \/ HandlerStep(t)
             \/ \E m \in Messages : Arrive(t, m)
      PROVE  StepsLeft(s)' <= StepsLeft(s)
    <2>1. /\ UNCHANGED command
          /\ handler'[s] = handler[s] /\ message'[s] = message[s] /\ call'[s] = call[s]
        BY <1>6 DEF HandlerStep, HandlerMoves, StartTask, DoneTask, FillReply, BatchEnds,
                    Decode, InvokeReturns, Reply, PublishReturns, Respond, SendPanics,
                    Hangup, Goes, Arrive, callerVars, batchVars, Shape, TypeOK
    <2> QED
        BY <1>1, <2>1
<1>7. ASSUME NEW m \in Messages, Arrive(s, m) PROVE FALSE
    BY <1>7 DEF Arrive, Goes
<1>8. CASE (\E t \in Slots : CallerGivesUp(t)) \/ UNCHANGED vars
    BY <1>2, <1>8 DEF CallerGivesUp, vars, callerVars, handlerVars, batchVars
<1> QED
    BY <1>3, <1>4, <1>5, <1>6, <1>7, <1>8
       DEF Next, MainStep, ServeFails, StopReturns, ForcedExit, Crash, Signal

\* The statistics goroutine lives as long as nothing but a signal can cancel the
\* program, and a signal starts the countdown of the forced exit.
LoopLives ==
    /\ ~timeoutSet /\ ~timerOn
    /\ cancelled => forced
    /\ main \in {"closing", "stop"} \/ closed \/ loop = "gone" => forced

\* Every step keeps it so.
LEMMA NextKeepsLoop == ASSUME Shape, LoopLives, [Next]_vars PROVE LoopLives'
<1>1. ASSUME NEW how, ProcessEnds(how) PROVE LoopLives'
    BY <1>1 DEF ProcessEnds, StatsFresh, LoopLives
<1>2. CASE \/ Connect \/ Shutdown \/ ListenReturns \/ Restart
           \/ ~cancelled /\ Signal
    BY <1>2 DEF Connect, Shutdown, ListenReturns, Restart, Signal, statsVars, loopVars,
                LoopLives
<1>3. CASE Loop
    <2> USE <1>3 DEF Loop, mainVars, LoopLives
    <2>1. CASE LoopWaits
        BY <2>1, Zenon DEF LoopWaits
    <2>2. CASE LoopEnds
        BY <2>2 DEF LoopEnds
    <2>3. CASE SelectDone
        BY <2>3 DEF SelectDone
    <2>4. CASE SelectLog
        BY <2>4 DEF SelectLog
    <2>5. CASE LoopIdleOver \/ SelectTimer
        BY <2>5 DEF LoopIdleOver, SelectTimer
    <2> QED
        BY <2>1, <2>2, <2>3, <2>4, <2>5 DEF LoopStep
<1>4. ASSUME NEW s \in Slots, StartTask(s) \/ DoneTask(s) PROVE LoopLives'
    BY <1>4 DEF StartTask, DoneTask, ReceiveStart, ReceiveDone, Receive, mainVars, LoopLives
<1>5. ASSUME NEW s \in Slots,
             \/ HandlerMoves(s) \/ CallerGivesUp(s)
             \/ \E m \in Messages : Arrive(s, m)
      PROVE  LoopLives'
    <2>1. UNCHANGED <<statsVars, mainVars>>
        BY <1>5 DEF HandlerMoves, BatchEnds, Decode, InvokeReturns, Reply, PublishReturns,
                    Respond, SendPanics, Hangup, CallerGivesUp, Arrive
    <2> QED
        BY <2>1 DEF statsVars, loopVars, mainVars, LoopLives
<1>6. CASE UNCHANGED vars
    BY <1>6 DEF vars, statsVars, loopVars, mainVars, LoopLives
<1> QED
    BY <1>1, <1>2, <1>3, <1>4, <1>5, <1>6
       DEF Next, MainStep, ServeFails, StopReturns, ForcedExit, Crash, Signal, HandlerStep

\* No request occupies a handler for ever: its handler has a bounded number of
\* steps left whatever the size of the batch, every one of them uses one up and
\* only a new request brings more.  The one thing it can wait for, a statistics
\* goroutine that is gone, is only gone when the forced exit is counting down.
\* (RequestsSettle follows under the fairness TLC checks it with.)
THEOREM HandlersAreCounted ==
    Spec => /\ [](\A s \in Slots : StepsLeft(s) \in Nat)
            /\ [][\A s \in Slots :
                    /\ HandlerStep(s) => StepsLeft(s)' < StepsLeft(s)
                    /\ handler[s] # "free" => StepsLeft(s)' <= StepsLeft(s)]_vars
            /\ [](loop = "gone" => forced)
<1> DEFINE Inv == Shape /\ BatchInv /\ LoopLives
<1>1. Init => Inv
    BY InitShape, InitBatch DEF Init, StatsInit, LoopLives
<1>2. Inv /\ [Next]_vars => Inv'
    BY NextKeepsShape, NextKeepsBatch, NextKeepsLoop
<1>3. Inv => /\ \A s \in Slots : StepsLeft(s) \in Nat
             /\ loop = "gone" => forced
    BY StepsLeftType DEF LoopLives
<1>4. Inv /\ [Next]_vars =>
        [\A s \in Slots :
            /\ HandlerStep(s) => StepsLeft(s)' < StepsLeft(s)
            /\ handler[s] # "free" => StepsLeft(s)' <= StepsLeft(s)]_vars
    BY HandlerLeavesFewer, NothingAddsSteps
<1> QED
    BY <1>1, <1>2, <1>3, <1>4, PTL DEF Spec
=============================================================================
