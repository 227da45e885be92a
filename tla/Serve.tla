-------------------------------- MODULE Serve --------------------------------
(***************************************************************************)
(* fireline serve: the command around the read API, from loading the       *)
(* Fireline to the exit of the process, and the goroutine that shuts the   *)
(* HTTP server down when the command's context is cancelled.               *)
(*                                                                         *)
(* net/http is outside src/: Serve hands each request to a handler until   *)
(* Shutdown begins, and returns ErrServerClosed as soon as it has begun;   *)
(* Shutdown itself waits for the handlers, in its own goroutine.           *)
(***************************************************************************)
EXTENDS Api

VARIABLE command    \* the control state of the command and of its goroutine

serveVars == <<storeVars, importVars, apiVars, command>>

CommandPCs == {"down", "compiled", "opened", "serving", "returned", "closed",
               "failed", "exited"}

ServeTypeOK ==
    command \in [pc : CommandPCs,
                 cancelled : BOOLEAN,    \* ctx.Done() is closed
                 shutdown : BOOLEAN]     \* srv.Shutdown has begun

ServeInit ==
    command = [pc |-> "down", cancelled |-> FALSE, shutdown |-> FALSE]

Running == command.pc \in {"compiled", "opened", "serving", "returned", "closed"}

\* The command returns an error; what it had opened is closed.
Fail ==
    /\ command' = [command EXCEPT !.pc = "failed"]
    /\ engine' = NoFireline
    /\ repoOpen' = FALSE

\* LoadFirelineFile and NewEngine, before anything else.
LoadAndCompile ==
    /\ command.pc = "down"
    /\ \E f \in ServedFirelines :
          IF Compiles(f)
          THEN /\ engine' = f
               /\ command' = [command EXCEPT !.pc = "compiled"]
               /\ UNCHANGED repoOpen
          ELSE Fail
    /\ UNCHANGED <<storeVars, importVars, requests>>

\* config.Load and openRepository, whose ping fails on a cancelled context.
OpenRepository ==
    /\ command.pc = "compiled"
    /\ \/ /\ ~command.cancelled
          /\ command' = [command EXCEPT !.pc = "opened"]
          /\ repoOpen' = TRUE
          /\ UNCHANGED engine
       \/ Fail
    /\ UNCHANGED <<storeVars, importVars, requests>>

\* Mutant: the repository is not closed when the address cannot be bound.
ListenLeaking ==
    /\ command.pc = "opened"
    /\ \E pc \in {"serving", "failed"} : command' = [command EXCEPT !.pc = pc]
    /\ UNCHANGED <<storeVars, importVars, apiVars>>

\* net.Listen; on failure the deferred close runs and the command returns.
Listen ==
    /\ command.pc = "opened"
    /\ \/ /\ command' = [command EXCEPT !.pc = "serving"]
          /\ UNCHANGED <<engine, repoOpen>>
       \/ Fail
    /\ UNCHANGED <<storeVars, importVars, requests>>

\* The caller cancels the context of the command.
Cancel ==
    /\ Running
    /\ ~command.cancelled
    /\ command' = [command EXCEPT !.cancelled = TRUE]
    /\ UNCHANGED <<storeVars, importVars, apiVars>>

\* Mutant: nothing waits for the context.
NoShutdown ==
    /\ FALSE
    /\ UNCHANGED serveVars

\* The goroutine: Shutdown closes the listeners and starts to wait.
BeginShutdown ==
    /\ command.pc = "serving"
    /\ command.cancelled /\ ~command.shutdown
    /\ command' = [command EXCEPT !.shutdown = TRUE]
    /\ UNCHANGED <<storeVars, importVars, apiVars>>

\* Serve returns: ErrServerClosed once Shutdown has begun, or an error of Accept.
ServeReturns ==
    /\ command.pc = "serving"
    /\ command' = [command EXCEPT !.pc = "returned"]
    /\ UNCHANGED <<storeVars, importVars, apiVars>>

\* The deferred opened.close() runs, whatever handlers are in flight.
CloseRepository ==
    /\ command.pc = "returned"
    /\ command' = [command EXCEPT !.pc = "closed"]
    /\ repoOpen' = FALSE
    /\ UNCHANGED <<storeVars, importVars, requests, engine>>

\* main returns; the connections of the process go with it.
Exit ==
    /\ command.pc = "closed"
    /\ command' = [command EXCEPT !.pc = "exited"]
    /\ requests' = Dropped
    /\ engine' = NoFireline
    /\ UNCHANGED <<storeVars, importVars, repoOpen>>

\* The process is killed.
KillServer ==
    /\ Running
    /\ command' = [command EXCEPT !.pc = "exited"]
    /\ requests' = Dropped
    /\ engine' = NoFireline
    /\ repoOpen' = FALSE
    /\ UNCHANGED <<storeVars, importVars>>

\* fireline serve is run again.
Restart ==
    /\ command.pc \in {"failed", "exited"}
    /\ command' = [pc |-> "down", cancelled |-> FALSE, shutdown |-> FALSE]
    /\ UNCHANGED <<storeVars, importVars, apiVars>>

\* A request reaches a handler.
Accept(q) ==
    /\ command.pc = "serving" /\ ~command.shutdown
    /\ Receive(q) \/ ReceiveBad(q)
    /\ UNCHANGED command

Handle(q) == HandlerStep(q) /\ UNCHANGED command

\* The client goes away: its request context is cancelled.
Disconnect(q) ==
    /\ q \in InFlight
    /\ Update(q, [requests[q] EXCEPT !.pc = "dropped"])
    /\ UNCHANGED command

CommandStep ==
    \/ LoadAndCompile \/ OpenRepository \/ Listen
    \/ BeginShutdown \/ (command.shutdown /\ ServeReturns)
    \/ CloseRepository \/ Exit

ServeNext ==
    \/ CommandStep \/ ServeReturns
    \/ Cancel \/ KillServer \/ Restart
    \/ \E q \in Requests : Accept(q) \/ Handle(q) \/ Disconnect(q)

-----------------------------------------------------------------------------
(* Properties. *)

\* A bad Fireline or CEL text fails serve at startup, before any backend is
\* needed (serve.go:24-34, docs/policy-engine/evaluation.md:38-40); the handle is
\* open only while the process that opened it runs, and every way out of the
\* command closes it (serve.go:46).
HandleOwned ==
    /\ engine # NoFireline => Compiles(engine)
    /\ repoOpen => Running /\ command.pc # "compiled" /\ engine # NoFireline
    /\ command.pc = "serving" => repoOpen

\* "Shut down gracefully when ctx is canceled ... stop the server cleanly"
\* (serve.go:57-62): the repository is not closed under a handler that was in
\* flight when the shutdown began.
CleanStop ==
    command.shutdown /\ command.pc = "closed" => InFlight = {}
=============================================================================
