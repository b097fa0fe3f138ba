---------------------------- MODULE ServerRuntime -----------------------------
(***************************************************************************)
(* pkg/object/httpserver/runtime.go and pkg/object/grpcserver/runtime.go:  *)
(* the state machine that owns the listening server of a traffic gate.     *)
(* Its events come from the owner (Inherit, Close), from the goroutines of *)
(* the servers it started (in rounds) and from the ticker that looks for a *)
(* failed server.  A handler is one step: what happens beside it only adds *)
(* events to the channel.                                                  *)
(*                                                                         *)
(* A spec is its protocol, its port, its options (what else a restart is   *)
(* needed for) and its rules, which stand for what changes without one.    *)
(* HTTP/1 and gRPC listen on TCP before the server's goroutine starts,     *)
(* HTTP/3 on UDP in the goroutine.  The phases of a server:                *)
(*   "bind"    HTTP/3: the goroutine has not listened yet                  *)
(*   "start"   the listener is open, the goroutine does not serve yet      *)
(*   "serve"   it serves                                                   *)
(*   "late"    it was shut down before it served: its listener is open     *)
(*             until the goroutine finds out                               *)
(*   "report"  it failed and the goroutine has to say so                   *)
(***************************************************************************)
EXTENDS Naturals, Sequences, FiniteSets

CONSTANTS
  ServerSpecs,        \* records of proto, port, options and rules
  SwitchProtocol,     \* updates may turn HTTP/1 into HTTP/3 and back
  RuntimeEventCap,    \* capacity of r.eventChan
  MaxReloads,         \* bound on the updates
  MaxFaults,          \* bound on the accept errors, and on the ports others take
  MaxRound            \* bound on the rounds

VARIABLES
  rt,           \* the runtime: spec, roundNum, state, server, server3
  servers,      \* the servers whose goroutine runs: round, spec, and its phase
  events,       \* r.eventChan
  owner,        \* the gate's owner: "use", "close" (waits for done), "closed"
  ticker,       \* checkFailed: "tick", "send" (saw a failed server), "stopped"
  taken,        \* the addresses other processes listen on
  reloads, faults

runtimeVars == <<rt, servers, events, owner, ticker, taken, reloads, faults>>

NoSpec == [proto |-> "none", port |-> 0, options |-> 0, rules |-> 0]

Network(spec) == IF spec.proto = "http3" THEN "udp" ELSE "tcp"

Address(spec) == <<Network(spec), spec.port>>

Alive == {s \in servers : s.phase \in {"bind", "start", "serve"}}

InUse(srvs, spec) ==
  \/ Address(spec) \in taken
  \/ \E s \in srvs : s.phase \in {"start", "serve", "late"} /\ Address(s.spec) = Address(spec)

Server(r, phase) == [round |-> r.roundNum, spec |-> r.spec, phase |-> phase]

-----------------------------------------------------------------------------
(* The handlers map the runtime and its servers to new ones.                *)

\* startHTTP1And2Server listens before the goroutine starts.
startTCPServer(r, srvs) ==
  IF InUse(srvs, r.spec)
  THEN [rt |-> [r EXCEPT !.state = "failed", !.server = r.roundNum], srv |-> srvs]
  ELSE [rt |-> [r EXCEPT !.server = r.roundNum], srv |-> srvs \cup {Server(r, "start")}]

startHTTP3Server(r, srvs) ==
  [rt |-> [r EXCEPT !.server3 = r.roundNum], srv |-> srvs \cup {Server(r, "bind")}]

startServer(r, srvs) ==
  LET next == [r EXCEPT !.roundNum = @ + 1, !.state = "running"]
  IN IF r.spec.proto = "http3" THEN startHTTP3Server(next, srvs)
     ELSE startTCPServer(next, srvs)

\* Fault: the previous server is left alone.
closeServer_Not(r, srvs) == srvs

\* server3 is never reset: once it is set, only that server is closed.
closeServer(r, srvs) ==
  LET closed == IF r.server3 # 0 THEN r.server3 ELSE r.server
      mine == {s \in srvs : s.round = closed}
  IN (srvs \ mine) \cup {s \in mine : s.phase \in {"late", "report"}}
     \cup {[s EXCEPT !.phase = "late"] : s \in {t \in mine : t.phase = "start"}}

needRestartServer(spec, next) == [spec EXCEPT !.rules = 0] # [next EXCEPT !.rules = 0]

\* Fault: the new spec is in place only after the restart.
reload_Late(r, srvs, next) ==
  IF r.spec = NoSpec THEN startServer([r EXCEPT !.spec = next], srvs)
  ELSE IF needRestartServer(r.spec, next)
  THEN LET st == startServer(r, closeServer(r, srvs))
       IN [st EXCEPT !.rt.spec = next]
  ELSE [rt |-> [r EXCEPT !.spec = next], srv |-> srvs]

reload(r, srvs, next) ==
  LET changed == [r EXCEPT !.spec = next] IN
  IF r.spec = NoSpec THEN startServer(changed, srvs)
  ELSE IF needRestartServer(r.spec, next) THEN startServer(changed, closeServer(r, srvs))
  ELSE [rt |-> changed, srv |-> srvs]

\* Fault: a late report of an earlier round is believed.
ServeFailed_AnyRound(r, round) == [r EXCEPT !.state = "failed"]

ServeFailed(r, round) == IF r.roundNum > round THEN r ELSE [r EXCEPT !.state = "failed"]

handle(r, srvs, e) ==
  CASE e.type = "reload" -> reload(r, srvs, e.spec)
    [] e.type = "failed" -> [rt |-> ServeFailed(r, e.round), srv |-> srvs]
    [] e.type = "check" -> IF r.state = "failed" THEN startServer(r, srvs)
                           ELSE [rt |-> r, srv |-> srvs]
    [] e.type = "close" -> [rt |-> [r EXCEPT !.state = "closed"], srv |-> closeServer(r, srvs)]

-----------------------------------------------------------------------------

newRuntime ==
  [spec |-> NoSpec, roundNum |-> 0, state |-> "nil", server |-> 0, server3 |-> 0]

RuntimeInit ==
  /\ rt = newRuntime /\ servers = {} /\ owner = "use" /\ ticker = "tick"
  /\ \E s \in ServerSpecs : events = <<[type |-> "reload", spec |-> s]>>
  /\ taken = {} /\ reloads = 0 /\ faults = 0

\* Other goroutines wait while the channel is full.
Send(e) == Len(events) < RuntimeEventCap /\ events' = Append(events, e)

LastSpec == IF \E i \in DOMAIN events : events[i].type = "reload"
            THEN LET last == CHOOSE i \in DOMAIN events :
                               /\ events[i].type = "reload"
                               /\ \A j \in DOMAIN events : events[j].type = "reload" => j <= i
                 IN events[last].spec
            ELSE rt.spec

\* Inherit.
Reload(s) ==
  /\ owner = "use" /\ reloads < MaxReloads /\ reloads' = reloads + 1
  /\ SwitchProtocol \/ s.proto = LastSpec.proto
  /\ Send([type |-> "reload", spec |-> s])
  /\ UNCHANGED <<rt, servers, owner, ticker, taken, faults>>

CloseRuntime ==
  /\ owner = "use" /\ owner' = "close"
  /\ Send([type |-> "close"])
  /\ UNCHANGED <<rt, servers, ticker, taken, reloads, faults>>

fsm ==
  /\ rt.state # "closed" /\ events # <<>>
  /\ LET e == Head(events)
         st == handle(rt, servers, e)
     IN /\ rt' = st.rt /\ servers' = st.srv
        /\ owner' = IF e.type = "close" THEN "closed" ELSE owner
  /\ events' = Tail(events)
  /\ UNCHANGED <<ticker, taken, reloads, faults>>

\* The goroutine of an HTTP/3 server listens.
ListenUDP(s) ==
  /\ s \in servers /\ s.phase = "bind"
  /\ LET p == IF InUse(servers, s.spec) THEN "report" ELSE "serve"
     IN servers' = (servers \ {s}) \cup {[s EXCEPT !.phase = p]}
  /\ UNCHANGED <<rt, events, owner, ticker, taken, reloads, faults>>

\* The goroutine calls Serve.  The listener of a server that was shut down
\* is closed then; gRPC returns an error, HTTP/1 does not.
Serve(s) ==
  /\ s \in servers
  /\ \/ s.phase = "start" /\ servers' = (servers \ {s}) \cup {[s EXCEPT !.phase = "serve"]}
     \/ s.phase = "late" /\ servers' = servers \ {s}
     \/ s.phase = "late" /\ servers' = (servers \ {s}) \cup {[s EXCEPT !.phase = "report"]}
  /\ UNCHANGED <<rt, events, owner, ticker, taken, reloads, faults>>

\* Serve returns an error, which the goroutine reports.
ServeFails(s) ==
  /\ s \in servers /\ s.phase = "serve"
  /\ faults < MaxFaults /\ faults' = faults + 1
  /\ servers' = (servers \ {s}) \cup {[s EXCEPT !.phase = "report"]}
  /\ UNCHANGED <<rt, events, owner, ticker, taken, reloads>>

Report(s) ==
  /\ s \in servers /\ s.phase = "report"
  /\ Send([type |-> "failed", round |-> s.round])
  /\ servers' = servers \ {s}
  /\ UNCHANGED <<rt, owner, ticker, taken, reloads, faults>>

\* Fault: the goroutine ends when it has seen a failure.
Check_Once ==
  /\ \/ /\ ticker = "tick" /\ rt.state = "failed" /\ rt.roundNum < MaxRound
        /\ ticker' = "send" /\ UNCHANGED events
     \/ ticker = "tick" /\ rt.state = "closed" /\ ticker' = "stopped" /\ UNCHANGED events
     \/ ticker = "send" /\ Send([type |-> "check"]) /\ ticker' = "stopped"
  /\ UNCHANGED <<rt, servers, owner, taken, reloads, faults>>

\* checkFailed, at a tick.
Check ==
  /\ \/ /\ ticker = "tick" /\ rt.state = "failed" /\ rt.roundNum < MaxRound
        /\ ticker' = "send" /\ UNCHANGED events
     \/ ticker = "tick" /\ rt.state = "closed" /\ ticker' = "stopped" /\ UNCHANGED events
     \/ ticker = "send" /\ Send([type |-> "check"]) /\ ticker' = "tick"
  /\ UNCHANGED <<rt, servers, owner, taken, reloads, faults>>

\* Another process takes or frees an address.
TakePort(s) ==
  /\ faults < MaxFaults /\ ~InUse(servers, s) /\ faults' = faults + 1
  /\ taken' = taken \cup {Address(s)}
  /\ UNCHANGED <<rt, servers, events, owner, ticker, reloads>>

FreePort ==
  /\ \E a \in taken : taken' = taken \ {a}
  /\ UNCHANGED <<rt, servers, events, owner, ticker, reloads, faults>>

ServerStep(s) == ListenUDP(s) \/ Serve(s) \/ ServeFails(s) \/ Report(s)

RuntimeNext ==
  \/ \E s \in ServerSpecs : Reload(s) \/ TakePort(s)
  \/ CloseRuntime \/ fsm \/ Check \/ FreePort
  \/ \E s \in servers : ServerStep(s)

RuntimeSpec == RuntimeInit /\ [][RuntimeNext]_runtimeVars

(* The goroutines of the machine, of the ticker and of the servers run.     *)
RuntimeFairness ==
  /\ WF_runtimeVars(fsm) /\ WF_runtimeVars(Check)
  /\ WF_runtimeVars(\E s \in servers : ListenUDP(s) \/ Serve(s) \/ Report(s))

RuntimeFairSpec == RuntimeSpec /\ RuntimeFairness

-----------------------------------------------------------------------------

Reporting == \E s \in servers : s.phase = "report"

Pending == Reporting \/ \E i \in DOMAIN events : events[i].type = "failed"

(* runtime.go:252: a runtime that says it is running has a server of the    *)
(* current spec that listens, or starts to, unless a failure is under way   *)
(* to it.                                                                   *)
RunningServes ==
  (rt.state = "running" /\ ~Pending) =>
    \E s \in Alive : s.round = rt.roundNum /\ ~needRestartServer(s.spec, rt.spec)

(* runtime.go:384: a server that works is never declared failed on account  *)
(* of an earlier one.                                                       *)
FailedIsDead == rt.state = "failed" => \A s \in Alive : s.round # rt.roundNum

(* runtime.go:344: the server of an earlier round does not keep serving     *)
(* with an old spec on the side; none is left when Close has returned.      *)
NoServerLeft ==
  \A s \in Alive : s.round = rt.roundNum /\ rt.state # "closed"

(* httpserver.go:100, "Close closes HTTPServer": nothing serves any more    *)
(* when Close has returned.                                                 *)
ClosesServers == owner = "closed" => Alive = {}

(* runtime.go:368: a failed server is started again, whatever else is in    *)
(* the channel, and Close always returns.                                   *)
RetriesAndCloses ==
  /\ (rt.state = "failed" /\ rt.roundNum < MaxRound) ~>
       (rt.state # "failed" \/ rt.roundNum = MaxRound)
  /\ owner = "close" ~> owner = "closed"
=============================================================================
