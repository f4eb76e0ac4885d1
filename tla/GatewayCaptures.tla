-------------------------- MODULE GatewayCaptures --------------------------
(***************************************************************************)
(* The capture lanes of services/rtk-gateway: one background loop per live *)
(* transport (serial, NTRIP) and the diagnostics server, whose only thread *)
(* answers one request at a time and runs the same captures on demand, and *)
(* the fixture replay.                                                     *)
(*                                                                         *)
(* A capture reads its sources one after the other, a serial port being    *)
(* opened for exclusive use; then writes one transaction to the runtime    *)
(* database, in which the rows of the devices it names stay locked until   *)
(* the end; and only then records its outcome in the shared ReplayState.   *)
(* The threads meet in three places: the ports, the device rows and the    *)
(* recorded status.  The runtime database is configured and the sources    *)
(* are live ones.                                                          *)
(***************************************************************************)
EXTENDS Naturals, SequencesExt

CONSTANTS Configurations,  \* gateways: [protocol, ntrip, fixture]
          RequestLimit,    \* bound on the requests for a capture
          FaultLimit       \* bound on what goes wrong outside the gateway

ASSUME GatewayAssumption ==
  /\ \A c \in Configurations :
       /\ c.protocol \in {"nmea", "ns_raw", "ns_raw_pair"} /\ c.ntrip \in BOOLEAN
       /\ c.fixture \in Seq({"rover", "base"})
  /\ RequestLimit \in Nat /\ FaultLimit \in Nat

VARIABLES config,     \* GatewayConfig::from_env
          job,        \* what each thread is doing
          port,       \* the thread that has a serial port open
          rowLock,    \* the transaction holding the row of a device
          stored,     \* the session each running capture has committed
          status,     \* ReplayState: last_error and last_summary by kind
          requests,   \* capture requests received so far
          faults      \* faults so far

vars == <<config, job, port, rowLock, stored, status, requests, faults>>

Kinds   == {"serial", "ntrip", "replay"}
Loops   == {"serial_loop", "ntrip_loop"}
Threads == Loops \cup {"http"}
Ports   == {"rover", "base"}
Nobody  == "nobody"

\* What a source delivers: bytes nothing can be decoded from, frames, or
\* frames with a position or raw measurements of the device.
Payloads == {"garbage", "frames", "fixes"}
Items    == [device : Ports \cup {"caster"}, payload : Payloads \cup {"solution"}]

\* The sources of a capture in the order they are read; none when the
\* gateway is not configured for it.  With one NS-RAW receiver the caster
\* delivers the corrections.
Sources(kind) ==
  CASE kind = "serial" /\ config.protocol = "nmea"        -> <<"rover">>
    [] kind = "serial" /\ config.protocol = "ns_raw_pair" -> <<"rover", "base">>
    [] kind = "serial" /\ config.protocol = "ns_raw"      ->
         IF config.ntrip THEN <<"rover", "caster">> ELSE <<"rover">>
    [] kind = "ntrip"  -> IF config.ntrip THEN <<"caster">> ELSE <<>>
    [] kind = "replay" -> IF config.fixture = <<>> THEN <<>> ELSE <<"file">>

IsCorrection(kind, source) == kind = "serial" /\ source = "caster"

LoopKind(t) == IF t = "serial_loop" THEN "serial" ELSE "ntrip"

NoSession == [kind |-> "none", items |-> <<>>]
NoSummary == [samples |-> 0, solutions |-> 0]

\* todo and got: the sources left and what those read delivered, then the
\* items left to write and those written.
Idle == [step |-> "idle", kind |-> "serial", todo |-> <<>>, got |-> <<>>, ok |-> FALSE]

\* main: no loop where the transport is not configured.
GatewayInit ==
  /\ config \in Configurations
  /\ job = [t \in Threads |-> Idle]
  /\ port = [p \in Ports |-> Nobody]
  /\ rowLock = [d \in Ports |-> Nobody]
  /\ stored = [t \in Threads |-> NoSession]
  /\ status = [k \in Kinds |-> [error |-> FALSE, summary |-> NoSummary]]
  /\ requests = 0
  /\ faults = 0

Looped(t) == t \in Loops /\ Sources(LoopKind(t)) # <<>>

\* As if a failed capture left its transaction open.
FailsInTransaction(t) ==
  /\ job' = [job EXCEPT ![t].step = "record", ![t].ok = FALSE]
  /\ port' = [p \in Ports |-> IF port[p] = t THEN Nobody ELSE port[p]]
  /\ UNCHANGED rowLock

\* Every exit with an error: the port is closed, the transaction rolled back.
Fails(t) ==
  /\ job' = [job EXCEPT ![t].step = "record", ![t].ok = FALSE]
  /\ port' = [p \in Ports |-> IF port[p] = t THEN Nobody ELSE port[p]]
  /\ rowLock' = [d \in Ports |-> IF rowLock[d] = t THEN Nobody ELSE rowLock[d]]

(***************************************************************************)
(* Starting.  A capture the gateway has no source for fails at once.       *)
(***************************************************************************)
Start(t, kind) ==
  /\ job[t].step = "idle"
  /\ job' = [job EXCEPT ![t] =
               [Idle EXCEPT !.kind = kind, !.todo = Sources(kind),
                            !.step = IF Sources(kind) = <<>> THEN "record" ELSE "read"]]
  /\ UNCHANGED <<config, port, rowLock, stored, status, faults>>

LoopTurn(t) == Looped(t) /\ Start(t, LoopKind(t)) /\ UNCHANGED requests

Request(kind) == /\ requests < RequestLimit
                 /\ requests' = requests + 1
                 /\ Start("http", kind)

(***************************************************************************)
(* Reading.                                                                *)
(***************************************************************************)
Reading(t) == job[t].step = "read"

OpenPort(t) ==
  LET source == Head(job[t].todo) IN
  /\ Reading(t)
  /\ source \in Ports
  /\ port[source] # t
  /\ IF port[source] = Nobody
     THEN port' = [port EXCEPT ![source] = t] /\ UNCHANGED <<job, rowLock>>
     ELSE Fails(t)
  /\ UNCHANGED <<config, stored, status, requests, faults>>

\* The solver runs on the captured bytes, so what it will say is settled
\* once they are read: with two receivers, or one and corrections, it may
\* find a position of the rover.
CanSolve(kind, got, corrected) ==
  kind = "serial" /\ config.protocol # "nmea" /\ (Len(got) = 2 \/ corrected)

Solution == <<[device |-> "rover", payload |-> "solution"]>>

\* After a source: the next one, or the transaction.
AfterSource(j, got, corrected) ==
  IF Len(j.todo) > 1
  THEN {[j EXCEPT !.todo = Tail(@), !.got = got]}
  ELSE {[j EXCEPT !.step = "write", !.got = <<>>, !.todo = got \o solved] :
          solved \in {<<>>} \cup (IF CanSolve(j.kind, got, corrected) THEN {Solution} ELSE {})}

\* What a whole capture window of one source delivers; a fixture names its
\* own devices.
Delivered(source, payload) ==
  IF source = "file"
  THEN [i \in DOMAIN config.fixture |-> [device |-> config.fixture[i], payload |-> "fixes"]]
  ELSE <<[device |-> source, payload |-> payload]>>

\* Corrections are for the solver and no part of the session.
AfterDelivery(j, payload) ==
  LET source == Head(j.todo) IN
  IF IsCorrection(j.kind, source) THEN AfterSource(j, j.got, TRUE)
  ELSE AfterSource(j, j.got \o Delivered(source, payload), FALSE)

\* As if a port stayed open until the capture ends.
DeliverHoldingPort(t, payload) ==
  LET source == Head(job[t].todo) IN
  /\ Reading(t)
  /\ source \in Ports => port[source] = t
  /\ \E next \in AfterDelivery(job[t], payload) : job' = [job EXCEPT ![t] = next]
  /\ UNCHANGED <<config, port, rowLock, stored, status, requests>>

Deliver(t, payload) ==
  LET source == Head(job[t].todo) IN
  /\ Reading(t)
  /\ source \in Ports => port[source] = t
  /\ \E next \in AfterDelivery(job[t], payload) : job' = [job EXCEPT ![t] = next]
  /\ port' = [p \in Ports |-> IF port[p] = t THEN Nobody ELSE port[p]]
  /\ UNCHANGED <<config, rowLock, stored, status, requests>>

ReadSource(t) ==
  \E payload \in {"frames", "fixes"} :
    /\ Reading(t) /\ Head(job[t].todo) = "caster" => payload = "frames"
    /\ Deliver(t, payload)
    /\ UNCHANGED faults

\* Serial bytes are decoded later; a caster's are decoded while reading.
ReadGarbage(t) ==
  /\ faults < FaultLimit
  /\ faults' = faults + 1
  /\ Reading(t) /\ Head(job[t].todo) \in Ports
  /\ Deliver(t, "garbage")

\* The source is silent, unreadable or refuses; without corrections the
\* capture goes on.
ReadFails(t) ==
  /\ Reading(t)
  /\ faults < FaultLimit
  /\ faults' = faults + 1
  /\ IF IsCorrection(job[t].kind, Head(job[t].todo))
     THEN /\ \E next \in AfterSource(job[t], job[t].got, FALSE) : job' = [job EXCEPT ![t] = next]
          /\ UNCHANGED <<port, rowLock>>
     ELSE Fails(t)
  /\ UNCHANGED <<config, stored, status, requests>>

(***************************************************************************)
(* Writing.                                                                *)
(***************************************************************************)
\* ensure_device_id: only a payload with a position registers its device.
\* A caster is no device of the registry.
NamesDevice(item) == item.payload \in {"fixes", "solution"} /\ item.device \in Ports

\* As if what cannot be decoded were skipped.
WriteSkipping(t) ==
  LET item == Head(job[t].todo) IN
  /\ job[t].step = "write" /\ job[t].todo # <<>>
  /\ NamesDevice(item) => rowLock[item.device] \in {t, Nobody}
  /\ rowLock' = IF NamesDevice(item) THEN [rowLock EXCEPT ![item.device] = t] ELSE rowLock
  /\ job' = [job EXCEPT ![t].todo = Tail(@),
                        ![t].got = IF item.payload = "garbage" THEN @ ELSE Append(@, item)]
  /\ UNCHANGED <<config, port, stored, status, requests, faults>>

Write(t) ==
  LET item == Head(job[t].todo) IN
  /\ job[t].step = "write" /\ job[t].todo # <<>>
  /\ IF item.payload = "garbage"
     THEN Fails(t)
     ELSE /\ NamesDevice(item) => rowLock[item.device] \in {t, Nobody}
          /\ rowLock' = IF NamesDevice(item) THEN [rowLock EXCEPT ![item.device] = t] ELSE rowLock
          /\ job' = [job EXCEPT ![t].todo = Tail(@), ![t].got = Append(@, item)]
          /\ UNCHANGED port
  /\ UNCHANGED <<config, stored, status, requests, faults>>

\* Two transactions waiting for each other's row: PostgreSQL ends one.
WaitsFor(t, u) ==
  /\ job[t].step = "write" /\ job[t].todo # <<>>
  /\ NamesDevice(Head(job[t].todo))
  /\ rowLock[Head(job[t].todo).device] = u

DeadlockVictim(t) ==
  /\ \E u \in Threads \ {t} : WaitsFor(t, u) /\ WaitsFor(u, t)
  /\ Fails(t)
  /\ UNCHANGED <<config, stored, status, requests, faults>>

Session(j) == [kind |-> j.kind, items |-> j.got]

\* CaptureSummary and PersistSummary: how much the session holds; a position
\* that comes with its sample is counted with it.
Summary(j) ==
  [samples   |-> Len(SelectSeq(j.got, LAMBDA item : item.payload # "solution")),
   solutions |-> Len(SelectSeq(j.got, LAMBDA item : item.payload = "solution"))]

\* As if the transaction were dropped without a commit.
CommitForgotten(t, acknowledged) ==
  /\ job[t].step = "write" /\ job[t].todo = <<>>
  /\ job' = [job EXCEPT ![t].step = "record", ![t].ok = acknowledged]
  /\ rowLock' = [d \in Ports |-> IF rowLock[d] = t THEN Nobody ELSE rowLock[d]]
  /\ UNCHANGED <<config, port, stored, status, requests>>

Commits(t, acknowledged) ==
  /\ job[t].step = "write" /\ job[t].todo = <<>>
  /\ stored' = [stored EXCEPT ![t] = Session(job[t])]
  /\ job' = [job EXCEPT ![t].step = "record", ![t].ok = acknowledged]
  /\ rowLock' = [d \in Ports |-> IF rowLock[d] = t THEN Nobody ELSE rowLock[d]]
  /\ UNCHANGED <<config, port, status, requests>>

Commit(t) == Commits(t, TRUE) /\ UNCHANGED faults

\* The connection is lost around the commit, before it or after.
CommitUnanswered(t) ==
  /\ faults < FaultLimit
  /\ faults' = faults + 1
  /\ Commits(t, FALSE)

\* The database is unreachable, a statement or the solver fails.
WriteFails(t) ==
  /\ job[t].step = "write"
  /\ faults < FaultLimit
  /\ faults' = faults + 1
  /\ Fails(t)
  /\ UNCHANGED <<config, stored, status, requests>>

(***************************************************************************)
(* Recording, after the transaction and under the state's own mutex.  A    *)
(* failed transport keeps its last summary, a failed replay drops it.      *)
(***************************************************************************)
\* As if a success left an earlier error in place.
OutcomeSticky(j, before) ==
  IF j.ok THEN [error |-> before.error, summary |-> Summary(j)]
  ELSE [error |-> TRUE, summary |-> before.summary]

Outcome(j, before) ==
  IF j.ok THEN [error |-> FALSE, summary |-> Summary(j)]
  ELSE [error   |-> TRUE,
        summary |-> IF j.kind = "replay" THEN NoSummary ELSE before.summary]

Record(t) ==
  /\ job[t].step = "record"
  /\ status' = [status EXCEPT ![job[t].kind] = Outcome(job[t], @)]
  /\ job' = [job EXCEPT ![t] = Idle]
  /\ stored' = [stored EXCEPT ![t] = NoSession]
  /\ UNCHANGED <<config, port, rowLock, requests, faults>>

-----------------------------------------------------------------------------
\* What a thread does once it has work.
Step(t) == \/ OpenPort(t) \/ ReadSource(t) \/ Write(t) \/ DeadlockVictim(t)
           \/ Commit(t) \/ Record(t)

Fault(t) == ReadGarbage(t) \/ ReadFails(t) \/ CommitUnanswered(t) \/ WriteFails(t)

Next == \/ \E t \in Threads : Step(t) \/ Fault(t)
        \/ \E t \in Loops : LoopTurn(t)
        \/ \E kind \in Kinds : Request(kind)

\* Threads are scheduled, a capture window ends by its deadline, a loop
\* sleeps a second, PostgreSQL breaks deadlocks and grants a row to those
\* waiting for it in turn (hence SF).  Nobody need send a request.
Fairness == /\ \A t \in Threads : WF_vars(Step(t))
            /\ \A t \in {"serial_loop", "http"} : SF_vars(Write(t))
            /\ \A t \in Loops : WF_vars(LoopTurn(t))

Spec == GatewayInit /\ [][Next]_vars /\ Fairness

-----------------------------------------------------------------------------
(***************************************************************************)
(* Properties.                                                             *)
(***************************************************************************)

\* The type of the state.
GatewayTypeOK ==
  /\ config \in Configurations
  /\ \A t \in Threads :
       /\ job[t].step \in {"idle", "read", "write", "record"}
       /\ job[t].kind \in Kinds /\ job[t].ok \in BOOLEAN
       /\ job[t].step = "read" => job[t].todo \in Seq(Ports \cup {"caster", "file"})
       /\ job[t].step = "write" => job[t].todo \in Seq(Items)
       /\ job[t].got \in Seq(Items)
  /\ port \in [Ports -> Threads \cup {Nobody}]
  /\ rowLock \in [Ports -> Threads \cup {Nobody}]
  /\ \A t \in Threads : stored[t] = NoSession \/ stored[t].items \in Seq(Items)
  /\ \A k \in Kinds : status[k].error \in BOOLEAN
  /\ requests \in 0..RequestLimit /\ faults \in 0..FaultLimit

\* No capture keeps one port while it waits for another or for the
\* database, and no row outlives its transaction: the port is held only by
\* the thread reading it, a row only by a thread that is writing (the drops
\* at the end of read_serial_bytes and of the transaction).
HoldsOnlyWhatItUses ==
  /\ GatewayTypeOK
  /\ \A p \in Ports : port[p] # Nobody =>
       /\ job[port[p]].step = "read"
       /\ job[port[p]].todo # <<>>
       /\ Head(job[port[p]].todo) = p
  /\ \A d \in Ports : rowLock[d] # Nobody => job[rowLock[d]].step = "write"

\* A session is visible only whole: each serial source it was configured
\* for contributed what it delivered, nothing undecodable, in one
\* transaction, whatever failed or was aborted half-way.
SessionsWhole ==
  \A t \in Threads : stored[t] # NoSession => LET s == stored[t] IN
    /\ s.items # <<>>
    /\ \A i \in DOMAIN s.items : s.items[i].payload # "garbage"
    /\ s.kind = "serial" =>
         \A source \in ToSet(Sources("serial")) \cap Ports :
           \E i \in DOMAIN s.items : s.items[i].device = source /\ s.items[i].payload # "solution"

\* The diagnostics take over a summary only from a session of that kind
\* which the database already holds: recording comes after the commit, and
\* a failed capture never brings in numbers of its own.
StatusReportsStored ==
  [][\A k \in Kinds : status'[k].summary \notin {status[k].summary, NoSummary} =>
       \E t \in Threads : /\ job[t].step = "record"
                          /\ stored[t].kind = k
                          /\ status'[k].summary = Summary([got |-> stored[t].items])]_vars

\* Once requests and faults have ended, a transport that has a loop reports
\* no error any more: what contention or an aborted transaction left in the
\* status is overwritten by the loop, not kept until a restart.
HealthConverges ==
  \A t \in Loops : <>[](Looped(t) => ~status[LoopKind(t)].error)

\* The one thread that answers requests always comes back to accept the
\* next, whichever ports and rows the loops hold.
RequestsAnswered == job["http"].step # "idle" ~> job["http"].step = "idle"

=============================================================================
