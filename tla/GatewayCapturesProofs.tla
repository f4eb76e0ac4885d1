------------------------ MODULE GatewayCapturesProofs ------------------------
(***************************************************************************)
(* Proofs about GatewayCaptures for any set of configurations, any number  *)
(* of requests and of faults.                                              *)
(*                                                                         *)
(* The invariant follows a capture from its first source to the record of  *)
(* its outcome (CaptureOK): while it reads, what it got is exactly what    *)
(* the sources behind it delivered; while it writes, what is written and   *)
(* what is left to write are together one whole session; and once it       *)
(* claims success, that session is stored.  Ports and rows are described   *)
(* from the side of their holder, as in HoldsOnlyWhatItUses.               *)
(***************************************************************************)
EXTENDS GatewayCaptures, SequenceTheorems, TLAPS

Jobs == [step : {"idle", "read", "write", "record"}, kind : Kinds,
         todo : Seq(Items) \cup Seq(Ports \cup {"caster", "file"}), got : Seq(Items),
         ok : BOOLEAN]
Sessions == [kind : Kinds \cup {"none"}, items : Seq(Items)]

\* The item a source is represented with, whatever it delivered.
Has(items, source) ==
  \E i \in DOMAIN items : items[i].device = source /\ items[i].payload # "solution"

\* Everything a capture of this kind was configured to bring.
Whole(kind, items) ==
  /\ items # <<>>
  /\ kind = "serial" => \A source \in ToSet(Sources("serial")) \cap Ports : Has(items, source)

Clean(items) == \A i \in DOMAIN items : items[i].payload # "garbage"

\* What job j of a thread can be, and what its thread has stored by then.
CaptureOK(j, s) ==
  /\ j.step = "read" =>
       \/ j.todo = Sources(j.kind) /\ j.got = <<>>
       \/ /\ Len(Sources(j.kind)) = 2 /\ j.todo = <<Sources(j.kind)[2]>>
          /\ \E payload \in Payloads : j.got = <<[device |-> "rover", payload |-> payload]>>
  /\ j.step = "read" => j.todo # <<>>
  /\ j.step = "write" => j.todo \in Seq(Items) /\ Whole(j.kind, j.got \o j.todo) /\ Clean(j.got)
  /\ j.step # "record" => s = NoSession
  /\ j.step = "record" /\ j.ok => s = Session(j)
  /\ s # NoSession => Whole(s.kind, s.items) /\ Clean(s.items)

PortsUsed ==
  \A p \in Ports : port[p] # Nobody =>
    /\ job[port[p]].step = "read"
    /\ job[port[p]].todo # <<>> /\ Head(job[port[p]].todo) = p
RowsUsed == \A d \in Ports : rowLock[d] # Nobody => job[rowLock[d]].step = "write"

GatewayStates ==
  /\ config \in Configurations
  /\ job \in [Threads -> Jobs]
  /\ port \in [Ports -> Threads \cup {Nobody}]
  /\ rowLock \in [Ports -> Threads \cup {Nobody}]
  /\ stored \in [Threads -> Sessions]
  /\ status = [k \in Kinds |-> status[k]] /\ \A k \in Kinds : status[k].error \in BOOLEAN
  /\ requests \in 0..RequestLimit /\ faults \in 0..FaultLimit

GatewayInv ==
  /\ GatewayStates
  /\ \A t \in Threads : CaptureOK(job[t], stored[t])
  /\ PortsUsed /\ RowsUsed
-----------------------------------------------------------------------------
(* What the operators on sequences do with one or two elements.            *)
LEMMA ShortSequences ==
  ASSUME NEW a, NEW b
  PROVE  /\ Len(<<a>>) = 1 /\ Head(<<a>>) = a /\ <<a>> # <<>>
         /\ Len(<<a, b>>) = 2 /\ Head(<<a, b>>) = a /\ Tail(<<a, b>>) = <<b>>
         /\ <<a, b>>[2] = b /\ <<a, b>> # <<>>
         /\ <<>> \o <<a>> = <<a>> /\ <<a>> \o <<b>> = <<a, b>>
<1>1. Len(<<a>>) = 1 /\ Head(<<a>>) = a /\ <<a>> # <<>>
  OBVIOUS
<1>2. Len(<<a, b>>) = 2 /\ Head(<<a, b>>) = a /\ <<a, b>>[2] = b /\ <<a, b>> # <<>>
  OBVIOUS
<1>3. Tail(<<a, b>>) = <<b>>
  OBVIOUS
<1>4. <<>> \o <<a>> = <<a>>
  OBVIOUS
<1>5. <<a>> \o <<b>> = <<a, b>>
  <2>1. <<a>> \in Seq({a, b}) /\ <<b>> \in Seq({a, b}) /\ <<a, b>> \in Seq({a, b})
    OBVIOUS
  <2>2. /\ <<a>> \o <<b>> \in Seq({a, b}) /\ Len(<<a>> \o <<b>>) = 2
        /\ (<<a>> \o <<b>>)[1] = a /\ (<<a>> \o <<b>>)[2] = b
    BY <2>1
  <2> DEFINE s == <<a>> \o <<b>>
  <2>3. \A i \in 1..Len(s) : s[i] = <<a, b>>[i]
    <3>1. 1..Len(s) = {1, 2}
      BY <2>2
    <3> HIDE DEF s
    <3> QED BY <2>2, <3>1 DEF s
  <2>4. Len(<<a, b>>) = Len(s) /\ s \in Seq({a, b})
    BY <2>2
  <2> HIDE DEF s
  <2>5. s = <<a, b>>
    BY <2>1, <2>3, <2>4, SeqEqual
  <2> QED BY <2>5 DEF s
<1> QED BY <1>1, <1>2, <1>3, <1>4, <1>5

(* What a gateway can be configured to read.                               *)
LEMMA SourcesForms ==
  ASSUME config \in Configurations
  PROVE  /\ Sources("serial") \in {<<"rover">>, <<"rover", "base">>, <<"rover", "caster">>}
         /\ Sources("ntrip") \in {<<>>, <<"caster">>}
         /\ Sources("replay") \in {<<>>, <<"file">>} /\ (Sources("replay") # <<>> => config.fixture # <<>>)
         /\ \A kind \in Kinds : Sources(kind) \in Seq(Ports \cup {"caster", "file"})
<1>1. config.protocol \in {"nmea", "ns_raw", "ns_raw_pair"}
  BY GatewayAssumption
<1>2. Sources("serial") \in {<<"rover">>, <<"rover", "base">>, <<"rover", "caster">>}
  BY <1>1 DEF Sources
<1>3. Sources("ntrip") \in {<<>>, <<"caster">>}
  BY DEF Sources
<1>4. Sources("replay") \in {<<>>, <<"file">>} /\ (Sources("replay") # <<>> => config.fixture # <<>>)
  <2>1. Sources("replay") = IF config.fixture = <<>> THEN <<>> ELSE <<"file">>
    BY DEF Sources
  <2> QED BY <2>1
<1>5. ASSUME NEW kind \in Kinds PROVE Sources(kind) \in Seq(Ports \cup {"caster", "file"})
  <2>1. /\ <<>> \in Seq(Ports \cup {"caster", "file"})
        /\ <<"rover">> \in Seq(Ports \cup {"caster", "file"})
        /\ <<"rover", "base">> \in Seq(Ports \cup {"caster", "file"})
        /\ <<"rover", "caster">> \in Seq(Ports \cup {"caster", "file"})
        /\ <<"caster">> \in Seq(Ports \cup {"caster", "file"})
        /\ <<"file">> \in Seq(Ports \cup {"caster", "file"})
    BY DEF Ports
  <2> QED BY <1>2, <1>3, <1>4, <2>1 DEF Kinds
<1> QED BY <1>2, <1>3, <1>4, <1>5

(* A session that is whole stays so when more is added. *)
LEMMA WholeGrows ==
  ASSUME NEW kind, NEW a \in Seq(Items), NEW b \in Seq(Items), Whole(kind, a)
  PROVE  a \o b \in Seq(Items) /\ Whole(kind, a \o b)
<1>1. a \o b \in Seq(Items) /\ Len(a \o b) = Len(a) + Len(b)
      /\ \A i \in 1..Len(a) : (a \o b)[i] = a[i]
  OBVIOUS
<1>2. DOMAIN a = 1..Len(a) /\ DOMAIN (a \o b) = 1..Len(a \o b) /\ Len(a) \in Nat /\ Len(b) \in Nat
  BY <1>1
<1>3. a # <<>> => a \o b # <<>>
  BY <1>1
<1>4. ASSUME NEW source, Has(a, source) PROVE Has(a \o b, source)
  BY <1>1, <1>2, <1>4 DEF Has
<1> QED BY <1>1, <1>3, <1>4 DEF Whole

(* A step in which one thread moves, and takes or gives back what it uses. *)
LEMMA ThreadMoves ==
  ASSUME GatewayInv, NEW t \in Threads, NEW j \in Jobs, NEW s \in Sessions,
         job' = [job EXCEPT ![t] = j], stored' = [stored EXCEPT ![t] = s], config' = config,
         CaptureOK(j, s),
         port' \in [Ports -> Threads \cup {Nobody}], rowLock' \in [Ports -> Threads \cup {Nobody}],
         \A p \in Ports :
           /\ port'[p] \in {port[p], t, Nobody}
           /\ port'[p] = t => j.step = "read" /\ j.todo # <<>> /\ Head(j.todo) = p
           /\ rowLock'[p] \in {rowLock[p], t, Nobody}
           /\ rowLock'[p] = t => j.step = "write",
         status' = [k \in Kinds |-> status'[k]], \A k \in Kinds : status'[k].error \in BOOLEAN,
         requests' \in 0..RequestLimit, faults' \in 0..FaultLimit
  PROVE  GatewayInv'
<1>1. GatewayStates'
  BY DEF GatewayInv, GatewayStates
<1>2. /\ job'[t] = j /\ stored'[t] = s
      /\ \A u \in Threads \ {t} : job'[u] = job[u] /\ stored'[u] = stored[u]
  BY DEF GatewayInv, GatewayStates
<1>3. \A u \in Threads : CaptureOK(job'[u], stored'[u])
  BY <1>2 DEF GatewayInv
<1>4. \A u \in Threads : CaptureOK(job[u], stored[u])'
  <2>1. \A kind : Sources(kind)' = Sources(kind)
    BY DEF Sources
  <2>2. \A kind, items : Whole(kind, items)' <=> Whole(kind, items)
    BY <2>1 DEF Whole
  <2> QED BY <1>3, <2>1, <2>2 DEF CaptureOK
<1>5. PortsUsed'
  BY <1>1, <1>2 DEF PortsUsed, GatewayInv, GatewayStates
<1>6. RowsUsed'
  BY <1>1, <1>2 DEF RowsUsed, GatewayInv, GatewayStates
<1> QED BY <1>1, <1>4, <1>5, <1>6 DEF GatewayInv

(* No thread has begun. *)
LEMMA InvInit == GatewayInit => GatewayInv
<1> SUFFICES ASSUME GatewayInit PROVE GatewayInv
  OBVIOUS
<1> USE DEF GatewayInit
<1>1. Idle \in Jobs /\ NoSession \in Sessions
  BY DEF Idle, Jobs, Kinds, NoSession, Sessions
<1>2. GatewayStates
  <2>1. job \in [Threads -> Jobs] /\ stored \in [Threads -> Sessions]
    BY <1>1
  <2>2. status = [k \in Kinds |-> status[k]] /\ \A k \in Kinds : status[k].error \in BOOLEAN
    OBVIOUS
  <2>3. requests \in 0..RequestLimit /\ faults \in 0..FaultLimit
    BY GatewayAssumption
  <2> QED BY <2>1, <2>2, <2>3 DEF GatewayStates
<1>3. \A t \in Threads : CaptureOK(job[t], stored[t])
  BY DEF CaptureOK, Idle
<1>4. PortsUsed /\ RowsUsed
  BY DEF PortsUsed, RowsUsed
<1> QED BY <1>2, <1>3, <1>4 DEF GatewayInv

(* An exit with an error gives everything back. *)
LEMMA FailsKeepsInv ==
  ASSUME GatewayInv, NEW t \in Threads, job[t].step \in {"read", "write"}, Fails(t),
         UNCHANGED <<config, stored, status>>,
         requests' \in 0..RequestLimit, faults' \in 0..FaultLimit
  PROVE  GatewayInv'
<1> DEFINE j == [job[t] EXCEPT !.step = "record", !.ok = FALSE]
<1>1. job \in [Threads -> Jobs] /\ stored \in [Threads -> Sessions] /\ CaptureOK(job[t], stored[t])
  BY DEF GatewayInv, GatewayStates
<1>2. j \in Jobs /\ j.step = "record" /\ ~j.ok
  BY <1>1 DEF Jobs
<1>3. job' = [job EXCEPT ![t] = j] /\ stored' = [stored EXCEPT ![t] = stored[t]]
  BY <1>1 DEF Fails
<1>4. stored[t] = NoSession /\ CaptureOK(j, stored[t])
  <2> HIDE DEF j
  <2> QED BY <1>1, <1>2 DEF CaptureOK
<1>5. port' \in [Ports -> Threads \cup {Nobody}] /\ rowLock' \in [Ports -> Threads \cup {Nobody}]
      /\ \A p \in Ports : /\ port'[p] \in {port[p], Nobody} /\ port'[p] # t
                         /\ rowLock'[p] \in {rowLock[p], Nobody} /\ rowLock'[p] # t
  BY DEF Fails, GatewayInv, GatewayStates, Nobody, Threads, Loops
<1> HIDE DEF j
<1>6. status' = [k \in Kinds |-> status'[k]] /\ \A k \in Kinds : status'[k].error \in BOOLEAN
  BY DEF GatewayInv, GatewayStates
<1> QED BY <1>1, <1>2, <1>3, <1>4, <1>5, <1>6, ThreadMoves
-----------------------------------------------------------------------------
(* A capture begins with everything left to read.                          *)
LEMMA StartKeepsInv ==
  ASSUME GatewayInv, NEW t \in Threads, NEW kind \in Kinds, Start(t, kind), requests' \in 0..RequestLimit
  PROVE  GatewayInv'
<1> DEFINE j == [Idle EXCEPT !.kind = kind, !.todo = Sources(kind),
                             !.step = IF Sources(kind) = <<>> THEN "record" ELSE "read"]
<1>1. job[t].step = "idle" /\ job' = [job EXCEPT ![t] = j]
      /\ UNCHANGED <<config, port, rowLock, stored, status, faults>>
  BY DEF Start
<1>2. stored[t] = NoSession /\ stored[t] \in Sessions /\ stored' = [stored EXCEPT ![t] = stored[t]]
  BY <1>1 DEF GatewayInv, GatewayStates, CaptureOK
<1>3. j \in Jobs
  <2>1. Sources(kind) \in Seq(Ports \cup {"caster", "file"})
    BY SourcesForms DEF GatewayInv, GatewayStates
  <2>2. Idle \in Jobs
    BY DEF Idle, Jobs, Kinds
  <2> QED BY <2>1, <2>2 DEF Jobs
<1>4. CaptureOK(j, stored[t])
  <2>1. /\ j.kind = kind /\ j.todo = Sources(kind) /\ j.got = <<>> /\ ~j.ok
        /\ j.step = IF Sources(kind) = <<>> THEN "record" ELSE "read"
    BY DEF Idle
  <2> HIDE DEF j
  <2> QED BY <1>2, <2>1 DEF CaptureOK
<1>5. \A p \in Ports : port[p] # t /\ rowLock[p] # t
  BY <1>1 DEF GatewayInv, PortsUsed, RowsUsed, Threads, Loops, Nobody
<1> HIDE DEF j
<1> QED BY <1>1, <1>2, <1>3, <1>4, <1>5, ThreadMoves DEF GatewayInv, GatewayStates

(* Behind its last source a capture has its whole session to write.        *)
LEMMA LastSource ==
  ASSUME NEW j \in Jobs, Len(j.todo) <= 1, NEW got \in Seq(Items), Whole(j.kind, got),
         NEW corrected, NEW next \in AfterSource(j, got, corrected)
  PROVE  next \in Jobs /\ next.step = "write" /\ CaptureOK(next, NoSession)
<1>1. Len(j.todo) \in Nat
  BY DEF Jobs
<1>2. PICK solved \in {<<>>, Solution} :
        next = [j EXCEPT !.step = "write", !.got = <<>>, !.todo = got \o solved]
  <2> DEFINE options == {<<>>} \cup (IF CanSolve(j.kind, got, corrected) THEN {Solution} ELSE {})
  <2>1. options \subseteq {<<>>, Solution}
    OBVIOUS
  <2>2. AfterSource(j, got, corrected) =
          {[j EXCEPT !.step = "write", !.got = <<>>, !.todo = got \o solved] : solved \in options}
    <3>1. ~(Len(j.todo) > 1)
      BY <1>1
    <3> QED BY <3>1, Zenon DEF AfterSource
  <2> HIDE DEF options
  <2> QED BY <2>1, <2>2
<1>3. solved \in Seq(Items) /\ <<>> \in Seq(Items)
  <2>1. [device |-> "rover", payload |-> "solution"] \in Items
    BY DEF Items, Ports
  <2>2. <<>> \in Seq(Items) /\ Solution \in Seq(Items)
    BY <2>1 DEF Solution
  <2> QED BY <2>2
<1>4. got \o solved \in Seq(Items) /\ Whole(j.kind, got \o solved) /\ <<>> \o (got \o solved) = got \o solved
  BY <1>3, WholeGrows
<1>5. /\ next \in Jobs /\ next.step = "write" /\ next.kind = j.kind
      /\ next.got = <<>> /\ next.todo = got \o solved
  BY <1>2, <1>3, <1>4 DEF Jobs
<1>6. Clean(<<>>)
  BY DEF Clean
<1> QED BY <1>4, <1>5, <1>6 DEF CaptureOK

(* The receivers of the configurations with serial sources.                *)
LEMMA Receivers ==
  /\ ToSet(<<"rover">>) \cap Ports = {"rover"}
  /\ ToSet(<<"rover", "caster">>) \cap Ports = {"rover"}
  /\ ToSet(<<"rover", "base">>) \cap Ports = {"rover", "base"}
<1>1. ToSet(<<"rover">>) = {"rover"} /\ ToSet(<<"rover", "caster">>) = {"rover", "caster"}
      /\ ToSet(<<"rover", "base">>) = {"rover", "base"}
  BY DEF ToSet
<1> QED BY <1>1 DEF Ports

(* What a capture is after one more of its sources.                        *)
LEMMA AfterDeliveryOK ==
  ASSUME config \in Configurations, NEW j \in Jobs, j.step = "read", CaptureOK(j, NoSession),
         NEW payload \in Payloads, NEW next \in AfterDelivery(j, payload)
  PROVE  next \in Jobs /\ next.step \in {"read", "write"} /\ CaptureOK(next, NoSession)
<1> DEFINE first(device) == [device |-> device, payload |-> payload]
<1>1. j.kind \in Kinds /\ j.todo # <<>>
  BY DEF Jobs, CaptureOK
<1>2. \A device \in Ports \cup {"caster"} : <<first(device)>> \in Seq(Items)
  BY DEF Items
<1>3. CASE j.todo = Sources(j.kind) /\ j.got = <<>> /\ Len(j.todo) = 2
  <2>0. j.kind = "serial" /\ j.todo \in {<<"rover", "base">>, <<"rover", "caster">>}
    <3>1. j.todo \notin {<<>>, <<"rover">>, <<"caster">>, <<"file">>}
      BY <1>3, ShortSequences
    <3> QED BY <1>1, <1>3, <3>1, SourcesForms DEF Kinds
  <2>1. Head(j.todo) = "rover" /\ Tail(j.todo) = <<j.todo[2]>> /\ ~IsCorrection(j.kind, "rover")
    <3>1. PICK other : j.todo = <<"rover", other>>
      BY <2>0
    <3> QED BY <3>1, ShortSequences DEF IsCorrection
  <2>2. j.got \o Delivered("rover", payload) = <<first("rover")>>
    BY <1>3, <1>2 DEF Delivered, Ports
  <2>3. next = [j EXCEPT !.todo = Tail(@), !.got = <<first("rover")>>]
    <3>1. next \in AfterSource(j, <<first("rover")>>, FALSE)
      BY <2>1, <2>2 DEF AfterDelivery
    <3> QED BY <1>3, <3>1 DEF AfterSource
  <2>4. Tail(j.todo) \in Seq(Ports \cup {"caster", "file"})
    BY <1>1, <1>3, SourcesForms
  <2>5. /\ next \in Jobs /\ next.step = "read" /\ next.kind = j.kind
        /\ next.todo = <<Sources(j.kind)[2]>> /\ next.got = <<first("rover")>>
    <3>1. <<first("rover")>> \in Seq(Items)
      BY <1>2 DEF Ports
    <3>2. next \in Jobs
      BY <2>3, <2>4, <3>1 DEF Jobs
    <3>3. next.step = "read" /\ next.kind = j.kind /\ next.todo = Tail(j.todo) /\ next.got = <<first("rover")>>
      BY <2>3 DEF Jobs
    <3> QED BY <1>3, <2>1, <3>2, <3>3
  <2>6. Len(Sources(next.kind)) = 2 /\ next.todo # <<>>
    BY <1>3, <2>5, ShortSequences
  <2> QED BY <2>5, <2>6 DEF CaptureOK
<1>4. CASE j.todo = Sources(j.kind) /\ j.got = <<>> /\ Len(j.todo) # 2
  <2> DEFINE source == Head(j.todo)
             got == Delivered(source, payload)
  <2>1. Len(j.todo) <= 1 /\ ~IsCorrection(j.kind, source)
    <3>1. j.kind = "serial" => j.todo = <<"rover">>
      BY <1>4, SourcesForms
    <3>2. j.kind # "serial" => j.todo \in {<<"caster">>, <<"file">>}
      BY <1>1, <1>4, SourcesForms DEF Kinds
    <3>3. Len(j.todo) = 1
      BY <3>1, <3>2, ShortSequences
    <3>4. source # "caster" \/ j.kind # "serial"
      BY <3>1, ShortSequences
    <3> QED BY <3>3, <3>4 DEF IsCorrection
  <2>2. got \in Seq(Items) /\ Whole(j.kind, got)
    <3>1. CASE j.kind = "serial"
      <4>1. Sources("serial") = <<"rover">> /\ source = "rover"
        BY <1>4, <3>1, SourcesForms
      <4>2. got = <<first("rover")>>
        BY <4>1 DEF Delivered
      <4>3. Has(<<first("rover")>>, "rover") /\ <<first("rover")>> \in Seq(Items)
        BY <1>2 DEF Has, Payloads, Ports
      <4> HIDE DEF first, got
      <4> QED BY <3>1, <4>1, <4>2, <4>3, Receivers DEF Whole
    <3>2. CASE j.kind = "ntrip"
      <4>1. source = "caster"
        BY <1>1, <1>4, <3>2, SourcesForms
      <4> QED BY <1>2, <3>2, <4>1 DEF Whole, Delivered
    <3>3. CASE j.kind = "replay"
      <4>1. source = "file" /\ config.fixture # <<>> /\ config.fixture \in Seq(Ports)
        BY <1>1, <1>4, <3>3, SourcesForms, GatewayAssumption DEF Ports
      <4>2. got = [i \in 1..Len(config.fixture) |-> [device |-> config.fixture[i], payload |-> "fixes"]]
        BY <4>1 DEF Delivered
      <4>3. \A i \in 1..Len(config.fixture) : [device |-> config.fixture[i], payload |-> "fixes"] \in Items
        BY <4>1 DEF Items, Payloads
      <4>4. Len(config.fixture) \in Nat \ {0}
        BY <4>1
      <4>5. got \in Seq(Items) /\ Len(got) = Len(config.fixture)
        BY <4>2, <4>3, <4>4
      <4> QED BY <3>3, <4>4, <4>5 DEF Whole
    <3> QED BY <1>1, <3>1, <3>2, <3>3 DEF Kinds
  <2>3. j.got \o got = got
    BY <1>4, <2>2
  <2>4. next \in AfterSource(j, got, FALSE)
    BY <2>1, <2>3 DEF AfterDelivery
  <2> HIDE DEF got
  <2> QED BY <2>1, <2>2, <2>4, LastSource
<1>5. ASSUME NEW before \in Payloads, j.got = <<[device |-> "rover", payload |-> before]>>,
             Len(Sources(j.kind)) = 2, j.todo = <<Sources(j.kind)[2]>>
      PROVE  next \in Jobs /\ next.step = "write" /\ CaptureOK(next, NoSession)
  <2> DEFINE rover == [device |-> "rover", payload |-> before]
  <2>1. j.kind = "serial" /\ Sources("serial") \in {<<"rover", "base">>, <<"rover", "caster">>}
    BY <1>1, <1>5, SourcesForms DEF Kinds
  <2>2. rover \in Items /\ first("base") \in Items
    BY DEF Items, Ports
  <2>3. CASE Sources("serial") = <<"rover", "base">>
    <3>1. Head(j.todo) = "base" /\ Len(j.todo) <= 1
      BY <1>5, <2>1, <2>3
    <3>2. j.got \o Delivered("base", payload) = <<rover, first("base")>>
      <4>1. Delivered("base", payload) = <<first("base")>>
        BY DEF Delivered
      <4>2. j.got \o Delivered("base", payload) = <<rover>> \o <<first("base")>>
        BY <1>5, <4>1
      <4> HIDE DEF rover, first
      <4> QED BY <4>2, ShortSequences
    <3>3. next \in AfterSource(j, <<rover, first("base")>>, FALSE)
      BY <3>1, <3>2 DEF AfterDelivery, IsCorrection
    <3>4. <<rover, first("base")>> \in Seq(Items) /\ Whole(j.kind, <<rover, first("base")>>)
      BY <2>1, <2>2, <2>3, Receivers DEF Whole, Has, Payloads
    <3> QED BY <3>1, <3>3, <3>4, LastSource
  <2>4. CASE Sources("serial") = <<"rover", "caster">>
    <3>1. Head(j.todo) = "caster" /\ Len(j.todo) <= 1
      BY <1>5, <2>1, <2>4
    <3>2. next \in AfterSource(j, <<rover>>, TRUE)
      BY <1>5, <2>1, <3>1 DEF AfterDelivery, IsCorrection
    <3>3. <<rover>> \in Seq(Items) /\ Whole(j.kind, <<rover>>)
      BY <2>1, <2>2, <2>4, Receivers DEF Whole, Has, Payloads
    <3> QED BY <3>1, <3>2, <3>3, LastSource
  <2> QED BY <2>1, <2>3, <2>4
<1> QED BY <1>3, <1>4, <1>5 DEF CaptureOK
-----------------------------------------------------------------------------
(* The steps of a capture.                                                 *)

\* A port is opened by the thread that is about to read it, or not at all.
LEMMA OpenPortKeepsInv ==
  ASSUME GatewayInv, NEW t \in Threads, OpenPort(t)
  PROVE  GatewayInv'
<1> DEFINE source == Head(job[t].todo)
<1>1. /\ job[t].step = "read" /\ job[t] \in Jobs /\ stored[t] \in Sessions
      /\ job \in [Threads -> Jobs] /\ stored \in [Threads -> Sessions]
      /\ CaptureOK(job[t], stored[t]) /\ job[t].todo # <<>>
      /\ UNCHANGED <<config, stored, status, requests, faults>> /\ source \in Ports
  BY DEF OpenPort, Reading, GatewayInv, GatewayStates, CaptureOK
<1>2. CASE Fails(t)
  BY <1>1, <1>2, FailsKeepsInv DEF GatewayInv, GatewayStates
<1>3. CASE port' = [port EXCEPT ![source] = t] /\ UNCHANGED <<job, rowLock>>
  <2>1. job' = [job EXCEPT ![t] = job[t]] /\ stored' = [stored EXCEPT ![t] = stored[t]]
    BY <1>1, <1>3
  <2>2. \A p \in Ports :
          /\ port'[p] \in {port[p], t, Nobody}
          /\ port'[p] = t => job[t].step = "read" /\ job[t].todo # <<>> /\ Head(job[t].todo) = p
          /\ rowLock'[p] \in {rowLock[p], t, Nobody}
          /\ rowLock'[p] = t => job[t].step = "write"
    BY <1>1, <1>3 DEF GatewayInv, GatewayStates, PortsUsed, RowsUsed, Threads, Loops, Nobody
  <2>3. port' \in [Ports -> Threads \cup {Nobody}] /\ rowLock' \in [Ports -> Threads \cup {Nobody}]
    BY <1>3 DEF GatewayInv, GatewayStates
  <2>4. /\ status' = [k \in Kinds |-> status'[k]] /\ \A k \in Kinds : status'[k].error \in BOOLEAN
        /\ requests' \in 0..RequestLimit /\ faults' \in 0..FaultLimit /\ config' = config
    BY <1>1 DEF GatewayInv, GatewayStates
  <2>5. job[t] \in Jobs /\ stored[t] \in Sessions /\ CaptureOK(job[t], stored[t])
    BY <1>1
  <2> QED BY <2>1, <2>2, <2>3, <2>4, <2>5, ThreadMoves
<1> QED BY <1>2, <1>3 DEF OpenPort

\* A source is read: its port is closed, what it delivered is kept.
LEMMA DeliverKeepsInv ==
  ASSUME GatewayInv, NEW t \in Threads, NEW payload \in Payloads, Deliver(t, payload),
         faults' \in 0..FaultLimit
  PROVE  GatewayInv'
<1>1. /\ job[t].step = "read" /\ job[t] \in Jobs /\ stored[t] = NoSession /\ NoSession \in Sessions
      /\ job \in [Threads -> Jobs] /\ stored \in [Threads -> Sessions]
      /\ CaptureOK(job[t], NoSession) /\ config \in Configurations
      /\ UNCHANGED <<config, rowLock, stored, status, requests>>
  BY DEF Deliver, Reading, GatewayInv, GatewayStates, CaptureOK
<1>2. PICK next \in AfterDelivery(job[t], payload) : job' = [job EXCEPT ![t] = next]
  BY DEF Deliver
<1>3. next \in Jobs /\ CaptureOK(next, NoSession)
  BY <1>1, AfterDeliveryOK
<1>4. stored' = [stored EXCEPT ![t] = NoSession]
  BY <1>1
<1>5. \A p \in Ports : /\ port'[p] \in {port[p], Nobody} /\ port'[p] # t
                     /\ rowLock'[p] = rowLock[p] /\ rowLock[p] # t
  BY <1>1 DEF Deliver, GatewayInv, GatewayStates, RowsUsed, Threads, Loops, Nobody
<1>6. port' \in [Ports -> Threads \cup {Nobody}] /\ rowLock' \in [Ports -> Threads \cup {Nobody}]
  BY <1>1 DEF Deliver, GatewayInv, GatewayStates
<1>7. /\ status' = [k \in Kinds |-> status'[k]] /\ \A k \in Kinds : status'[k].error \in BOOLEAN
      /\ requests' \in 0..RequestLimit /\ config' = config
  BY <1>1 DEF GatewayInv, GatewayStates
<1> QED BY <1>1, <1>2, <1>3, <1>4, <1>5, <1>6, <1>7, ThreadMoves

\* Without corrections the capture has the whole of its session.
LEMMA ReadFailsKeepsInv ==
  ASSUME GatewayInv, NEW t \in Threads, ReadFails(t)
  PROVE  GatewayInv'
<1>1. /\ job[t].step = "read" /\ job[t] \in Jobs /\ stored[t] = NoSession /\ NoSession \in Sessions
      /\ job \in [Threads -> Jobs] /\ stored \in [Threads -> Sessions]
      /\ CaptureOK(job[t], NoSession) /\ config \in Configurations
      /\ UNCHANGED <<config, stored, status, requests>>
  BY DEF ReadFails, Reading, GatewayInv, GatewayStates, CaptureOK
<1>2. faults' \in 0..FaultLimit /\ requests' \in 0..RequestLimit
  BY <1>1, GatewayAssumption DEF ReadFails, GatewayInv, GatewayStates
<1>3. CASE Fails(t)
  BY <1>1, <1>2, <1>3, FailsKeepsInv
<1>4. ASSUME IsCorrection(job[t].kind, Head(job[t].todo)), UNCHANGED <<port, rowLock>>,
             NEW next \in AfterSource(job[t], job[t].got, FALSE), job' = [job EXCEPT ![t] = next]
      PROVE  GatewayInv'
  <2> DEFINE j == job[t]
  <2>1. j.kind = "serial" /\ Head(j.todo) = "caster"
    BY <1>4 DEF IsCorrection
  <2>2. j.todo # Sources(j.kind)
    <3>1. j.todo # <<"rover">> /\ \A other : j.todo # <<"rover", other>>
      BY <2>1, ShortSequences
    <3> QED BY <1>1, <2>1, <3>1, SourcesForms
  <2>3. /\ Len(Sources("serial")) = 2 /\ j.todo = <<Sources("serial")[2]>>
        /\ \E payload \in Payloads : j.got = <<[device |-> "rover", payload |-> payload]>>
    BY <1>1, <2>1, <2>2 DEF CaptureOK
  <2>4. Sources("serial") = <<"rover", "caster">>
    <3>1. \A s : Sources("serial") = <<"rover", s>> => s = "caster"
      BY <2>1, <2>3, ShortSequences
    <3>2. Sources("serial") # <<"rover">>
      BY <2>3, ShortSequences
    <3> QED BY <1>1, <3>1, <3>2, SourcesForms
  <2>5. j.got \in Seq(Items) /\ Whole(j.kind, j.got) /\ Len(j.todo) <= 1
    <3>1. PICK payload \in Payloads : j.got = <<[device |-> "rover", payload |-> payload]>>
      BY <2>3
    <3>2. Has(j.got, "rover") /\ j.got # <<>>
      BY <3>1 DEF Has, Payloads
    <3>3. Whole(j.kind, j.got)
      BY <2>1, <2>4, <3>2, Receivers DEF Whole
    <3>4. Len(j.todo) = 1
      BY <2>3, ShortSequences
    <3> QED BY <1>1, <3>3, <3>4 DEF Jobs
  <2>6. next \in Jobs /\ CaptureOK(next, NoSession)
    BY <1>1, <1>4, <2>5, LastSource
  <2>7. \A p \in Ports : /\ port'[p] = port[p] /\ port[p] # t
                       /\ rowLock'[p] = rowLock[p] /\ rowLock[p] # t
    BY <1>1, <1>4, <2>1
       DEF GatewayInv, GatewayStates, PortsUsed, RowsUsed, Threads, Loops, Nobody, Ports
  <2>8. port' \in [Ports -> Threads \cup {Nobody}] /\ rowLock' \in [Ports -> Threads \cup {Nobody}]
    BY <1>4 DEF GatewayInv, GatewayStates
  <2>9. /\ status' = [k \in Kinds |-> status'[k]] /\ \A k \in Kinds : status'[k].error \in BOOLEAN
        /\ stored' = [stored EXCEPT ![t] = NoSession] /\ config' = config
    BY <1>1 DEF GatewayInv, GatewayStates
  <2> QED BY <1>1, <1>2, <1>4, <2>6, <2>7, <2>8, <2>9, ThreadMoves
<1> QED BY <1>3, <1>4 DEF ReadFails

\* Taking the head of one sequence to the end of another leaves their whole.
LEMMA MoveHead ==
  ASSUME NEW a \in Seq(Items), NEW b \in Seq(Items), b # <<>>
  PROVE  Append(a, Head(b)) \o Tail(b) = a \o b
<1>1. Head(b) \in Items /\ Tail(b) \in Seq(Items)
  OBVIOUS
<1>2. Append(a, Head(b)) = a \o <<Head(b)>>
  BY <1>1, AppendIsConcat
<1>3. <<Head(b)>> \in Seq(Items)
  BY <1>1
<1>4. <<Head(b)>> \o Tail(b) = b
  BY <1>1, ConcatSimplifications, HeadTailProperties
<1>5. (a \o <<Head(b)>>) \o Tail(b) = a \o (<<Head(b)>> \o Tail(b))
  BY <1>1, <1>3, ConcatAssociative
<1> QED BY <1>2, <1>4, <1>5

\* What is written and what is left stay one session; an undecodable item ends it.
LEMMA WriteKeepsInv ==
  ASSUME GatewayInv, NEW t \in Threads, Write(t)
  PROVE  GatewayInv'
<1> DEFINE item == Head(job[t].todo)
           next == [job[t] EXCEPT !.todo = Tail(@), !.got = Append(@, item)]
<1>1. /\ job[t].step = "write" /\ job[t] \in Jobs /\ stored[t] = NoSession /\ NoSession \in Sessions
      /\ job \in [Threads -> Jobs] /\ stored \in [Threads -> Sessions]
      /\ job[t].todo \in Seq(Items) /\ job[t].todo # <<>> /\ job[t].got \in Seq(Items)
      /\ Whole(job[t].kind, job[t].got \o job[t].todo) /\ Clean(job[t].got)
      /\ UNCHANGED <<config, stored, status, requests, faults>>
  BY DEF Write, GatewayInv, GatewayStates, CaptureOK, Jobs
<1>2. CASE Fails(t)
  BY <1>1, <1>2, FailsKeepsInv DEF GatewayInv, GatewayStates
<1>3. ASSUME item.payload # "garbage", job' = [job EXCEPT ![t] = next], UNCHANGED port,
             NamesDevice(item) => rowLock[item.device] \in {t, Nobody},
             rowLock' = IF NamesDevice(item) THEN [rowLock EXCEPT ![item.device] = t] ELSE rowLock
      PROVE  GatewayInv'
  <2>1. item \in Items /\ Tail(job[t].todo) \in Seq(Items) /\ Append(job[t].got, item) \in Seq(Items)
    BY <1>1
  <2>2. Append(job[t].got, item) \o Tail(job[t].todo) = job[t].got \o job[t].todo
    BY <1>1, MoveHead
  <2>3. Clean(Append(job[t].got, item))
    BY <1>1, <1>3, <2>1 DEF Clean
  <2>4. /\ next \in Jobs /\ next.step = "write" /\ next.kind = job[t].kind
        /\ next.got = Append(job[t].got, item) /\ next.todo = Tail(job[t].todo)
    BY <1>1, <2>1 DEF Jobs
  <2>5. CaptureOK(next, NoSession)
    <3> HIDE DEF next, item
    <3> QED BY <1>1, <2>1, <2>2, <2>3, <2>4 DEF CaptureOK
  <2>6. \A p \in Ports : /\ port'[p] = port[p] /\ port[p] # t
                       /\ rowLock'[p] \in {rowLock[p], t, Nobody}
    BY <1>1, <1>3 DEF GatewayInv, GatewayStates, PortsUsed, Threads, Loops, Nobody
  <2>7. port' \in [Ports -> Threads \cup {Nobody}] /\ rowLock' \in [Ports -> Threads \cup {Nobody}]
    BY <1>3 DEF GatewayInv, GatewayStates
  <2>8. /\ status' = [k \in Kinds |-> status'[k]] /\ \A k \in Kinds : status'[k].error \in BOOLEAN
        /\ requests' \in 0..RequestLimit /\ faults' \in 0..FaultLimit
        /\ stored' = [stored EXCEPT ![t] = NoSession] /\ config' = config
    BY <1>1 DEF GatewayInv, GatewayStates
  <2> HIDE DEF next, item
  <2>9. next \in Jobs /\ next.step = "write" /\ NoSession \in Sessions /\ job' = [job EXCEPT ![t] = next]
    BY <1>1, <1>3, <2>4
  <2>10. \A p \in Ports :
           /\ port'[p] \in {port[p], t, Nobody}
           /\ port'[p] = t => next.step = "read" /\ next.todo # <<>> /\ Head(next.todo) = p
           /\ rowLock'[p] \in {rowLock[p], t, Nobody}
           /\ rowLock'[p] = t => next.step = "write"
    BY <2>6, <2>9
  <2> QED BY <2>5, <2>7, <2>8, <2>9, <2>10, ThreadMoves
<1>4. \/ Fails(t)
      \/ /\ item.payload # "garbage" /\ job' = [job EXCEPT ![t] = next] /\ UNCHANGED port
         /\ NamesDevice(item) => rowLock[item.device] \in {t, Nobody}
         /\ rowLock' = IF NamesDevice(item) THEN [rowLock EXCEPT ![item.device] = t] ELSE rowLock
  BY DEF Write
<1> QED BY <1>2, <1>3, <1>4
\* What is committed is the whole of it.
LEMMA CommitKeepsInv ==
  ASSUME GatewayInv, NEW t \in Threads, NEW acknowledged \in BOOLEAN, Commits(t, acknowledged),
         faults' \in 0..FaultLimit
  PROVE  GatewayInv'
<1> DEFINE next == [job[t] EXCEPT !.step = "record", !.ok = acknowledged]
           session == Session(job[t])
<1>1. /\ job[t].step = "write" /\ job[t] \in Jobs /\ job[t].todo = <<>>
      /\ job[t].got \in Seq(Items) /\ job[t].kind \in Kinds
      /\ Whole(job[t].kind, job[t].got \o job[t].todo) /\ Clean(job[t].got)
      /\ UNCHANGED <<config, port, status, requests>>
  BY DEF Commits, GatewayInv, GatewayStates, CaptureOK, Jobs
<1>2. job[t].got \o <<>> = job[t].got
  BY <1>1, ConcatEmptySeq
<1>3. session \in Sessions /\ session.kind = job[t].kind /\ session.items = job[t].got
  BY <1>1 DEF Session, Sessions
<1>4. /\ next \in Jobs /\ next.step = "record" /\ next.kind = job[t].kind /\ next.got = job[t].got
      /\ job' = [job EXCEPT ![t] = next] /\ stored' = [stored EXCEPT ![t] = session]
  BY <1>1 DEF Jobs, Commits
<1>5. session = Session(next)
  BY <1>4 DEF Session
<1>6. CaptureOK(next, session)
  <2> HIDE DEF next, session
  <2> QED BY <1>1, <1>2, <1>3, <1>4, <1>5 DEF CaptureOK
<1>7. /\ port' \in [Ports -> Threads \cup {Nobody}] /\ rowLock' \in [Ports -> Threads \cup {Nobody}]
      /\ \A p \in Ports :
           /\ port'[p] \in {port[p], t, Nobody}
           /\ port'[p] = t => next.step = "read" /\ next.todo # <<>> /\ Head(next.todo) = p
           /\ rowLock'[p] \in {rowLock[p], t, Nobody}
           /\ rowLock'[p] = t => next.step = "write"
  <2> HIDE DEF next
  <2> QED BY <1>1 DEF Commits, GatewayInv, GatewayStates, PortsUsed, Threads, Loops, Nobody
<1>8. /\ status' = [k \in Kinds |-> status'[k]] /\ \A k \in Kinds : status'[k].error \in BOOLEAN
      /\ requests' \in 0..RequestLimit /\ config' = config
  BY <1>1 DEF GatewayInv, GatewayStates
<1> HIDE DEF next, session
<1> QED BY <1>3, <1>4, <1>6, <1>7, <1>8, ThreadMoves

\* The outcome is recorded and the capture is over.
LEMMA RecordKeepsInv ==
  ASSUME GatewayInv, NEW t \in Threads, Record(t)
  PROVE  GatewayInv'
<1>1. /\ job[t].step = "record" /\ job[t] \in Jobs /\ Idle \in Jobs /\ NoSession \in Sessions
      /\ UNCHANGED <<config, port, rowLock, requests, faults>>
  BY DEF Record, GatewayInv, GatewayStates, Jobs, Kinds, Idle, NoSession, Sessions
<1>2. CaptureOK(Idle, NoSession)
  BY DEF CaptureOK, Idle
<1>3. job' = [job EXCEPT ![t] = Idle] /\ stored' = [stored EXCEPT ![t] = NoSession]
  BY DEF Record
<1>4. \A p \in Ports : /\ port'[p] = port[p] /\ port[p] # t
                     /\ rowLock'[p] = rowLock[p] /\ rowLock[p] # t
  BY <1>1 DEF GatewayInv, PortsUsed, RowsUsed, Threads, Loops, Nobody
<1>5. status' = [k \in Kinds |-> status'[k]] /\ \A k \in Kinds : status'[k].error \in BOOLEAN
  <2>1. job[t].kind \in Kinds
    BY <1>1 DEF Jobs
  <2>2. Outcome(job[t], status[job[t].kind]).error \in BOOLEAN
    BY DEF Outcome
  <2>3. status' = [status EXCEPT ![job[t].kind] = Outcome(job[t], status[job[t].kind])]
    BY DEF Record
  <2> QED BY <2>1, <2>2, <2>3 DEF GatewayInv, GatewayStates
<1>6. /\ port' \in [Ports -> Threads \cup {Nobody}] /\ rowLock' \in [Ports -> Threads \cup {Nobody}]
      /\ requests' \in 0..RequestLimit /\ faults' \in 0..FaultLimit /\ config' = config
  BY <1>1 DEF GatewayInv, GatewayStates
<1> QED BY <1>1, <1>2, <1>3, <1>4, <1>5, <1>6, ThreadMoves

-----------------------------------------------------------------------------
(* Each step of the gateway keeps the invariant.                           *)
LEMMA InvStep == GatewayInv /\ [Next]_vars => GatewayInv'
<1> SUFFICES ASSUME GatewayInv, [Next]_vars PROVE GatewayInv'
  OBVIOUS
<1>1. /\ requests \in 0..RequestLimit /\ faults \in 0..FaultLimit
      /\ faults < FaultLimit => faults + 1 \in 0..FaultLimit
      /\ requests < RequestLimit => requests + 1 \in 0..RequestLimit
  BY GatewayAssumption DEF GatewayInv, GatewayStates
<1>2. ASSUME NEW t \in Threads, Step(t) PROVE GatewayInv'
  <2>1. CASE OpenPort(t) BY <2>1, OpenPortKeepsInv
  <2>2. CASE ReadSource(t)
    <3>1. PICK payload \in {"frames", "fixes"} : Deliver(t, payload) /\ UNCHANGED faults
      BY <2>2 DEF ReadSource
    <3> QED BY <1>1, <3>1, DeliverKeepsInv DEF Payloads
  <2>3. CASE Write(t) BY <2>3, WriteKeepsInv
  <2>4. CASE DeadlockVictim(t)
    BY <1>1, <2>4, FailsKeepsInv DEF DeadlockVictim, WaitsFor
  <2>5. CASE Commit(t)
    BY <1>1, <2>5, CommitKeepsInv DEF Commit
  <2>6. CASE Record(t) BY <2>6, RecordKeepsInv
  <2> QED BY <1>2, <2>1, <2>2, <2>3, <2>4, <2>5, <2>6 DEF Step
<1>3. ASSUME NEW t \in Threads, Fault(t) PROVE GatewayInv'
  <2>1. CASE ReadGarbage(t)
    BY <1>1, <2>1, DeliverKeepsInv DEF ReadGarbage, Payloads
  <2>2. CASE ReadFails(t) BY <2>2, ReadFailsKeepsInv
  <2>3. CASE CommitUnanswered(t)
    BY <1>1, <2>3, CommitKeepsInv DEF CommitUnanswered
  <2>4. CASE WriteFails(t)
    BY <1>1, <2>4, FailsKeepsInv DEF WriteFails
  <2> QED BY <1>3, <2>1, <2>2, <2>3, <2>4 DEF Fault
<1>4. ASSUME NEW t \in Loops, LoopTurn(t) PROVE GatewayInv'
  <2>1. t \in Threads /\ LoopKind(t) \in Kinds
    BY DEF Threads, LoopKind, Kinds
  <2> QED BY <1>1, <1>4, <2>1, StartKeepsInv DEF LoopTurn
<1>5. ASSUME NEW kind \in Kinds, Request(kind) PROVE GatewayInv'
  <2>1. "http" \in Threads
    BY DEF Threads
  <2> QED BY <1>1, <1>5, <2>1, StartKeepsInv DEF Request
<1>6. CASE UNCHANGED vars
  <2>1. UNCHANGED <<config, job, port, rowLock, stored, status, requests, faults>>
    BY <1>6 DEF vars
  <2>2. \A kind : Sources(kind)' = Sources(kind)
    BY <2>1 DEF Sources
  <2>3. \A kind, items : Whole(kind, items)' <=> Whole(kind, items)
    BY <2>2 DEF Whole
  <2>4. \A t \in Threads : CaptureOK(job[t], stored[t])'
    BY <2>1, <2>2, <2>3 DEF GatewayInv, CaptureOK
  <2> QED BY <2>1, <2>4 DEF GatewayInv, GatewayStates, PortsUsed, RowsUsed
<1> QED BY <1>2, <1>3, <1>4, <1>5, <1>6 DEF Next

(* Every state of every gateway: a capture has what it read, what it wrote *)
(* and what it stored in step.                                             *)
THEOREM GatewayInvHolds == Spec => []GatewayInv
  BY InvInit, InvStep, PTL DEF Spec

(* No capture keeps a port, or a row of the registry, that it does not     *)
(* need for what it is doing.                                              *)
THEOREM HoldsOnlyWhatItUsesHolds == Spec => []HoldsOnlyWhatItUses
<1>1. GatewayInv => HoldsOnlyWhatItUses
  <2> SUFFICES ASSUME GatewayInv PROVE HoldsOnlyWhatItUses
    OBVIOUS
  <2>1. ASSUME NEW t \in Threads
        PROVE  /\ job[t].step \in {"idle", "read", "write", "record"}
               /\ job[t].kind \in Kinds /\ job[t].ok \in BOOLEAN
               /\ job[t].step = "read" => job[t].todo \in Seq(Ports \cup {"caster", "file"})
               /\ job[t].step = "write" => job[t].todo \in Seq(Items)
               /\ job[t].got \in Seq(Items)
               /\ stored[t] = NoSession \/ stored[t].items \in Seq(Items)
    <3>1. job[t] \in Jobs /\ stored[t] \in Sessions /\ CaptureOK(job[t], stored[t]) /\ config \in Configurations
      BY DEF GatewayInv, GatewayStates
    <3>2. /\ job[t].step \in {"idle", "read", "write", "record"}
          /\ job[t].kind \in Kinds /\ job[t].ok \in BOOLEAN /\ job[t].got \in Seq(Items)
          /\ stored[t].items \in Seq(Items)
      BY <3>1 DEF Jobs, Sessions
    <3>3. job[t].step = "write" => job[t].todo \in Seq(Items)
      BY <3>1 DEF CaptureOK
    <3>4. Sources(job[t].kind) \in Seq(Ports \cup {"caster", "file"})
      BY <3>1, <3>2, SourcesForms
    <3>5. Len(Sources(job[t].kind)) = 2 => Sources(job[t].kind)[2] \in Ports \cup {"caster", "file"}
      BY <3>4
    <3>6. job[t].step = "read" => job[t].todo \in Seq(Ports \cup {"caster", "file"})
      BY <3>1, <3>4, <3>5 DEF CaptureOK
    <3> QED BY <3>2, <3>3, <3>6
  <2>2. GatewayTypeOK
    BY <2>1 DEF GatewayTypeOK, GatewayInv, GatewayStates
  <2> QED BY <2>2 DEF HoldsOnlyWhatItUses, GatewayInv, PortsUsed, RowsUsed
<1> QED BY <1>1, GatewayInvHolds, PTL

(* Whatever fails half-way, a session in the database is the whole of it.  *)
THEOREM SessionsWholeHolds == Spec => []SessionsWhole
<1>1. GatewayInv => SessionsWhole
  BY DEF GatewayInv, CaptureOK, Whole, Has, Clean, SessionsWhole
<1> QED BY <1>1, GatewayInvHolds, PTL

(* The diagnostics report only what the database holds.                    *)
THEOREM StatusReportsStoredHolds == Spec => StatusReportsStored
<1> DEFINE P == \A k \in Kinds : status'[k].summary \notin {status[k].summary, NoSummary} =>
                  \E t \in Threads : /\ job[t].step = "record"
                                     /\ stored[t].kind = k
                                     /\ status'[k].summary = Summary([got |-> stored[t].items])
<1>1. GatewayInv /\ [Next]_vars => [P]_vars
  <2> SUFFICES ASSUME GatewayInv, Next, NEW k \in Kinds,
                      status'[k].summary \notin {status[k].summary, NoSummary}
               PROVE  \E t \in Threads : /\ job[t].step = "record"
                                         /\ stored[t].kind = k
                                         /\ status'[k].summary = Summary([got |-> stored[t].items])
    OBVIOUS
  <2>1. PICK t \in Threads : Record(t)
    BY DEF Next, Step, Fault, LoopTurn, Request, Start, OpenPort, ReadSource, ReadGarbage, Deliver,
           ReadFails, Write, DeadlockVictim, Commit, CommitUnanswered, Commits, WriteFails
  <2>2. /\ job[t].step = "record" /\ status' = [status EXCEPT ![job[t].kind] = Outcome(job[t], @)]
        /\ CaptureOK(job[t], stored[t])
    BY <2>1 DEF Record, GatewayInv
  <2>3. job[t].kind = k /\ status'[k] = Outcome(job[t], status[k])
    BY <2>2 DEF GatewayInv, GatewayStates
  <2>4. job[t].ok /\ status'[k].summary = Summary(job[t])
    BY <2>3 DEF Outcome
  <2>5. stored[t].kind = k /\ stored[t].items = job[t].got
    BY <2>2, <2>3, <2>4 DEF CaptureOK, Session
  <2> QED BY <2>2, <2>4, <2>5 DEF Summary
<1> QED BY <1>1, GatewayInvHolds, PTL DEF Spec, StatusReportsStored
=============================================================================
