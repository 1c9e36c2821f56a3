-------------------------- MODULE HttpProxyProofs --------------------------
(***************************************************************************)
(* Proofs about HttpProxy, for any configurations that load, any requests  *)
(* and any number of reloads and retries; and, in the last part, about     *)
(* ConfigReload, the watcher that has it reloaded.                         *)
(***************************************************************************)
EXTENDS HttpProxy, ConfigReload, FiniteSetTheorems, SequenceTheorems, NaturalsInduction,
        WellFoundedInduction, TLAPS

----------------------------------------------------------------------------
(* Requests.                                                               *)

\* A request has the fields of NoRequest.
IsRequest(x) ==
    x = [pc |-> x.pc, ask |-> x.ask, match |-> x.match, timed |-> x.timed,
         peer |-> x.peer, sent |-> x.sent, status |-> x.status]

\* There is one for every slot.
Shape ==
    /\ req = [r \in Requests |-> req[r]]
    /\ \A r \in Requests : IsRequest(req[r])

\* g is f with y for r.
Updates(f, g, r, y) ==
    /\ g = [x \in Requests |-> g[x]]
    /\ g[r] = y
    /\ \A x \in Requests : x # r => g[x] = f[x]

\* What the steps of a request write: its place in the program alone,
LEMMA SetPlace ==
    ASSUME NEW f, f = [x \in Requests |-> f[x]], NEW r \in Requests, IsRequest(f[r]), NEW p
    PROVE  Updates(f, [f EXCEPT ![r].pc = p], r,
             [pc |-> p, ask |-> f[r].ask, match |-> f[r].match, timed |-> f[r].timed,
              peer |-> f[r].peer, sent |-> f[r].sent, status |-> f[r].status])
  BY DEF Updates, IsRequest

\* Its place and the answer's status.
LEMMA SetStatus ==
    ASSUME NEW f, f = [x \in Requests |-> f[x]], NEW r \in Requests, IsRequest(f[r]), NEW p, NEW u
    PROVE  Updates(f, [f EXCEPT ![r].pc = p, ![r].status = u], r,
             [pc |-> p, ask |-> f[r].ask, match |-> f[r].match, timed |-> f[r].timed,
              peer |-> f[r].peer, sent |-> f[r].sent, status |-> u])
  BY DEF Updates, IsRequest

\* Its place and the path sent.
LEMMA SetSent ==
    ASSUME NEW f, f = [x \in Requests |-> f[x]], NEW r \in Requests, IsRequest(f[r]), NEW p, NEW u
    PROVE  Updates(f, [f EXCEPT ![r].pc = p, ![r].sent = u], r,
             [pc |-> p, ask |-> f[r].ask, match |-> f[r].match, timed |-> f[r].timed,
              peer |-> f[r].peer, sent |-> u, status |-> f[r].status])
  BY DEF Updates, IsRequest

\* Its place, what it asked for and the answer's status.
LEMMA SetAnswer ==
    ASSUME NEW f, f = [x \in Requests |-> f[x]], NEW r \in Requests, IsRequest(f[r]), NEW p, NEW u, NEW v
    PROVE  Updates(f, [f EXCEPT ![r].pc = p, ![r].ask = u, ![r].status = v], r,
             [pc |-> p, ask |-> u, match |-> f[r].match, timed |-> f[r].timed, peer |-> f[r].peer,
              sent |-> f[r].sent, status |-> v])
  BY DEF Updates, IsRequest

\* Its place, what it asked for and the route that matched.
LEMMA SetMatch ==
    ASSUME NEW f, f = [x \in Requests |-> f[x]], NEW r \in Requests, IsRequest(f[r]), NEW p, NEW u, NEW v
    PROVE  Updates(f, [f EXCEPT ![r].pc = p, ![r].ask = u, ![r].match = v], r,
             [pc |-> p, ask |-> u, match |-> v, timed |-> f[r].timed, peer |-> f[r].peer,
              sent |-> f[r].sent, status |-> f[r].status])
  BY DEF Updates, IsRequest

\* Its place, the connection's timer and the backend.
LEMMA SetPeer ==
    ASSUME NEW f, f = [x \in Requests |-> f[x]], NEW r \in Requests, IsRequest(f[r]), NEW p, NEW u, NEW v
    PROVE  Updates(f, [f EXCEPT ![r].pc = p, ![r].timed = u, ![r].peer = v], r,
             [pc |-> p, ask |-> f[r].ask, match |-> f[r].match, timed |-> u, peer |-> v,
              sent |-> f[r].sent, status |-> f[r].status])
  BY DEF Updates, IsRequest

\* A request replaced as a whole.
LEMMA SetAll ==
    ASSUME NEW f, f = [x \in Requests |-> f[x]], NEW r \in Requests, NEW u
    PROVE  Updates(f, [f EXCEPT ![r] = u], r, u)
  BY DEF Updates

\* The path a matched request goes out with.
Rewritten(x) == rewrite_path_and_query(x.ask.path, x.match.prefix, x.match.rewrite)

\* What NewCtx makes of its request.
LEMMA NewCtxStep ==
    ASSUME Shape, NEW r \in Requests, NewCtx(r)
    PROVE  Updates(req, req', r, [NoRequest EXCEPT !.pc = "filter"])
<1>1. req' = [req EXCEPT ![r] = [NoRequest EXCEPT !.pc = "filter"]]
  BY DEF NewCtx
<1>2. Updates(req, [req EXCEPT ![r] = [NoRequest EXCEPT !.pc = "filter"]], r,
              [NoRequest EXCEPT !.pc = "filter"])
  BY SetAll, Zenon DEF Shape
<1> QED
  BY <1>1, <1>2

\* What Misdirected makes of its request.
LEMMA MisdirectedStep ==
    ASSUME Shape, NEW r \in Requests, Misdirected(r)
    PROVE  \E q \in Asked :
             Updates(req, req', r,
               [pc |-> "log", ask |-> q, match |-> req[r].match, timed |-> req[r].timed,
                peer |-> req[r].peer, sent |-> req[r].sent, status |-> 421])
<1> DEFINE n == 421
<1>1. PICK q \in Asked :
        req' = [req EXCEPT ![r].pc = "log", ![r].ask = q, ![r].status = n]
  BY DEF Misdirected
<1> HIDE DEF n
<1>2. Updates(req, [req EXCEPT ![r].pc = "log", ![r].ask = q, ![r].status = n], r,
              [pc |-> "log", ask |-> q, match |-> req[r].match, timed |-> req[r].timed,
                peer |-> req[r].peer, sent |-> req[r].sent, status |-> n])
  BY SetAnswer, Zenon DEF Shape
<1> QED
  BY <1>1, <1>2 DEF n

\* What RequestFilter makes of its request.
LEMMA RequestFilterStep ==
    ASSUME Shape, NEW r \in Requests, RequestFilter(r)
    PROVE  \E q \in Asked :
             /\ Updates(req, req', r,
                   [pc |-> "peer", ask |-> q, match |-> MatchIn(Configs[router], q),
                    timed |-> req[r].timed, peer |-> req[r].peer, sent |-> req[r].sent,
                    status |-> req[r].status])
             /\ ~MisdirectedBy(q)
             /\ active' = IF MatchIn(Configs[router], q) = Absent THEN active
                          ELSE [active EXCEPT ![MatchIn(Configs[router], q).label] = @ + 1]
<1>1. PICK q \in Asked :
        /\ req' = [req EXCEPT ![r].pc = "peer", ![r].ask = q, ![r].match = MatchIn(Configs[router], q)]
        /\ ~MisdirectedBy(q)
        /\ active' = IF MatchIn(Configs[router], q) = Absent THEN active
                     ELSE [active EXCEPT ![MatchIn(Configs[router], q).label] = @ + 1]
  BY DEF RequestFilter
<1>2. Updates(req, [req EXCEPT ![r].pc = "peer", ![r].ask = q, ![r].match = MatchIn(Configs[router], q)], r,
              [pc |-> "peer", ask |-> q, match |-> MatchIn(Configs[router], q),
                timed |-> req[r].timed, peer |-> req[r].peer, sent |-> req[r].sent,
                status |-> req[r].status])
  BY SetMatch, Zenon DEF Shape
<1> QED
  BY <1>1, <1>2

\* What NoRoute makes of its request.
LEMMA NoRouteStep ==
    ASSUME Shape, NEW r \in Requests, NoRoute(r)
    PROVE  Updates(req, req', r,
               [pc |-> "log", ask |-> req[r].ask, match |-> req[r].match, timed |-> req[r].timed,
                peer |-> req[r].peer, sent |-> req[r].sent, status |-> 404])
<1>1. req' = [req EXCEPT ![r].pc = "log", ![r].status = 404]
  BY DEF NoRoute
<1>2. Updates(req, [req EXCEPT ![r].pc = "log", ![r].status = 404], r,
              [pc |-> "log", ask |-> req[r].ask, match |-> req[r].match, timed |-> req[r].timed,
                peer |-> req[r].peer, sent |-> req[r].sent, status |-> 404])
  BY SetStatus, Zenon DEF Shape
<1> QED
  BY <1>1, <1>2

\* What NoPeer makes of its request.
LEMMA NoPeerStep ==
    ASSUME Shape, NEW r \in Requests, NoPeer(r)
    PROVE  Updates(req, req', r,
               [pc |-> "log", ask |-> req[r].ask, match |-> req[r].match, timed |-> req[r].timed,
                peer |-> req[r].peer, sent |-> req[r].sent, status |-> 503])
<1>1. req' = [req EXCEPT ![r].pc = "log", ![r].status = 503]
  BY DEF NoPeer
<1>2. Updates(req, [req EXCEPT ![r].pc = "log", ![r].status = 503], r,
              [pc |-> "log", ask |-> req[r].ask, match |-> req[r].match, timed |-> req[r].timed,
                peer |-> req[r].peer, sent |-> req[r].sent, status |-> 503])
  BY SetStatus, Zenon DEF Shape
<1> QED
  BY <1>1, <1>2

\* What UpstreamPeer makes of its request.
LEMMA UpstreamPeerStep ==
    ASSUME Shape, NEW r \in Requests, UpstreamPeer(r)
    PROVE  \E b \in select_peer(r) :
             Updates(req, req', r,
               [pc |-> "connect", ask |-> req[r].ask, match |-> req[r].match, timed |-> TRUE,
                peer |-> b, sent |-> req[r].sent, status |-> req[r].status])
<1>1. PICK b \in select_peer(r) :
        req' = [req EXCEPT ![r].pc = "connect", ![r].timed = TRUE, ![r].peer = b]
  BY DEF UpstreamPeer
<1>2. Updates(req, [req EXCEPT ![r].pc = "connect", ![r].timed = TRUE, ![r].peer = b], r,
              [pc |-> "connect", ask |-> req[r].ask, match |-> req[r].match, timed |-> TRUE,
                peer |-> b, sent |-> req[r].sent, status |-> req[r].status])
  BY SetPeer, Zenon DEF Shape
<1> QED
  BY <1>1, <1>2

\* What UpstreamRequestFilter makes of its request.
LEMMA UpstreamRequestFilterStep ==
    ASSUME Shape, NEW r \in Requests, UpstreamRequestFilter(r)
    PROVE  Updates(req, req', r,
               [pc |-> "sent", ask |-> req[r].ask, match |-> req[r].match, timed |-> req[r].timed,
                peer |-> req[r].peer, sent |-> Rewritten(req[r]), status |-> req[r].status])
<1>1. req' = [req EXCEPT ![r].pc = "sent", ![r].sent = Rewritten(req[r])]
  BY DEF UpstreamRequestFilter, Rewritten
<1>2. Updates(req, [req EXCEPT ![r].pc = "sent", ![r].sent = Rewritten(req[r])], r,
              [pc |-> "sent", ask |-> req[r].ask, match |-> req[r].match, timed |-> req[r].timed,
                peer |-> req[r].peer, sent |-> Rewritten(req[r]), status |-> req[r].status])
  BY SetSent, Zenon DEF Shape
<1> QED
  BY <1>1, <1>2

\* What Retry makes of its request.
LEMMA RetryStep ==
    ASSUME Shape, NEW r \in Requests, Retry(r)
    PROVE  Updates(req, req', r,
               [pc |-> "peer", ask |-> req[r].ask, match |-> req[r].match, timed |-> req[r].timed,
                peer |-> req[r].peer, sent |-> req[r].sent, status |-> req[r].status])
<1>1. req' = [req EXCEPT ![r].pc = "peer"]
  BY DEF Retry
<1>2. Updates(req, [req EXCEPT ![r].pc = "peer"], r,
              [pc |-> "peer", ask |-> req[r].ask, match |-> req[r].match, timed |-> req[r].timed,
                peer |-> req[r].peer, sent |-> req[r].sent, status |-> req[r].status])
  BY SetPlace, Zenon DEF Shape
<1> QED
  BY <1>1, <1>2

\* What SendFails makes of its request.
LEMMA SendFailsStep ==
    ASSUME Shape, NEW r \in Requests, SendFails(r)
    PROVE  \E st \in {500, 502} :
             Updates(req, req', r,
               [pc |-> "log", ask |-> req[r].ask, match |-> req[r].match, timed |-> req[r].timed,
                peer |-> req[r].peer, sent |-> req[r].sent, status |-> st])
<1>1. PICK st \in {500, 502} :
        req' = [req EXCEPT ![r].pc = "log", ![r].status = st]
  BY DEF SendFails
<1>2. Updates(req, [req EXCEPT ![r].pc = "log", ![r].status = st], r,
              [pc |-> "log", ask |-> req[r].ask, match |-> req[r].match, timed |-> req[r].timed,
                peer |-> req[r].peer, sent |-> req[r].sent, status |-> st])
  BY SetStatus, Zenon DEF Shape
<1> QED
  BY <1>1, <1>2

\* What Respond makes of its request.
LEMMA RespondStep ==
    ASSUME Shape, NEW r \in Requests, Respond(r)
    PROVE  \E st \in {200, 502} :
             Updates(req, req', r,
               [pc |-> "log", ask |-> req[r].ask, match |-> req[r].match, timed |-> req[r].timed,
                peer |-> req[r].peer, sent |-> req[r].sent, status |-> st])
<1>1. PICK st \in {200, 502} :
        req' = [req EXCEPT ![r].pc = "log", ![r].status = st]
  BY DEF Respond
<1>2. Updates(req, [req EXCEPT ![r].pc = "log", ![r].status = st], r,
              [pc |-> "log", ask |-> req[r].ask, match |-> req[r].match, timed |-> req[r].timed,
                peer |-> req[r].peer, sent |-> req[r].sent, status |-> st])
  BY SetStatus, Zenon DEF Shape
<1> QED
  BY <1>1, <1>2

\* What Logging makes of its request.
LEMMA LoggingStep ==
    ASSUME Shape, NEW r \in Requests, Logging(r)
    PROVE  Updates(req, req', r, NoRequest)
<1>1. req' = [req EXCEPT ![r] = NoRequest]
  BY DEF Logging
<1>2. Updates(req, [req EXCEPT ![r] = NoRequest], r, NoRequest)
  BY SetAll, Zenon DEF Shape
<1> QED
  BY <1>1, <1>2

\* The requests a step does not write keep their fields, and so do all of them
\* their shape.
LEMMA UpdateShape ==
    ASSUME Shape, NEW r \in Requests, NEW y, IsRequest(y), Updates(req, req', r, y)
    PROVE  Shape'
<1>1. req' = [x \in Requests |-> req'[x]]
  BY Zenon DEF Updates
<1>2. ASSUME NEW x \in Requests PROVE IsRequest(req'[x])
  BY Zenon DEF Updates, Shape
<1> QED
  BY <1>1, <1>2, Zenon DEF Shape, IsRequest

\* A request put together of seven fields is one.
LEMMA MadeRequest ==
    ASSUME NEW p, NEW q, NEW m, NEW t, NEW b, NEW w, NEW st
    PROVE  IsRequest([pc |-> p, ask |-> q, match |-> m, timed |-> t, peer |-> b, sent |-> w, status |-> st])
  BY DEF IsRequest

\* A slot without a request, and a request that has just come.
LEMMA EmptyRequest ==
    /\ IsRequest(NoRequest) /\ NoRequest.pc = "none"
    /\ LET y == [NoRequest EXCEPT !.pc = "filter"]
       IN /\ IsRequest(y) /\ y.pc = "filter" /\ y.match = Absent /\ y.status = 0
          /\ y.peer = Absent /\ y.sent = Absent
<1> DEFINE f == FALSE
<1>1. NoRequest = [pc |-> "none", ask |-> Absent, match |-> Absent, timed |-> f,
                   peer |-> Absent, sent |-> Absent, status |-> 0]
  BY DEF NoRequest
<1> HIDE DEF f
<1>2. [NoRequest EXCEPT !.pc = "filter"] =
        [pc |-> "filter", ask |-> Absent, match |-> Absent, timed |-> f,
         peer |-> Absent, sent |-> Absent, status |-> 0]
  BY <1>1
<1> QED
  BY <1>1, <1>2 DEF IsRequest

----------------------------------------------------------------------------
(* The gauges.                                                             *)

\* The requests counted under a label.
Counted(l) == {r \in InFlight : req[r].match # Absent /\ req[r].match.label = l}

(***************************************************************************)
(* A request whose filter has not run has no match, so the filter counts   *)
(* it for the first time.                                                  *)
(***************************************************************************)
GaugeInv ==
    /\ Shape
    /\ \A r \in Requests : req[r].pc = "filter" => req[r].match = Absent
    /\ active = [l \in DOMAIN active |-> active[l]]
    /\ RequestGaugesExact

\* The claim about the gauges, in terms of Counted.
Exact ==
    /\ clients = Cardinality(InFlight)
    /\ \A l \in DOMAIN active : active[l] = Cardinality(Counted(l))

\* It is that claim, before and after a step.
LEMMA ExactGauges == (RequestGaugesExact <=> Exact) /\ (RequestGaugesExact' <=> Exact')
  BY DEF RequestGaugesExact, Exact, Counted

\* Only slots of requests are in flight.
LEMMA FlightSlots == InFlight \subseteq Requests /\ InFlight' \subseteq Requests
  BY DEF InFlight

\* A step within a request changes no gauge, and none has to change.
LEMMA GaugesStay ==
    ASSUME GaugeInv, NEW r \in Requests, NEW y, IsRequest(y), Updates(req, req', r, y),
           req[r].pc # "none", y.pc \notin {"none", "filter"}, y.match = req[r].match,
           UNCHANGED <<active, clients>>
    PROVE  GaugeInv'
<1>1. \A x \in Requests : x # r => req'[x] = req[x]
  BY DEF Updates
<1>2. req'[r] = y
  BY DEF Updates
<1>3. Shape'
  BY UpdateShape DEF GaugeInv
<1>4. InFlight' = InFlight
  BY <1>1, <1>2 DEF InFlight
<1>5. ASSUME NEW l PROVE Counted(l)' = Counted(l)
  <2>1. \A x \in InFlight : (req'[x].match # Absent /\ req'[x].match.label = l)
                             <=> (req[x].match # Absent /\ req[x].match.label = l)
    BY <1>1, <1>2, FlightSlots
  <2> QED
    BY <1>4, <2>1 DEF Counted
<1>6. RequestGaugesExact'
  BY <1>4, <1>5, ExactGauges DEF GaugeInv, Exact
<1>7. \A x \in Requests : req'[x].pc = "filter" => req'[x].match = Absent
  BY <1>1, <1>2 DEF GaugeInv
<1> QED
  BY <1>3, <1>6, <1>7 DEF GaugeInv

\* The requests in flight are finitely many, and so are those of a label.
LEMMA FiniteFlight == IsFiniteSet(InFlight) /\ \A l : IsFiniteSet(Counted(l))
<1>1. InFlight \subseteq Requests /\ \A l : Counted(l) \subseteq Requests
  BY DEF InFlight, Counted
<1> QED
  BY <1>1, HttpProxyAssumption, FS_Subset

\* A new request is a client more.
LEMMA GaugesNewCtx ==
    ASSUME GaugeInv, NEW r \in Requests, NewCtx(r)
    PROVE  GaugeInv'
<1> DEFINE y == [NoRequest EXCEPT !.pc = "filter"]
<1>1. Updates(req, req', r, y)
  BY NewCtxStep DEF GaugeInv
<1>2. IsRequest(y) /\ y.pc = "filter" /\ y.match = Absent
  BY EmptyRequest
<1> HIDE DEF y
<1>3. req[r].pc = "none" /\ clients' = clients + 1 /\ active' = active
  BY DEF NewCtx
<1>4. Shape'
  BY <1>1, <1>2, UpdateShape DEF GaugeInv
<1>5. req'[r] = y /\ \A x \in Requests : x # r => req'[x] = req[x]
  BY <1>1 DEF Updates
<1>6. r \notin InFlight /\ InFlight' = InFlight \cup {r}
  BY <1>2, <1>3, <1>5 DEF InFlight
<1>7. \A l : Counted(l)' = Counted(l)
  BY <1>2, <1>5, <1>6 DEF Counted, InFlight
<1>8. Cardinality(InFlight') = Cardinality(InFlight) + 1
  BY <1>6, FiniteFlight, FS_AddElement
<1>9. RequestGaugesExact'
  BY <1>3, <1>7, <1>8, ExactGauges DEF GaugeInv, Exact
<1>10. \A x \in Requests : req'[x].pc = "filter" => req'[x].match = Absent
  BY <1>2, <1>5 DEF GaugeInv
<1> QED
  BY <1>3, <1>4, <1>9, <1>10 DEF GaugeInv

\* The filter counts a request under the label of its route.
LEMMA GaugesFilter ==
    ASSUME GaugeInv, NEW r \in Requests, RequestFilter(r)
    PROVE  GaugeInv'
<1>1. PICK q \in Asked :
        /\ Updates(req, req', r,
             [pc |-> "peer", ask |-> q, match |-> MatchIn(Configs[router], q), timed |-> req[r].timed,
              peer |-> req[r].peer, sent |-> req[r].sent, status |-> req[r].status])
        /\ active' = IF MatchIn(Configs[router], q) = Absent THEN active
                     ELSE [active EXCEPT ![MatchIn(Configs[router], q).label] = @ + 1]
  BY RequestFilterStep DEF GaugeInv
<1> DEFINE m == MatchIn(Configs[router], q)
<1> DEFINE y == [pc |-> "peer", ask |-> q, match |-> m, timed |-> req[r].timed,
                 peer |-> req[r].peer, sent |-> req[r].sent, status |-> req[r].status]
<1>2. active' = IF m = Absent THEN active ELSE [active EXCEPT ![m.label] = @ + 1]
  BY <1>1
<1>3. Updates(req, req', r, y)
  BY <1>1
<1> HIDE DEF m
<1>4. IsRequest(y) /\ y.pc = "peer" /\ y.match = m
  BY MadeRequest
<1> HIDE DEF y
<1>5. req[r].pc = "filter" /\ req[r].match = Absent /\ clients' = clients
  BY DEF RequestFilter, GaugeInv
<1>6. Shape'
  BY <1>3, <1>4, UpdateShape DEF GaugeInv
<1>7. req'[r] = y /\ \A x \in Requests : x # r => req'[x] = req[x]
  BY <1>3 DEF Updates
<1>8. InFlight' = InFlight /\ r \in InFlight
  BY <1>4, <1>5, <1>7 DEF InFlight
<1>9. ASSUME NEW l
      PROVE  Counted(l)' = IF m # Absent /\ m.label = l THEN Counted(l) \cup {r} ELSE Counted(l)
  <2>1. \A x \in InFlight : x # r => req'[x].match = req[x].match
    BY <1>7, FlightSlots
  <2>2. req'[r].match = m
    BY <1>4, <1>7
  <2> QED
    BY <1>5, <1>8, <2>1, <2>2 DEF Counted
<1>10. \A l : r \notin Counted(l)
  BY <1>5 DEF Counted
<1>11. \A l : Cardinality(Counted(l)') =
                IF m # Absent /\ m.label = l THEN Cardinality(Counted(l)) + 1 ELSE Cardinality(Counted(l))
  BY <1>9, <1>10, FiniteFlight, FS_AddElement
<1>12. /\ active' = [l \in DOMAIN active' |-> active'[l]] /\ DOMAIN active' = DOMAIN active
       /\ \A l \in DOMAIN active :
            active'[l] = IF m # Absent /\ m.label = l THEN active[l] + 1 ELSE active[l]
  BY <1>2 DEF GaugeInv
<1>13. RequestGaugesExact'
  BY <1>5, <1>8, <1>11, <1>12, ExactGauges DEF GaugeInv, Exact
<1>14. \A x \in Requests : req'[x].pc = "filter" => req'[x].match = Absent
  BY <1>4, <1>7 DEF GaugeInv
<1> QED
  BY <1>6, <1>12, <1>13, <1>14 DEF GaugeInv

\* The log takes back what was counted.
LEMMA GaugesLogging ==
    ASSUME GaugeInv, NEW r \in Requests, Logging(r)
    PROVE  GaugeInv'
<1> DEFINE m == req[r].match
<1>1. Updates(req, req', r, NoRequest)
  BY LoggingStep DEF GaugeInv
<1>2. IsRequest(NoRequest) /\ NoRequest.pc = "none"
  BY EmptyRequest
<1>3. /\ req[r].pc = "log" /\ clients' = clients - 1
      /\ active' = IF m = Absent THEN active ELSE [active EXCEPT ![m.label] = @ - 1]
  BY DEF Logging
<1>4. Shape'
  BY <1>1, <1>2, UpdateShape DEF GaugeInv
<1>5. req'[r] = NoRequest /\ \A x \in Requests : x # r => req'[x] = req[x]
  BY <1>1 DEF Updates
<1>6. r \in InFlight /\ InFlight' = InFlight \ {r}
  BY <1>2, <1>3, <1>5 DEF InFlight
<1>7. ASSUME NEW l PROVE Counted(l)' = Counted(l) \ {r}
  <2>1. \A x \in InFlight : x # r => req'[x].match = req[x].match
    BY <1>5, FlightSlots
  <2> QED
    BY <1>6, <2>1 DEF Counted
<1>8. \A l : r \in Counted(l) <=> (m # Absent /\ m.label = l)
  BY <1>6 DEF Counted
<1>9. Cardinality(InFlight') = Cardinality(InFlight) - 1
  BY <1>6, FiniteFlight, FS_RemoveElement
<1>10. ASSUME NEW l
       PROVE  Cardinality(Counted(l)') =
                IF m # Absent /\ m.label = l THEN Cardinality(Counted(l)) - 1 ELSE Cardinality(Counted(l))
  <2>1. CASE r \in Counted(l)
    BY <1>7, <1>8, <2>1, FiniteFlight, FS_RemoveElement
  <2>2. CASE r \notin Counted(l)
    <3>1. Counted(l)' = Counted(l)
      BY <1>7, <2>2
    <3> QED
      BY <1>8, <2>2, <3>1
  <2> QED
    BY <2>1, <2>2
<1>11. /\ active' = [l \in DOMAIN active' |-> active'[l]] /\ DOMAIN active' = DOMAIN active
       /\ \A l \in DOMAIN active :
            active'[l] = IF m # Absent /\ m.label = l THEN active[l] - 1 ELSE active[l]
  BY <1>3 DEF GaugeInv
<1>12. RequestGaugesExact'
  BY <1>3, <1>9, <1>10, <1>11, ExactGauges DEF GaugeInv, Exact
<1>13. \A x \in Requests : req'[x].pc = "filter" => req'[x].match = Absent
  BY <1>2, <1>5 DEF GaugeInv
<1> QED
  BY <1>4, <1>11, <1>12, <1>13 DEF GaugeInv

\* Every step keeps the gauges exact.
LEMMA GaugeNext == GaugeInv /\ [Next]_vars => GaugeInv'
<1> SUFFICES ASSUME GaugeInv, [Next]_vars PROVE GaugeInv'
  OBVIOUS
<1>s. Shape
  BY DEF GaugeInv
<1>1. CASE Reload \/ StoreRouter \/ StoreUpstreams \/ UNCHANGED vars
  <2>1. UNCHANGED <<req, active, clients>>
    BY <1>1 DEF Reload, StoreRouter, StoreUpstreams, vars, gauges
  <2> QED
    BY <2>1 DEF GaugeInv, Shape, RequestGaugesExact, InFlight
<1>2. ASSUME NEW r \in Requests, NewCtx(r) PROVE GaugeInv'
  BY <1>2, GaugesNewCtx
<1>3. ASSUME NEW r \in Requests, RequestFilter(r) PROVE GaugeInv'
  BY <1>3, GaugesFilter
<1>4. ASSUME NEW r \in Requests, Logging(r) PROVE GaugeInv'
  BY <1>4, GaugesLogging
<1>5. ASSUME NEW r \in Requests, Misdirected(r) PROVE GaugeInv'
  <2>1. PICK q \in Asked : Updates(req, req', r,
               [pc |-> "log", ask |-> q, match |-> req[r].match, timed |-> req[r].timed,
                peer |-> req[r].peer, sent |-> req[r].sent, status |-> 421])
    BY <1>5, <1>s, MisdirectedStep
  <2>2. req[r].pc = "filter" /\ UNCHANGED <<active, clients>>
    BY <1>5 DEF Misdirected, gauges
  <2> QED
    BY <2>1, <2>2, GaugesStay, MadeRequest
<1>6. ASSUME NEW r \in Requests, NoRoute(r) \/ NoPeer(r) \/ SendFails(r) \/ Respond(r) PROVE GaugeInv'
  <2>1. PICK st \in {200, 404, 500, 502, 503} : Updates(req, req', r,
               [pc |-> "log", ask |-> req[r].ask, match |-> req[r].match, timed |-> req[r].timed,
                peer |-> req[r].peer, sent |-> req[r].sent, status |-> st])
    BY <1>6, <1>s, NoRouteStep, NoPeerStep, SendFailsStep, RespondStep
  <2>2. req[r].pc # "none" /\ UNCHANGED <<active, clients>>
    BY <1>6 DEF NoRoute, NoPeer, SendFails, Respond, gauges
  <2> QED
    BY <2>1, <2>2, GaugesStay, MadeRequest
<1>7. ASSUME NEW r \in Requests, UpstreamPeer(r) PROVE GaugeInv'
  <2>1. PICK b \in select_peer(r) : Updates(req, req', r,
               [pc |-> "connect", ask |-> req[r].ask, match |-> req[r].match, timed |-> TRUE,
                peer |-> b, sent |-> req[r].sent, status |-> req[r].status])
    BY <1>7, <1>s, UpstreamPeerStep
  <2>2. req[r].pc # "none" /\ UNCHANGED <<active, clients>>
    BY <1>7 DEF UpstreamPeer
  <2> QED
    BY <2>1, <2>2, GaugesStay, MadeRequest
<1>8. ASSUME NEW r \in Requests, UpstreamRequestFilter(r) PROVE GaugeInv'
  <2>1. Updates(req, req', r,
               [pc |-> "sent", ask |-> req[r].ask, match |-> req[r].match, timed |-> req[r].timed,
                peer |-> req[r].peer, sent |-> Rewritten(req[r]), status |-> req[r].status])
    BY <1>8, <1>s, UpstreamRequestFilterStep
  <2>2. req[r].pc # "none" /\ UNCHANGED <<active, clients>>
    BY <1>8 DEF UpstreamRequestFilter, gauges
  <2> QED
    BY <2>1, <2>2, GaugesStay, MadeRequest
<1>9. ASSUME NEW r \in Requests, Retry(r) PROVE GaugeInv'
  <2>1. Updates(req, req', r,
               [pc |-> "peer", ask |-> req[r].ask, match |-> req[r].match, timed |-> req[r].timed,
                peer |-> req[r].peer, sent |-> req[r].sent, status |-> req[r].status])
    BY <1>9, <1>s, RetryStep
  <2>2. req[r].pc # "none" /\ UNCHANGED <<active, clients>>
    BY <1>9 DEF Retry, gauges
  <2> QED
    BY <2>1, <2>2, GaugesStay, MadeRequest
<1> QED
  BY <1>1, <1>2, <1>3, <1>4, <1>5, <1>6, <1>7, <1>8, <1>9 DEF Next

\* No request, nothing counted.
LEMMA GaugeInit == Init => GaugeInv
<1> SUFFICES ASSUME Init PROVE GaugeInv
  OBVIOUS
<1>1. Shape /\ \A r \in Requests : req[r] = NoRequest
  BY EmptyRequest DEF Init, Shape
<1>2. InFlight = {} /\ \A l : Counted(l) = {}
  BY <1>1, EmptyRequest DEF InFlight, Counted
<1>3. Cardinality({}) = 0
  BY FS_EmptySet
<1>4. Exact
  BY <1>2, <1>3 DEF Init, Exact
<1> QED
  BY <1>1, <1>4, ExactGauges, EmptyRequest DEF Init, GaugeInv

(***************************************************************************)
(* proxy.rs, new_ctx, request_filter and logging: however many requests    *)
(* are in flight, however they interleave with reloads and however they    *)
(* end (421, 404, 503, an upstream error, an answer, after any number of   *)
(* retries), the gauges of client connections and of active requests count *)
(* exactly the requests in flight, also under a label that a reload has    *)
(* since renamed or dropped.                                               *)
(***************************************************************************)
THEOREM GaugesExact == Spec => []RequestGaugesExact
<1>1. GaugeInv => RequestGaugesExact
  BY DEF GaugeInv
<1> QED
  BY <1>1, GaugeInit, GaugeNext, PTL DEF Spec

----------------------------------------------------------------------------
(* The paths that are sent.                                                *)

\* A path that begins with a slash.
Absolute(p) == IsPath(p) /\ p # <<>> /\ p[1] = "/"

\* The facts about a path that the following lemmas need.
LEMMA PathFacts ==
    ASSUME NEW p, IsPath(p)
    PROVE  /\ Len(p) \in Nat /\ DOMAIN p = 1 .. Len(p)
           /\ \A k \in 1 .. Len(p) : p[k] \in STRING
           /\ p # <<>> <=> Len(p) >= 1
           /\ p # <<>> => Head(p) = p[1]
<1>1. Len(p) \in Nat /\ DOMAIN p = 1 .. Len(p) /\ \A k \in 1 .. Len(p) : p[k] \in STRING
  BY LenProperties, ElementOfSeq DEF IsPath
<1>2. p # <<>> <=> Len(p) >= 1
  BY <1>1, EmptySeq DEF IsPath
<1>3. p # <<>> => Head(p) = p[1]
  BY <1>2 DEF IsPath
<1> QED
  BY <1>1, <1>2, <1>3

\* A path put in front of another leads.
LEMMA Leads ==
    ASSUME NEW p, NEW s, IsPath(p), IsPath(s)
    PROVE  /\ IsPath(p \o s)
           /\ Absolute(p) => Absolute(p \o s)
           /\ p = <<>> => p \o s = s
<1>1. IsPath(p \o s) /\ Len(p \o s) = Len(p) + Len(s)
  BY ConcatProperties DEF IsPath
<1>2. ASSUME Absolute(p) PROVE Absolute(p \o s)
  <2>1. Len(p) >= 1 /\ Len(p) \in Nat /\ Len(s) \in Nat
    BY <1>2, PathFacts DEF Absolute
  <2>2. 1 \in 1 .. Len(p) + Len(s) /\ 1 <= Len(p)
    BY <2>1
  <2>3. (p \o s)[1] = p[1]
    BY <2>2, ConcatProperties DEF IsPath
  <2>4. p \o s # <<>>
    BY <1>1, <2>1, PathFacts
  <2> QED
    BY <1>1, <1>2, <2>3, <2>4 DEF Absolute
<1>3. p = <<>> => p \o s = s
  BY ConcatEmptySeq DEF IsPath
<1> QED
  BY <1>1, <1>2, <1>3

\* A set of numbers that is not empty has a least one.
LEMMA LeastNumber ==
    ASSUME NEW T, T \subseteq Nat, T # {}
    PROVE  \E t \in T : \A u \in T : t <= u
<1> DEFINE R == {ss \in Nat \X Nat : ss[1] < ss[2]}
<1>1. IsWellFoundedOn(R, Nat)
  BY NatLessThanWellFounded, Zenon DEF OpToRel
<1>2. PICK t \in T : \A u \in T : ~ (<<u, t>> \in R)
  <2> HIDE DEF R
  <2> QED
    BY <1>1, WFMin
<1>3. ASSUME NEW u \in T PROVE t <= u
  <2>1. u \in Nat /\ t \in Nat /\ ~ (<<u, t>> \in R)
    BY <1>2
  <2>2. ~ (u < t)
    BY <2>1
  <2> QED
    BY <2>1, <2>2
<1> QED
  BY <1>3

\* What is left of a path without its final slashes is nothing, or begins as
\* the path does.
LEMMA Trimmed ==
    ASSUME NEW p, Absolute(p)
    PROVE  IsPath(TrimSlashes(p)) /\ (TrimSlashes(p) = <<>> \/ Absolute(TrimSlashes(p)))
<1>1. Len(p) \in Nat /\ Len(p) >= 1 /\ \A k \in 1 .. Len(p) : p[k] \in STRING
  BY PathFacts DEF Absolute
<1> DEFINE K == {k \in 0 .. Len(p) : \A i \in (k + 1) .. Len(p) : p[i] = "/"}
<1> DEFINE Ends(k) == /\ \A i \in (k + 1) .. Len(p) : p[i] = "/"
                      /\ k > 0 => p[k] # "/"
<1>2. \E k \in 0 .. Len(p) : Ends(k)
  <2>1. K \subseteq Nat /\ Len(p) \in K
    BY <1>1
  <2>2. PICK k \in K : \A u \in K : k <= u
    <3> HIDE DEF K
    <3> QED
      BY <2>1, LeastNumber
  <2>3. ASSUME k > 0, p[k] = "/" PROVE FALSE
    <3>1. k - 1 \in 0 .. Len(p) /\ \A i \in ((k - 1) + 1) .. Len(p) : p[i] = "/"
      BY <1>1, <2>1, <2>3
    <3>2. k - 1 \in K
      BY <3>1
    <3> HIDE DEF K
    <3>3. k <= k - 1 /\ k \in Nat
      BY <2>1, <2>2, <3>2
    <3> QED
      BY <3>3
  <2> QED
    BY <2>2, <2>3
<1> DEFINE n == CHOOSE k \in 0 .. Len(p) : Ends(k)
<1>3. n \in 0 .. Len(p)
  BY <1>2
<1>4. TrimSlashes(p) = SubSeq(p, 1, n)
  BY DEF TrimSlashes
<1> HIDE DEF n
<1>5. /\ SubSeq(p, 1, n) \in Seq(STRING)
      /\ Len(SubSeq(p, 1, n)) = IF 1 <= n THEN n - 1 + 1 ELSE 0
      /\ \A k \in 1 .. n - 1 + 1 : SubSeq(p, 1, n)[k] = p[1 + k - 1]
  BY <1>1, <1>3, SubSeqProperties
<1>6. CASE n = 0
  BY <1>4, <1>5, <1>6, PathFacts DEF IsPath
<1>7. CASE n >= 1
  <2>1. SubSeq(p, 1, n)[1] = p[1] /\ Len(SubSeq(p, 1, n)) >= 1
    BY <1>3, <1>5, <1>7
  <2> QED
    BY <1>4, <1>5, <2>1, PathFacts DEF Absolute, IsPath
<1> QED
  BY <1>3, <1>6, <1>7

\* A prefix of an absolute path replaced by an absolute one leaves an absolute path.
LEMMA ReplacedPrefix ==
    ASSUME NEW path, NEW prefix, NEW to, Absolute(path), IsPath(prefix), Absolute(to)
    PROVE  Absolute(replace_path_prefix(path, prefix, to))
<1> DEFINE rest == IF IsPrefix(prefix, path) THEN SubSeq(path, Len(prefix) + 1, Len(path)) ELSE path
<1>1. IsPath(rest)
  <2>1. /\ Len(prefix) + 1 \in Int /\ Len(path) \in Int
        /\ \A k \in (Len(prefix) + 1) .. Len(path) : path[k] \in STRING
    BY PathFacts DEF Absolute
  <2>2. IsPath(SubSeq(path, Len(prefix) + 1, Len(path)))
    BY <2>1, SubSeqProperties DEF IsPath
  <2> QED
    BY <2>2 DEF Absolute
<1> DEFINE slashEnd == to # <<>> /\ Last(to) = "/"
<1> DEFINE slashStart == rest # <<>> /\ Head(rest) = "/"
<1>2. replace_path_prefix(path, prefix, to) =
        IF rest = <<>> THEN to
        ELSE IF slashEnd /\ slashStart THEN TrimSlashes(to) \o rest
        ELSE IF slashEnd \/ slashStart THEN to \o rest
        ELSE to \o <<"/">> \o rest
  BY DEF replace_path_prefix
<1> HIDE DEF rest
<1>3. Absolute(to \o rest) /\ Absolute(to \o <<"/">> \o rest)
  <2>1. IsPath(<<"/">>)
    <3>1. \A S : \A e \in S : <<e>> \in Seq(S)
      OBVIOUS
    <3>2. path[1] \in STRING /\ path[1] = "/"
      BY PathFacts DEF Absolute
    <3> QED
      BY <3>1, <3>2, Zenon DEF IsPath
  <2>2. Absolute(to \o <<"/">>)
    BY <2>1, Leads DEF Absolute
  <2>3. Absolute((to \o <<"/">>) \o rest)
    BY <1>1, <2>2, Leads DEF Absolute
  <2>4. Absolute(to \o rest)
    BY <1>1, Leads DEF Absolute
  <2> QED
    BY <2>3, <2>4
<1>4. ASSUME slashStart PROVE Absolute(TrimSlashes(to) \o rest)
  <2>1. CASE TrimSlashes(to) = <<>>
    BY <1>1, <1>4, <2>1, Trimmed, Leads, PathFacts DEF Absolute
  <2>2. CASE Absolute(TrimSlashes(to))
    BY <1>1, <2>2, Leads DEF Absolute
  <2> QED
    BY <2>1, <2>2, Trimmed
<1> QED
  BY <1>2, <1>3, <1>4

----------------------------------------------------------------------------
(* The route a configuration finds.                                        *)

\* The router answers with one of its routes, or with none.
LEMMA FirstMatch ==
    ASSUME NEW routes, IsList(routes), NEW q
    PROVE  match_request(routes, q) = 0 \/ match_request(routes, q) \in DOMAIN routes
<1> DEFINE I == {i \in 1 .. Len(routes) : RouteMatches(routes[i].match, q)}
<1>1. Len(routes) \in Nat /\ DOMAIN routes = 1 .. Len(routes)
  BY LenProperties DEF IsList
<1>2. match_request(routes, q) = IF I # {} THEN Min(I) ELSE 0
  BY Zenon DEF match_request, SelectInSeq
<1>3. I \subseteq Nat /\ I \subseteq DOMAIN routes
  BY <1>1
<1> HIDE DEF I
<1>4. ASSUME I # {} PROVE Min(I) \in I
  <2>1. \E x \in I : \A y \in I : x <= y
    BY <1>3, <1>4, LeastNumber
  <2> QED
    BY <2>1, Zenon DEF Min
<1> QED
  BY <1>2, <1>3, <1>4

\* What a match is made of, in a configuration that was loaded.
LEMMA MatchParts ==
    ASSUME NEW v \in Versions, NEW q, IsPath(q.path), MatchIn(Configs[v], q) # Absent
    PROVE  LET c == Configs[v]
               m == MatchIn(c, q)
           IN /\ m.upstream \in DOMAIN c.upstreams
              /\ ToSet(c.upstreams[m.upstream]) # {}
              /\ IsPath(m.prefix)
              /\ (m.rewrite # Absent /\ m.rewrite.to # Absent) => Absolute(m.rewrite.to)
<1> DEFINE c == Configs[v]
<1> DEFINE i == match_request(c.routes, Properties(q))
<1> DEFINE rt == c.routes[i]
<1>1. Parsed(c) /\ validate(c)
  BY HttpProxyAssumption
<1>2. i = 0 \/ i \in DOMAIN c.routes
  BY <1>1, FirstMatch DEF Parsed
<1>3. /\ i # 0
      /\ MatchIn(c, q) =
           [label |-> IF rt.name = Absent THEN rt.upstream ELSE rt.name,
            upstream |-> rt.upstream,
            rewrite |-> IF rt.filters = Absent THEN Absent ELSE rt.filters.rewrite,
            prefix |-> matched_path_prefix(rt.match, q.path)]
  BY DEF MatchIn
<1> HIDE DEF i, c
<1>4. i \in DOMAIN c.routes
  BY <1>2, <1>3
<1>5. RouteValid(c, rt) /\ \A u \in DOMAIN c.upstreams : c.upstreams[u] # <<>>
  BY <1>1, <1>4 DEF validate
<1>6. /\ rt.match.path # Absent => IsPath(rt.match.path)
      /\ rt.match.prefix # Absent => IsPath(rt.match.prefix)
      /\ (rt.filters # Absent /\ rt.filters.rewrite # Absent /\ rt.filters.rewrite.to # Absent)
            => IsPath(rt.filters.rewrite.to)
      /\ \A u \in DOMAIN c.upstreams : IsList(c.upstreams[u])
  BY <1>1, <1>4 DEF Parsed
<1> DEFINE u == rt.upstream
<1> DEFINE w == IF rt.filters = Absent THEN Absent ELSE rt.filters.rewrite
<1>7. u \in DOMAIN c.upstreams /\ ToSet(c.upstreams[u]) # {}
  <2>1. u \in DOMAIN c.upstreams /\ IsList(c.upstreams[u]) /\ c.upstreams[u] # <<>>
    BY <1>5, <1>6 DEF RouteValid
  <2>2. 1 \in DOMAIN c.upstreams[u]
    BY <2>1, LenProperties, EmptySeq DEF IsList
  <2> QED
    BY <2>1, <2>2 DEF ToSet
<1>8. IsPath(matched_path_prefix(rt.match, q.path))
  BY <1>6 DEF matched_path_prefix
<1>9. ASSUME w # Absent, w.to # Absent PROVE Absolute(w.to)
  <2>1. w = rt.filters.rewrite /\ rt.filters # Absent
    BY <1>9
  <2>2. validate_route_filters(rt.filters)
    BY <1>5, <2>1 DEF RouteValid
  <2>3. IsPath(w.to) /\ w.to # <<>> /\ Head(w.to) = "/"
    BY <1>6, <1>9, <2>1, <2>2 DEF validate_route_filters
  <2> QED
    BY <2>3, PathFacts DEF Absolute
<1> HIDE DEF u, w
<1>10. LET m == MatchIn(c, q)
       IN  m.upstream = u /\ m.rewrite = w /\ m.prefix = matched_path_prefix(rt.match, q.path)
  <2> DEFINE px == matched_path_prefix(rt.match, q.path)
  <2> DEFINE lb == IF rt.name = Absent THEN rt.upstream ELSE rt.name
  <2>1. MatchIn(c, q) = [label |-> lb, upstream |-> u, rewrite |-> w, prefix |-> px]
    BY <1>3 DEF u, w
  <2> HIDE DEF px, lb
  <2>2. MatchIn(c, q).upstream = u /\ MatchIn(c, q).rewrite = w /\ MatchIn(c, q).prefix = px
    BY <2>1
  <2> QED
    BY <2>2 DEF px
<1> QED
  BY <1>7, <1>8, <1>9, <1>10 DEF c

\* An absolute request that matched goes out under an absolute path.
LEMMA SentAbsolute ==
    ASSUME NEW v \in Versions, NEW q, Absolute(q.path), MatchIn(Configs[v], q) # Absent
    PROVE  LET m == MatchIn(Configs[v], q)
           IN  Absolute(rewrite_path_and_query(q.path, m.prefix, m.rewrite))
<1> DEFINE m == MatchIn(Configs[v], q)
<1>1. IsPath(m.prefix) /\ ((m.rewrite # Absent /\ m.rewrite.to # Absent) => Absolute(m.rewrite.to))
  BY MatchParts DEF Absolute
<1> HIDE DEF m
<1>2. Absolute(rewrite_path_and_query(q.path, m.prefix, m.rewrite))
  BY <1>1, ReplacedPrefix DEF rewrite_path_and_query
<1> QED
  BY <1>2 DEF m

----------------------------------------------------------------------------
(* One configuration per request.                                          *)

\* A version both parts of which could be built.
Builds(v) == RouterBuilds(Configs[v]) /\ UpstreamsBuild(Configs[v])

(***************************************************************************)
(* The slots differ only between the two stores of a reload, and whatever  *)
(* a reload stores has been built.                                         *)
(***************************************************************************)
SlotInv ==
    /\ tried \in Versions /\ router \in 0 .. tried /\ upstreams \in 0 .. tried
    /\ rpc \in {"idle", "built", "half"}
    /\ Builds(router)
    /\ rpc # "half" => router = upstreams
    /\ rpc # "idle" => Builds(tried)
    /\ rpc = "half" => router = tried

\* A request that has not been given anything yet.
Untouched(x) == x.status = 0 /\ x.peer = Absent /\ x.sent = Absent

\* Between the filter and the log the request may load a slot.
Loading(x) == x.pc \in {"peer", "connect", "sent"}

(***************************************************************************)
(* A request that may still load a slot, with no slot stored since its     *)
(* match, has been served by the configuration that is in both slots; one  *)
(* that may not, by some version that was built.                           *)
(***************************************************************************)
ServedSoFar(r) ==
    /\ req[r].pc \in {"none", "filter"} => Untouched(req[r])
    /\ Loading(req[r]) /\ r \notin overlapped =>
         /\ rpc # "half"
         /\ req[r].ask \in Asked /\ req[r].status = 0
         /\ req[r].pc # "peer" => req[r].match # Absent
         /\ ServedBy(Configs[router], req[r])
    /\ req[r].pc = "log" /\ r \notin overlapped /\ req[r].status # 421 =>
         \E v \in 0 .. tried : Builds(v) /\ ServedBy(Configs[v], req[r])

ServedInv ==
    /\ Shape /\ SlotInv
    /\ \A r \in Requests : req[r].pc \in {"none", "filter", "log"} \/ Loading(req[r])
    /\ \A r \in Requests : ServedSoFar(r)

\* A step of one request concerns no other.
LEMMA ServedStep ==
    ASSUME ServedInv, NEW r \in Requests, NEW y, IsRequest(y), Updates(req, req', r, y),
           UNCHANGED slots, \A x \in Requests : x # r => (x \in overlapped' <=> x \in overlapped),
           y.pc \in {"none", "filter", "log", "peer", "connect", "sent"}, ServedSoFar(r)'
    PROVE  ServedInv'
<1>1. Shape'
  BY UpdateShape DEF ServedInv
<1>2. UNCHANGED <<router, upstreams, tried, rpc>>
  BY DEF slots
<1>3. SlotInv'
  BY <1>2 DEF ServedInv, SlotInv, Builds
<1>4. req'[r] = y /\ \A x \in Requests : x # r => req'[x] = req[x]
  BY DEF Updates
<1>5. \A x \in Requests : req'[x].pc \in {"none", "filter", "log"} \/ Loading(req'[x])
  BY <1>4 DEF ServedInv, Loading
<1>6. ASSUME NEW x \in Requests PROVE ServedSoFar(x)'
  <2>1. CASE x = r
    BY <2>1
  <2>2. CASE x # r
    <3>1. req'[x] = req[x] /\ (x \in overlapped' <=> x \in overlapped) /\ ServedSoFar(x)
      BY <1>4, <2>2 DEF ServedInv
    <3> QED
      BY <1>2, <3>1 DEF ServedSoFar
  <2> QED
    BY <2>1, <2>2
<1> QED
  BY <1>1, <1>3, <1>5, <1>6 DEF ServedInv, Loading

\* The stores of a reload leave no request behind that could load both slots.
LEMMA ServedReload ==
    ASSUME ServedInv, Reload \/ StoreRouter \/ StoreUpstreams
    PROVE  ServedInv'
<1>1. UNCHANGED req
  BY DEF Reload, StoreRouter, StoreUpstreams
<1>2. SlotInv'
  <2> USE HttpProxyAssumption DEF ServedInv, SlotInv, Versions
  <2>1. CASE Reload
    <3>1. tried' = tried + 1 /\ tried' \in Versions /\ UNCHANGED <<router, upstreams>> /\ rpc = "idle"
      BY <2>1 DEF Reload
    <3>2. rpc' = IF Builds(tried') THEN "built" ELSE "idle"
      BY <2>1 DEF Reload, Builds
    <3> QED
      BY <3>1, <3>2 DEF Builds
  <2>2. CASE StoreRouter
    BY <2>2 DEF StoreRouter, Builds
  <2>3. CASE StoreUpstreams
    BY <2>3 DEF StoreUpstreams, Builds
  <2> QED
    BY <2>1, <2>2, <2>3
<1>3. ASSUME NEW r \in Requests PROVE ServedSoFar(r)'
  <2>1. ServedSoFar(r)
    BY DEF ServedInv
  <2>2. tried \in Nat /\ tried' \in Nat /\ tried <= tried'
    BY <1>2, HttpProxyAssumption DEF ServedInv, SlotInv, Versions, Reload, StoreRouter, StoreUpstreams
  <2>3. overlapped \subseteq overlapped'
    BY DEF Reload, StoreRouter, StoreUpstreams, Overlap
  <2>4. ASSUME req'[r].pc = "log" /\ r \notin overlapped' /\ req'[r].status # 421
        PROVE  \E v \in 0 .. tried' : Builds(v) /\ ServedBy(Configs[v], req'[r])
    <3>1. PICK v \in 0 .. tried : Builds(v) /\ ServedBy(Configs[v], req[r])
      BY <1>1, <2>1, <2>3, <2>4 DEF ServedSoFar
    <3>2. v \in 0 .. tried'
      BY <2>2, <3>1
    <3> QED
      BY <1>1, <3>1, <3>2
  <2>5. CASE Reload
    <3>1. UNCHANGED <<router, overlapped>> /\ rpc' # "half"
      BY <2>5 DEF Reload
    <3> QED
      BY <1>1, <2>1, <2>4, <3>1 DEF ServedSoFar, Builds
  <2>6. CASE StoreRouter \/ StoreUpstreams
    <3>1. Loading(req[r]) => r \in overlapped'
      BY <2>6 DEF StoreRouter, StoreUpstreams, Overlap, Loading
    <3> QED
      BY <1>1, <2>1, <2>4, <3>1 DEF ServedSoFar, Builds, Loading
  <2> QED
    BY <2>5, <2>6
<1> QED
  BY <1>1, <1>2, <1>3 DEF ServedInv, Shape, Loading

\* A new request, one for another server and one that is over.
LEMMA ServedOutside ==
    ASSUME ServedInv, NEW r \in Requests, NewCtx(r) \/ Misdirected(r) \/ Logging(r)
    PROVE  ServedInv'
<1>s. Shape
  BY DEF ServedInv
<1>1. CASE NewCtx(r)
  <2> DEFINE y == [NoRequest EXCEPT !.pc = "filter"]
  <2>1. Updates(req, req', r, y)
    BY <1>1, <1>s, NewCtxStep
  <2>2. IsRequest(y) /\ y.pc = "filter" /\ Untouched(y)
    BY EmptyRequest DEF Untouched
  <2> HIDE DEF y
  <2>3. UNCHANGED slots /\ overlapped' = overlapped \ {r}
    BY <1>1 DEF NewCtx
  <2>4. ServedSoFar(r)'
    BY <2>1, <2>2 DEF ServedSoFar, Updates, Loading, Untouched
  <2> QED
    BY <2>1, <2>2, <2>3, <2>4, ServedStep
<1>2. CASE Misdirected(r)
  <2>1. PICK q \in Asked : Updates(req, req', r,
               [pc |-> "log", ask |-> q, match |-> req[r].match, timed |-> req[r].timed,
                peer |-> req[r].peer, sent |-> req[r].sent, status |-> 421])
    BY <1>2, <1>s, MisdirectedStep
  <2> DEFINE y == [pc |-> "log", ask |-> q, match |-> req[r].match, timed |-> req[r].timed,
                   peer |-> req[r].peer, sent |-> req[r].sent, status |-> 421]
  <2>2. Updates(req, req', r, y) /\ IsRequest(y) /\ y.pc = "log" /\ y.status = 421
    BY <2>1, MadeRequest
  <2> HIDE DEF y
  <2>3. UNCHANGED <<slots, overlapped>>
    BY <1>2 DEF Misdirected
  <2>4. ServedSoFar(r)'
    BY <2>2 DEF ServedSoFar, Updates, Loading
  <2> QED
    BY <2>2, <2>3, <2>4, ServedStep
<1>3. CASE Logging(r)
  <2>1. Updates(req, req', r, NoRequest)
    BY <1>3, <1>s, LoggingStep
  <2>2. IsRequest(NoRequest) /\ NoRequest.pc = "none" /\ Untouched(NoRequest)
    BY EmptyRequest DEF Untouched, NoRequest
  <2>3. UNCHANGED <<slots, overlapped>>
    BY <1>3 DEF Logging
  <2>4. ServedSoFar(r)'
    BY <2>1, <2>2 DEF ServedSoFar, Updates, Loading, Untouched
  <2> QED
    BY <2>1, <2>2, <2>3, <2>4, ServedStep
<1> QED
  BY <1>1, <1>2, <1>3

\* The filter begins the service by the configuration in the router slot.
LEMMA ServedFilter ==
    ASSUME ServedInv, NEW r \in Requests, RequestFilter(r)
    PROVE  ServedInv'
<1>1. PICK q \in Asked : Updates(req, req', r,
             [pc |-> "peer", ask |-> q, match |-> MatchIn(Configs[router], q), timed |-> req[r].timed,
              peer |-> req[r].peer, sent |-> req[r].sent, status |-> req[r].status])
  BY RequestFilterStep DEF ServedInv
<1> DEFINE m == MatchIn(Configs[router], q)
<1> DEFINE y == [pc |-> "peer", ask |-> q, match |-> m, timed |-> req[r].timed,
                 peer |-> req[r].peer, sent |-> req[r].sent, status |-> req[r].status]
<1>2. Updates(req, req', r, y)
  BY <1>1
<1>3. Untouched(req[r])
  BY DEF RequestFilter, ServedInv, ServedSoFar
<1> HIDE DEF m
<1>4. IsRequest(y) /\ y.pc = "peer" /\ y.ask = q /\ y.match = m /\ Untouched(y)
  BY <1>3, MadeRequest DEF Untouched
<1> HIDE DEF y
<1>5. /\ UNCHANGED slots
      /\ overlapped' = IF rpc = "half" THEN overlapped \cup {r} ELSE overlapped
  BY DEF RequestFilter
<1>6. ServedBy(Configs[router], y)
  BY <1>4 DEF ServedBy, Untouched, m
<1>7. ServedSoFar(r)'
  <2>1. req'[r] = y /\ router' = router /\ rpc' = rpc
    BY <1>2, <1>5 DEF Updates, slots
  <2> QED
    BY <1>4, <1>5, <1>6, <2>1 DEF ServedSoFar, Loading, Untouched
<1> QED
  BY <1>2, <1>4, <1>5, <1>7, ServedStep

\* While it may load a slot, a request is at one of three places.
LEMMA ServedLoading ==
    ASSUME ServedInv, NEW r \in Requests, r \notin overlapped, Loading(req[r])
    PROVE  /\ rpc # "half" /\ router = upstreams /\ router \in Versions /\ router \in 0 .. tried
           /\ Builds(router)
           /\ req[r].ask \in Asked /\ req[r].status = 0 /\ ServedBy(Configs[router], req[r])
           /\ req[r].match = MatchIn(Configs[router], req[r].ask)
           /\ req[r].pc # "peer" => req[r].match # Absent
<1>1. /\ rpc # "half" /\ req[r].ask \in Asked /\ req[r].status = 0 /\ ServedBy(Configs[router], req[r])
      /\ req[r].pc # "peer" => req[r].match # Absent
  BY DEF ServedInv, ServedSoFar
<1>2. router = upstreams /\ router \in Versions /\ router \in 0 .. tried /\ Builds(router)
  BY <1>1, HttpProxyAssumption DEF ServedInv, SlotInv, Versions
<1>3. req[r].match = MatchIn(Configs[router], req[r].ask)
  BY <1>1 DEF ServedBy
<1> QED
  BY <1>1, <1>2, <1>3

\* A request that matched finds a backend, and one of its own upstream.
LEMMA PeerFound ==
    ASSUME ServedInv, NEW r \in Requests, r \notin overlapped, Loading(req[r]), req[r].match # Absent
    PROVE  /\ select_peer(r) = ToSet(Configs[router].upstreams[req[r].match.upstream])
           /\ select_peer(r) # {}
<1>1. /\ router = upstreams /\ router \in Versions /\ req[r].ask \in Asked
      /\ req[r].match = MatchIn(Configs[router], req[r].ask)
  BY ServedLoading
<1>2. IsPath(req[r].ask.path)
  BY <1>1, HttpProxyAssumption
<1>3. /\ req[r].match.upstream \in DOMAIN Configs[router].upstreams
      /\ ToSet(Configs[router].upstreams[req[r].match.upstream]) # {}
  BY <1>1, <1>2, MatchParts
<1> QED
  BY <1>1, <1>3 DEF select_peer

\* The request ends, with an answer other than 421.
LEMMA ServedEnd ==
    ASSUME ServedInv, NEW r \in Requests, NoRoute(r) \/ NoPeer(r) \/ SendFails(r) \/ Respond(r)
    PROVE  ServedInv'
<1>1. PICK st \in {200, 404, 500, 502, 503} :
        /\ Updates(req, req', r,
             [pc |-> "log", ask |-> req[r].ask, match |-> req[r].match, timed |-> req[r].timed,
              peer |-> req[r].peer, sent |-> req[r].sent, status |-> st])
        /\ st = 404 => req[r].match = Absent
        /\ st = 503 => NoPeer(r)
  <2>1. Shape
    BY DEF ServedInv
  <2>2. CASE NoRoute(r)
    <3>1. req[r].match = Absent
      BY <2>2 DEF NoRoute
    <3> QED
      BY <2>1, <2>2, <3>1, NoRouteStep
  <2>3. CASE NoPeer(r)
    BY <2>1, <2>3, NoPeerStep
  <2>4. CASE SendFails(r)
    BY <2>1, <2>4, SendFailsStep
  <2>5. CASE Respond(r)
    BY <2>1, <2>5, RespondStep
  <2> QED
    BY <2>2, <2>3, <2>4, <2>5
<1> DEFINE y == [pc |-> "log", ask |-> req[r].ask, match |-> req[r].match, timed |-> req[r].timed,
                 peer |-> req[r].peer, sent |-> req[r].sent, status |-> st]
<1>2. /\ Updates(req, req', r, y) /\ IsRequest(y) /\ y.pc = "log" /\ y.status = st /\ y.ask = req[r].ask
      /\ y.match = req[r].match /\ y.peer = req[r].peer /\ y.sent = req[r].sent
  BY <1>1, MadeRequest
<1> HIDE DEF y
<1>3. UNCHANGED <<slots, overlapped>> /\ Loading(req[r])
  BY DEF NoRoute, NoPeer, SendFails, Respond, Loading
<1>4. ASSUME r \notin overlapped PROVE \E v \in 0 .. tried : Builds(v) /\ ServedBy(Configs[v], y)
  <2>1. router \in 0 .. tried /\ Builds(router) /\ ServedBy(Configs[router], req[r])
        /\ req[r].match = MatchIn(Configs[router], req[r].ask)
    BY <1>3, <1>4, ServedLoading
  <2>2. st # 503
    BY <1>1, <1>3, <1>4, PeerFound DEF NoPeer
  <2>3. ServedBy(Configs[router], y)
    BY <1>1, <1>2, <2>1, <2>2 DEF ServedBy
  <2> QED
    BY <2>1, <2>3
<1>5. ServedSoFar(r)'
  <2>1. req'[r] = y /\ tried' = tried /\ overlapped' = overlapped
    BY <1>2, <1>3 DEF Updates, slots
  <2> QED
    BY <1>2, <1>4, <2>1 DEF ServedSoFar, Loading, Builds
<1> QED
  BY <1>2, <1>3, <1>5, ServedStep

\* A backend is chosen, the path rewritten, the request tried again.
LEMMA ServedOnTheWay ==
    ASSUME ServedInv, \A q \in Asked : Absolute(q.path),
           NEW r \in Requests, UpstreamPeer(r) \/ UpstreamRequestFilter(r) \/ Retry(r)
    PROVE  ServedInv'
<1>s. Shape
  BY DEF ServedInv
<1>1. UNCHANGED <<slots, overlapped>> /\ Loading(req[r])
  BY DEF UpstreamPeer, UpstreamRequestFilter, Retry, Loading
<1>2. ASSUME NEW y, IsRequest(y), Updates(req, req', r, y), Loading(y), y.ask = req[r].ask,
             y.status = req[r].status,
             r \notin overlapped => /\ y.pc # "peer" => y.match # Absent
                                    /\ ServedBy(Configs[router], y)
      PROVE  ServedInv'
  <2>1. req'[r] = y /\ router' = router /\ rpc' = rpc /\ overlapped' = overlapped
    BY <1>1, <1>2 DEF Updates, slots
  <2>2. r \notin overlapped => rpc # "half" /\ req[r].ask \in Asked /\ req[r].status = 0
    BY <1>1, ServedLoading
  <2>3. ServedSoFar(r)'
    BY <1>2, <2>1, <2>2 DEF ServedSoFar, Loading
  <2> QED
    BY <1>1, <1>2, <2>3, ServedStep DEF Loading
<1>3. CASE UpstreamPeer(r)
  <2>1. PICK b \in select_peer(r) : Updates(req, req', r,
               [pc |-> "connect", ask |-> req[r].ask, match |-> req[r].match, timed |-> TRUE,
                peer |-> b, sent |-> req[r].sent, status |-> req[r].status])
    BY <1>3, <1>s, UpstreamPeerStep
  <2> DEFINE t == TRUE
  <2> DEFINE y == [pc |-> "connect", ask |-> req[r].ask, match |-> req[r].match, timed |-> t,
                   peer |-> b, sent |-> req[r].sent, status |-> req[r].status]
  <2>2. Updates(req, req', r, y)
    BY <2>1
  <2> HIDE DEF t
  <2>3. /\ IsRequest(y) /\ y.pc = "connect" /\ y.ask = req[r].ask /\ y.match = req[r].match
        /\ y.peer = b /\ y.sent = req[r].sent /\ y.status = req[r].status
    BY MadeRequest
  <2> HIDE DEF y
  <2>4. req[r].match # Absent
    BY <1>3 DEF UpstreamPeer
  <2>5. ASSUME r \notin overlapped PROVE ServedBy(Configs[router], y)
    <3>1. ServedBy(Configs[router], req[r]) /\ req[r].match = MatchIn(Configs[router], req[r].ask)
      BY <1>1, <2>5, ServedLoading
    <3>2. b \in ToSet(Configs[router].upstreams[req[r].match.upstream])
      BY <1>1, <2>1, <2>4, <2>5, PeerFound
    <3> QED
      BY <2>3, <2>4, <3>1, <3>2 DEF ServedBy
  <2> QED
    BY <1>2, <2>2, <2>3, <2>4, <2>5 DEF Loading
<1>4. CASE UpstreamRequestFilter(r)
  <2> DEFINE w == Rewritten(req[r])
  <2> DEFINE y == [pc |-> "sent", ask |-> req[r].ask, match |-> req[r].match, timed |-> req[r].timed,
                   peer |-> req[r].peer, sent |-> w, status |-> req[r].status]
  <2>1. Updates(req, req', r, y)
    BY <1>4, <1>s, UpstreamRequestFilterStep
  <2> HIDE DEF w
  <2>2. /\ IsRequest(y) /\ y.pc = "sent" /\ y.ask = req[r].ask /\ y.match = req[r].match
        /\ y.peer = req[r].peer /\ y.sent = w /\ y.status = req[r].status
    BY MadeRequest
  <2> HIDE DEF y
  <2>3. ASSUME r \notin overlapped PROVE req[r].match # Absent /\ ServedBy(Configs[router], y)
    <3>1. /\ ServedBy(Configs[router], req[r]) /\ req[r].match = MatchIn(Configs[router], req[r].ask)
          /\ router \in Versions /\ req[r].ask \in Asked /\ req[r].match # Absent
      BY <1>1, <1>4, <2>3, ServedLoading DEF UpstreamRequestFilter
    <3>2. Absolute(w)
      BY <3>1, SentAbsolute DEF w, Rewritten
    <3>3. Head(w) = "/"
      BY <3>2, PathFacts DEF Absolute
    <3> QED
      BY <2>2, <3>1, <3>3 DEF ServedBy, w, Rewritten
  <2> QED
    BY <1>2, <2>1, <2>2, <2>3 DEF Loading
<1>5. CASE Retry(r)
  <2> DEFINE y == [pc |-> "peer", ask |-> req[r].ask, match |-> req[r].match, timed |-> req[r].timed,
                   peer |-> req[r].peer, sent |-> req[r].sent, status |-> req[r].status]
  <2>1. Updates(req, req', r, y)
    BY <1>5, <1>s, RetryStep
  <2>2. /\ IsRequest(y) /\ y.pc = "peer" /\ y.ask = req[r].ask /\ y.match = req[r].match
        /\ y.peer = req[r].peer /\ y.sent = req[r].sent /\ y.status = req[r].status
    BY MadeRequest
  <2> HIDE DEF y
  <2>3. r \notin overlapped => ServedBy(Configs[router], y)
    BY <1>1, <2>2, ServedLoading DEF ServedBy
  <2> QED
    BY <1>2, <2>1, <2>2, <2>3 DEF Loading
<1> QED
  BY <1>3, <1>4, <1>5

\* The invariant holds at the start.
LEMMA ServedInit == Init => ServedInv
<1> SUFFICES ASSUME Init PROVE ServedInv
  OBVIOUS
<1>1. Shape /\ \A r \in Requests : req[r] = NoRequest
  BY EmptyRequest DEF Init, Shape
<1>2. SlotInv
  BY HttpProxyAssumption DEF Init, SlotInv, Versions, Builds
<1>3. NoRequest.pc = "none" /\ Untouched(NoRequest)
  BY EmptyRequest DEF Untouched, NoRequest
<1> QED
  BY <1>1, <1>2, <1>3 DEF ServedInv, ServedSoFar, Loading

(***************************************************************************)
(* proxy.rs, apply_reload and the callbacks: a request during which no     *)
(* slot is stored is served by one configuration that could be built, by   *)
(* the first route of it that matches and a backend of that route's        *)
(* upstream, under an absolute path that is the same however often it is   *)
(* retried, and is never refused for want of an upstream.  Requests are    *)
(* taken to name absolute paths, as all but OPTIONS * and CONNECT do.      *)
(***************************************************************************)
THEOREM QuietRequests ==
    ASSUME \A q \in Asked : q.path # <<>> /\ Head(q.path) = "/"
    PROVE  Spec => []QuietRequestsServedByOne
<1>1. \A q \in Asked : Absolute(q.path)
  BY HttpProxyAssumption, PathFacts DEF Absolute
<1>2. ServedInv /\ [Next]_vars => ServedInv'
  <2> SUFFICES ASSUME ServedInv, [Next]_vars PROVE ServedInv'
    OBVIOUS
  <2>1. CASE UNCHANGED vars
    <3>1. UNCHANGED <<router, upstreams, tried, rpc, req, overlapped>>
      BY <2>1 DEF vars
    <3> QED
      BY <3>1 DEF ServedInv, Shape, SlotInv, Builds, ServedSoFar, Loading, Untouched
  <2> QED
    BY <1>1, <2>1, ServedReload, ServedOutside, ServedFilter, ServedEnd, ServedOnTheWay DEF Next
<1>3. ServedInv => QuietRequestsServedByOne
  <2> SUFFICES ASSUME ServedInv, NEW r \in InFlight, r \notin overlapped,
                      req[r].pc \notin {"none", "filter"}, req[r].status # 421
               PROVE  \E v \in 0 .. tried : Builds(v) /\ ServedBy(Configs[v], req[r])
    BY DEF QuietRequestsServedByOne, Builds
  <2>1. r \in Requests
    BY FlightSlots
  <2>2. CASE req[r].pc = "log"
    BY <2>1, <2>2 DEF ServedInv, ServedSoFar
  <2>3. CASE Loading(req[r])
    BY <2>1, <2>3, ServedLoading
  <2> QED
    BY <2>1, <2>2, <2>3 DEF ServedInv
<1> QED
  BY <1>2, <1>3, ServedInit, PTL DEF Spec

----------------------------------------------------------------------------
(***************************************************************************)
(* The configuration watcher, whose reloads are HttpProxy's Reload, for    *)
(* any set of streams, any contents an edit may write and any number of    *)
(* edits and restarts.                                                     *)
(***************************************************************************)

(***************************************************************************)
(* The types of the constants.                                             *)
(***************************************************************************)
LEMMA WatcherConstants ==
    /\ Contents \subseteq ContentType
    /\ InitContent \in ContentType
    /\ EditsAtBoot \in BOOLEAN
    /\ MaxEdits \in Nat
    /\ MaxRestarts \in Nat
  BY ConfigReloadAssumption

(***************************************************************************)
(* One step of the watcher, of the operator or of the process keeps every  *)
(* variable in its type.                                                   *)
(***************************************************************************)
LEMMA WatcherTypeNext == WatcherTypeOK /\ [WatcherNext]_watcherVars => WatcherTypeOK'
<1> SUFFICES ASSUME WatcherTypeOK, [WatcherNext]_watcherVars PROVE WatcherTypeOK'
  OBVIOUS
<1> USE WatcherConstants DEF WatcherTypeOK, Files, FileVersions
<1>1. CASE Edit
  BY <1>1 DEF Edit
<1>2. CASE Start
  BY <1>2 DEF Start
<1>3. CASE Watch \/ Poll
  BY <1>3 DEF Watch, Poll
<1>4. CASE Load
  BY <1>4 DEF Load
<1>5. CASE ReloadHttp
  BY <1>5 DEF ReloadHttp
<1>6. CASE ReloadStream
  <2>1. PICK s \in todo :
          /\ todo' = todo \ {s}
          /\ stream' = [stream EXCEPT ![s] = IF s \in new.content.bad THEN @ ELSE new.version]
    BY <1>6 DEF ReloadStream
  <2> QED
    BY <1>6, <2>1 DEF ReloadStream
<1>7. CASE Remember
  BY <1>7 DEF Remember
<1>8. CASE Stop
  BY <1>8 DEF Stop
<1>9. CASE UNCHANGED watcherVars
  BY <1>9 DEF watcherVars
<1> QED
  BY <1>1, <1>2, <1>3, <1>4, <1>5, <1>6, <1>7, <1>8, <1>9 DEF WatcherNext, WatcherStep

(***************************************************************************)
(* main.rs: every variable of the watcher keeps its type; the versions in  *)
(* use are always versions the file has had.                               *)
(***************************************************************************)
THEOREM WatcherTypeCorrect == WatcherSpec => []WatcherTypeOK
<1>1. WatcherInit => WatcherTypeOK
  BY WatcherConstants DEF WatcherInit, WatcherTypeOK, Files, FileVersions
<1> QED
  BY <1>1, WatcherTypeNext, PTL DEF WatcherSpec

-----------------------------------------------------------------------------
(***************************************************************************)
(* A version names one content, as a modification time is taken to do: no  *)
(* copy the process holds is ahead of the file, and one that is as new as  *)
(* the file is the file.                                                   *)
(***************************************************************************)
CopiesBehind ==
    /\ seen <= file.version
    /\ current <= file.version
    /\ new.version <= file.version
    /\ new.version = file.version => new = file

(***************************************************************************)
(* Before the watcher runs, the file is the one the process was built      *)
(* from.  This is where an edit during the start would break in.           *)
(***************************************************************************)
BootIsFresh ==
    pc = "boot" =>
        /\ booted = file
        /\ http = file.version
        /\ \A s \in Streams : stream[s] = file.version

(***************************************************************************)
(* A poll that has found a change has not noted it yet: last_modified      *)
(* stays behind the file until the reload is over.                         *)
(***************************************************************************)
ChangePending ==
    pc \in {"load", "http", "streams"} => seen < file.version

(***************************************************************************)
(* What is being applied is no older than the time about to be noted, and  *)
(* what the reload has come to so far runs it, unless it was refused.      *)
(***************************************************************************)
ReloadSoFar ==
    /\ pc \in {"http", "streams"} => current <= new.version
    /\ pc = "streams" =>
         /\ new.content.http => http = new.version
         /\ new.content.listeners = booted.content.listeners =>
              \A s \in Streams \ todo : s \notin new.content.bad => stream[s] = new.version

WatcherInv ==
    /\ WatcherTypeOK
    /\ CopiesBehind
    /\ BootIsFresh
    /\ ChangePending
    /\ ReloadSoFar
    /\ RestsOnlyWhenApplied

(***************************************************************************)
(* If the file is not edited while the process starts, the invariant holds *)
(* of every step.                                                          *)
(***************************************************************************)
LEMMA WatcherInvNext == ASSUME EditsAtBoot = FALSE PROVE WatcherInv /\ [WatcherNext]_watcherVars => WatcherInv'
<1> SUFFICES ASSUME WatcherInv, [WatcherNext]_watcherVars PROVE WatcherInv'
  OBVIOUS
<1>t. WatcherTypeOK'
  BY WatcherTypeNext DEF WatcherInv
<1> USE <1>t, WatcherConstants DEF WatcherInv, WatcherTypeOK, Files, FileVersions, CopiesBehind, BootIsFresh,
         ChangePending,
        ReloadSoFar, RestsOnlyWhenApplied, Applied
<1>1. CASE Edit
  <2>1. file'.version = file.version + 1 /\ file.version \in Nat /\ pc # "boot"
    BY <1>1 DEF Edit
  <2> QED
    BY <1>1, <2>1 DEF Edit
<1>2. CASE Start
  BY <1>2 DEF Start
<1>3. CASE Watch
  BY <1>3 DEF Watch
<1>4. CASE Poll
  BY <1>4 DEF Poll
<1>5. CASE Load
  BY <1>5 DEF Load
<1>6. CASE ReloadHttp
  BY <1>6 DEF ReloadHttp, listener_set_changed
<1>7. CASE ReloadStream
  <2>1. PICK s \in todo :
          /\ todo' = todo \ {s}
          /\ stream' = [stream EXCEPT ![s] = IF s \in new.content.bad THEN @ ELSE new.version]
    BY <1>7 DEF ReloadStream
  <2> QED
    BY <1>7, <2>1 DEF ReloadStream
<1>8. CASE Remember
  <2>1. current = file.version => new = file
    BY <1>8 DEF Remember
  <2> QED
    BY <1>8, <2>1 DEF Remember, Acceptable
<1>9. CASE Stop
  BY <1>9 DEF Stop
<1>10. CASE UNCHANGED watcherVars
  BY <1>10 DEF watcherVars
<1> QED
  BY <1>1, <1>2, <1>3, <1>4, <1>5, <1>6, <1>7, <1>8, <1>9, <1>10 DEF WatcherNext, WatcherStep

(***************************************************************************)
(* main.rs, the watcher task: it never rests on a stale configuration.     *)
(* However edits fall between the look at the file's time, its reading and *)
(* the reload of the HTTP proxy and of each stream, between two polls an   *)
(* acceptable file whose time has been noted is what runs.  The start is   *)
(* excepted: last_modified is first taken after the file has been loaded,  *)
(* so an edit between the two is never seen.                               *)
(***************************************************************************)
THEOREM NeverRestsStale ==
    ASSUME EditsAtBoot = FALSE
    PROVE  WatcherSpec => []RestsOnlyWhenApplied
<1>1. WatcherInit => WatcherInv
  BY WatcherConstants DEF WatcherInit, WatcherInv, WatcherTypeOK, Files, FileVersions, CopiesBehind,
         BootIsFresh, ChangePending,
     ReloadSoFar, RestsOnlyWhenApplied
<1>2. WatcherInv => RestsOnlyWhenApplied
  BY DEF WatcherInv
<1> QED
  BY <1>1, <1>2, WatcherInvNext, PTL DEF WatcherSpec

-----------------------------------------------------------------------------
(***************************************************************************)
(* Streams wait for a reload only if the loaded file has the listeners the *)
(* process is bound to.                                                    *)
(***************************************************************************)
TodoMatches ==
    /\ pc # "streams" => todo = {}
    /\ todo # {} => new.content.listeners = booted.content.listeners

(***************************************************************************)
(* main.rs, listener_set_changed: a running stream never takes up routes   *)
(* of a configuration with other listeners than the ones bound, whenever   *)
(* the file is edited and the process restarted.                           *)
(***************************************************************************)
THEOREM StreamsKeepListeners == WatcherSpec => StreamsMatchListeners
<1> DEFINE A == \A s \in Streams :
                   stream'[s] # stream[s] => new'.content.listeners = booted'.content.listeners
                                             \/ pc' = "boot"
<1>1. WatcherInit => WatcherTypeOK /\ TodoMatches
  BY WatcherConstants DEF WatcherInit, WatcherTypeOK, Files, FileVersions, TodoMatches
<1>2. WatcherTypeOK /\ TodoMatches /\ [WatcherNext]_watcherVars => TodoMatches'
  BY DEF WatcherTypeOK, TodoMatches, watcherVars, WatcherNext, WatcherStep, Edit, Start, Watch, Poll, Load,
         ReloadHttp,
         listener_set_changed, ReloadStream, Remember, Stop
<1>3. WatcherTypeOK /\ TodoMatches /\ [WatcherNext]_watcherVars => [A]_watcherVars
  BY DEF WatcherTypeOK, TodoMatches, watcherVars, WatcherNext, WatcherStep, Edit, Start, Watch, Poll, Load,
         ReloadHttp,
         ReloadStream, Remember, Stop
<1>4. WatcherTypeOK /\ TodoMatches /\ [WatcherNext]_watcherVars => WatcherTypeOK' /\ TodoMatches'
  BY <1>2, WatcherTypeNext
<1> QED
  BY <1>1, <1>3, <1>4, PTL DEF WatcherSpec, StreamsMatchListeners
============================================================================
