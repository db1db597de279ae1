---------------------------- MODULE Views_proofs ----------------------------
(***************************************************************************)
(* What the TUI shows of a cluster: the verdict of the header has its      *)
(* evidence, a view shows what was read for it, and no request or stream   *)
(* is left behind, in every reachable state and for any cluster.           *)
(***************************************************************************)
EXTENDS ClusterHealth, ViewRequests, SequenceTheorems, TLAPS

-----------------------------------------------------------------------------
(* The health of a cluster: the invariant *)

Sources  == {"nodes", "services", "etcd", "status"}
Services == {"well", "bad", "unread"}
NodeRows == [machine : {"ready", "down", "unread"}, services : Services,
             version : BOOLEAN, problem : BOOLEAN]

\* A row for each of some nodes.
RowsOf(values) == UNION {[listed -> values] : listed \in SUBSET Host}

ReadTyped ==
    /\ observing \in [stage : {"none", "members", "inspect"}, initial : BOOLEAN,
                      rows : RowsOf(NodeRows), seen : RowsOf(Services \cup {"none"})]
    /\ asked \in SUBSET Host /\ context \in Nat

\* A row without a problem is not filled in yet, or holds an answer of each read.
Sound(row) ==
    \/ row = LoadingRow
    \/ ~row.problem => row.machine # "unread" /\ row.services # "unread" /\ row.version

\* The row of a node and the services that were observed of it agree.
AsSeen(row, seen) == row.services = IF seen = "none" THEN "unread" ELSE seen

ReadSound ==
    /\ DOMAIN observing.seen = DOMAIN observing.rows
    /\ \A h \in DOMAIN observing.rows :
          Sound(observing.rows[h]) /\ AsSeen(observing.rows[h], observing.seen[h])

\* Only the first read of a session publishes its progress, and nothing is
\* known of the services before that read is answered or replaced.
FirstReads ==
    /\ opened = "opening" => ~Answered /\ observing = NoRead
    /\ observing.initial => ~Answered

\* What the answers left behind.
NodesStored ==
    /\ cluster["nodes"].status \in {"loading", "ready", "partial", "failed"}
    /\ cluster["nodes"].rows \in RowsOf(NodeRows)
    /\ \A h \in DOMAIN cluster["nodes"].rows : Sound(cluster["nodes"].rows[h])
    /\ cluster["nodes"].status = "ready" /\ Answered => Complete(cluster["nodes"].rows)

OthersStored ==
    /\ DOMAIN cluster = Sources
    /\ cluster["services"].rows \in RowsOf(Services)
    /\ cluster["status"] \in [status : {"loading", "ready", "partial", "failed"},
                              rows : RowsOf(NodeStatus), of : Nat]

\* The two lists do not contradict each other.
ListsAgree ==
    Known("services") =>
        \A h \in DOMAIN cluster["nodes"].rows \cap DOMAIN cluster["services"].rows :
            "unread" \in {cluster["nodes"].rows[h].services, cluster["services"].rows[h]}
            \/ cluster["nodes"].rows[h].services = cluster["services"].rows[h]

HealthInv ==
    ReadTyped /\ ReadSound /\ FirstReads /\ NodesStored /\ OthersStored /\ ListsAgree

-----------------------------------------------------------------------------
(* Lemmas on rows *)

\* No row at all is a row for each of no nodes.
LEMMA NothingIsRows ==
    ASSUME NEW V
    PROVE  Nothing \in RowsOf(V) /\ DOMAIN Nothing = {}
<1>1. DOMAIN Nothing = {}
  BY DEF Nothing
<1>2. Nothing \in [{} -> V]
  BY DEF Nothing
<1>3. QED
  BY <1>1, <1>2 DEF RowsOf

LEMMA RowsAreFunctions ==
    ASSUME NEW V, NEW rows \in RowsOf(V)
    PROVE  DOMAIN rows \in SUBSET Host /\ rows \in [DOMAIN rows -> V]
  BY DEF RowsOf

LEMMA FunctionsAreRows ==
    ASSUME NEW V, NEW listed \in SUBSET Host, NEW rows \in [listed -> V]
    PROVE  rows \in RowsOf(V)
  BY DEF RowsOf

LEMMA EmptyIsRow == LoadingRow \in NodeRows /\ Sound(LoadingRow)
  BY DEF LoadingRow, NodeRows, Services, Sound

\* What inspectNode fills in is sound, wherever the deadline cut it off.
LEMMA InspectedIsSound ==
    ASSUME NEW machine \in {"ready", "down", "unread"}, NEW services \in Services,
           NEW version \in BOOLEAN, NEW cut \in BOOLEAN
    PROVE  /\ Inspected(machine, services, version, cut) \in NodeRows
           /\ Sound(Inspected(machine, services, version, cut))
           /\ Inspected(machine, services, version, cut).services = services
<1>1. PICK problem \in BOOLEAN :
         problem = (cut \/ machine = "unread" \/ services = "unread" \/ ~version)
  OBVIOUS
<1>2. Inspected(machine, services, version, cut) =
         [machine |-> machine, services |-> services, version |-> version, problem |-> problem]
  BY <1>1 DEF Inspected
<1>3. PICK row : row = [machine |-> machine, services |-> services, version |-> version,
                        problem |-> problem]
  OBVIOUS
<1>4. row \in NodeRows /\ row.services = services
  BY <1>3 DEF NodeRows
<1>5. ~row.problem => row.machine # "unread" /\ row.services # "unread" /\ row.version
  BY <1>1, <1>3
<1>6. QED
  BY <1>2, <1>3, <1>4, <1>5 DEF Sound

\* The answer of the read of nodes and services, whole or cut short.
LEMMA NodesLoadedKeeps ==
    ASSUME HealthInv, opened # "opening",
           NEW rows \in RowsOf(NodeRows), NEW services \in RowsOf(Services),
           NEW failed \in BOOLEAN, NEW servicesFailed \in BOOLEAN,
           \A h \in DOMAIN rows : Sound(rows[h]),
           \A h \in DOMAIN rows \cap DOMAIN services :
               "unread" \in {rows[h].services, services[h]} \/ rows[h].services = services[h],
           NodesLoaded(rows, services, failed, servicesFailed)
    PROVE  HealthInv'
<1>1. PICK stored : stored = [status |-> IF failed /\ rows = Nothing THEN "failed"
                                         ELSE IF failed \/ ~Complete(rows) THEN "partial" ELSE "ready",
                              rows |-> rows, of |-> context]
  OBVIOUS
<1>2. PICK kept : kept = IF rows = Nothing THEN cluster["status"]
                         ELSE [cluster["status"] EXCEPT !.status = "loading"]
  OBVIOUS
<1>3. /\ cluster'["nodes"] = stored /\ cluster'["status"] = kept
      /\ cluster'["services"].rows = services
      /\ cluster'["services"].status \in {"failed", "partial", "ready"}
      /\ DOMAIN cluster' = Sources
  <2>1. PICK held : held =
               [status |-> IF failed /\ servicesFailed THEN "failed"
                           ELSE IF failed \/ ~(\A h \in DOMAIN services : services[h] # "unread")
                           THEN "partial" ELSE "ready",
                rows |-> services, of |-> context]
    OBVIOUS
  <2>2. cluster' = [cluster EXCEPT !["nodes"] = stored, !["services"] = held, !["status"] = kept]
    BY <1>1, <1>2, <2>1 DEF NodesLoaded
  <2>3. held.rows = services /\ held.status \in {"failed", "partial", "ready"}
    BY <2>1
  <2>4. DOMAIN cluster = Sources
    BY DEF HealthInv, OthersStored
  <2>5. QED
    BY <2>2, <2>3, <2>4 DEF Sources
<1>4. observing' = NoRead /\ opened' = opened /\ context' = context
      /\ asked' = IF rows = Nothing THEN asked ELSE DOMAIN rows
  BY DEF NodesLoaded
<1>5. kept \in [status : {"loading", "ready", "partial", "failed"},
                rows : RowsOf(NodeStatus), of : Nat]
  BY <1>2 DEF HealthInv, OthersStored
<1>6. stored.rows = rows /\ (stored.status = "ready" => Complete(rows))
  BY <1>1
<1>7. ReadTyped' /\ ReadSound'
  <2>1. Nothing \in RowsOf(NodeRows) /\ Nothing \in RowsOf(Services \cup {"none"})
        /\ DOMAIN Nothing = {}
    BY NothingIsRows
  <2>2. asked' \in SUBSET Host
    BY <1>4, RowsAreFunctions DEF HealthInv, ReadTyped
  <2>3. ReadTyped'
    BY <1>4, <2>1, <2>2 DEF HealthInv, ReadTyped, NoRead
  <2>4. QED
    BY <1>4, <2>1, <2>3 DEF ReadSound, NoRead
<1>8. FirstReads'
  BY <1>4 DEF FirstReads, NoRead
<1>9. NodesStored' /\ OthersStored'
  <2>1. stored.status \in {"loading", "ready", "partial", "failed"}
    BY <1>1
  <2>2. QED
    BY <1>3, <1>5, <1>6, <2>1 DEF NodesStored, OthersStored
<1>10. ListsAgree'
  BY <1>3, <1>6 DEF ListsAgree
<1>11. QED
  BY <1>7, <1>8, <1>9, <1>10 DEF HealthInv

-----------------------------------------------------------------------------
(* The invariant holds of every step *)

LEMMA HealthInitially == HealthInit => HealthInv
<1> SUFFICES ASSUME HealthInit PROVE HealthInv
  OBVIOUS
<1>1. Nothing \in RowsOf(NodeRows) /\ Nothing \in RowsOf(Services \cup {"none"})
      /\ Nothing \in RowsOf(Services) /\ Nothing \in RowsOf(NodeStatus)
      /\ DOMAIN Nothing = {}
  BY NothingIsRows
<1>2. ReadTyped /\ ReadSound
  BY <1>1 DEF HealthInit, ReadTyped, ReadSound, NoRead
<1>3. \A source \in Sources : cluster[source].status = "loading" /\ cluster[source].rows = Nothing
  BY DEF HealthInit, Sources, Loading
<1>4. FirstReads
  BY <1>3 DEF HealthInit, FirstReads, Answered, NoRead, Sources
<1>5. NodesStored
  BY <1>1, <1>3 DEF NodesStored, Sources
<1>6. OthersStored
  BY <1>1, <1>3 DEF HealthInit, OthersStored, Sources, Loading
<1>7. ListsAgree
  BY <1>3 DEF ListsAgree, Known, Sources
<1>8. QED
  BY <1>2, <1>4, <1>5, <1>6, <1>7 DEF HealthInv

\* What holds of the stored answers stays so while they and the session do.
LEMMA StoredStays ==
    ASSUME HealthInv, UNCHANGED <<context, opened, cluster>>
    PROVE  /\ NodesStored' /\ OthersStored' /\ ListsAgree'
           /\ Answered' = Answered
  BY DEF HealthInv, NodesStored, OthersStored, ListsAgree, Answered, Known

\* A read that has begun belongs to an open session.
LEMMA ReadingIsOpen ==
    ASSUME HealthInv, observing.stage # "none"
    PROVE  opened # "opening"
  BY DEF HealthInv, FirstReads, NoRead

LEMMA MembersKeeps ==
    ASSUME HealthInv, NEW listed \in SUBSET Host, Members(listed)
    PROVE  HealthInv'
<1>1. PICK rows : rows = [h \in listed |-> LoadingRow]
  OBVIOUS
<1>2. PICK seen : seen = [h \in listed |-> "none"]
  OBVIOUS
<1>3. rows \in RowsOf(NodeRows) /\ seen \in RowsOf(Services \cup {"none"})
  BY <1>1, <1>2, EmptyIsRow, FunctionsAreRows
<1>4. observing' = [observing EXCEPT !.stage = "inspect", !.rows = rows, !.seen = seen]
  BY <1>1, <1>2 DEF Members
<1>5. ReadTyped'
  BY <1>3, <1>4 DEF HealthInv, ReadTyped, Members
<1>6. observing'.rows = rows /\ observing'.seen = seen /\ observing'.initial = observing.initial
  BY <1>4 DEF HealthInv, ReadTyped
<1>7. ReadSound'
  <2>1. \A h \in listed : Sound(rows[h]) /\ AsSeen(rows[h], seen[h])
    BY <1>1, <1>2, EmptyIsRow DEF AsSeen, LoadingRow
  <2>2. DOMAIN rows = listed /\ DOMAIN seen = listed
    BY <1>1, <1>2
  <2>3. QED
    BY <1>6, <2>1, <2>2 DEF ReadSound
<1>8. opened # "opening"
  BY ReadingIsOpen DEF Members
<1>9. FirstReads'
  BY <1>6, <1>8, StoredStays DEF FirstReads, Members, HealthInv
<1>10. QED
  BY <1>5, <1>7, <1>9, StoredStays DEF HealthInv, Members

LEMMA InspectKeeps ==
    ASSUME HealthInv, NEW h \in DOMAIN observing.rows, InspectNode(h)
    PROVE  HealthInv'
<1>1. PICK machine \in {"ready", "down", "unread"}, services \in {"well", "bad", "unread"},
           version, cut, reached \in BOOLEAN :
         /\ ~reached => services = "unread" /\ ~version /\ cut
         /\ Spent(Troubled(machine, services, version, cut, reached))
         /\ observing' = [observing EXCEPT !.rows[h] = Inspected(machine, services, version, cut),
                                           !.seen[h] = IF reached THEN services ELSE "none"]
  BY Zenon DEF InspectNode
<1>2. PICK row : row = Inspected(machine, services, version, cut)
  OBVIOUS
<1>3. row \in NodeRows /\ Sound(row) /\ row.services = services
  BY <1>2, InspectedIsSound DEF Services
<1>4. PICK observed \in Services \cup {"none"} : observed = IF reached THEN services ELSE "none"
  BY DEF Services
<1>5. AsSeen(row, observed)
  BY <1>1, <1>3, <1>4 DEF AsSeen, Services
<1>6. PICK n : n = h
  OBVIOUS
<1>7. observing' = [observing EXCEPT !.rows[n] = row, !.seen[n] = observed]
  BY <1>1, <1>2, <1>4, <1>6
<1>8. PICK rows, seen : rows = observing.rows /\ seen = observing.seen
  OBVIOUS
<1>9. rows \in RowsOf(NodeRows) /\ seen \in RowsOf(Services \cup {"none"}) /\ n \in DOMAIN rows
      /\ DOMAIN seen = DOMAIN rows
  BY <1>6, <1>8 DEF HealthInv, ReadTyped, ReadSound
<1>10. /\ [rows EXCEPT ![n] = row] \in RowsOf(NodeRows)
       /\ [seen EXCEPT ![n] = observed] \in RowsOf(Services \cup {"none"})
  <2>1. rows \in [DOMAIN rows -> NodeRows] /\ DOMAIN rows \in SUBSET Host
    BY <1>9, RowsAreFunctions
  <2>2. seen \in [DOMAIN rows -> Services \cup {"none"}]
    BY <1>9, RowsAreFunctions
  <2>3. [rows EXCEPT ![n] = row] \in [DOMAIN rows -> NodeRows]
    BY <1>3, <2>1
  <2>4. [seen EXCEPT ![n] = observed] \in [DOMAIN rows -> Services \cup {"none"}]
    BY <1>4, <2>2
  <2>5. QED
    BY <2>1, <2>3, <2>4, FunctionsAreRows
<1>11. observing' = [observing EXCEPT !.rows = [rows EXCEPT ![n] = row],
                                      !.seen = [seen EXCEPT ![n] = observed]]
  BY <1>7, <1>8
<1>12. ReadTyped'
  BY <1>10, <1>11 DEF HealthInv, ReadTyped, InspectNode
<1>13. /\ observing'.rows = [rows EXCEPT ![n] = row] /\ observing'.seen = [seen EXCEPT ![n] = observed]
       /\ observing'.initial = observing.initial
  BY <1>11 DEF HealthInv, ReadTyped
<1>14. ReadSound'
  <2>1. \A x \in DOMAIN rows : Sound(rows[x]) /\ AsSeen(rows[x], seen[x])
    BY <1>8 DEF HealthInv, ReadSound
  <2>2. DOMAIN [rows EXCEPT ![n] = row] = DOMAIN rows /\ DOMAIN [seen EXCEPT ![n] = observed] = DOMAIN rows
    BY <1>9
  <2>3. \A x \in DOMAIN rows : /\ Sound([rows EXCEPT ![n] = row][x])
                               /\ AsSeen([rows EXCEPT ![n] = row][x], [seen EXCEPT ![n] = observed][x])
    <3>1. TAKE x \in DOMAIN rows
    <3>2. CASE x = n
      BY <1>3, <1>5, <1>9, <3>2
    <3>3. CASE x # n
      BY <1>9, <2>1, <3>3
    <3>4. QED
      BY <3>2, <3>3
  <2>4. QED
    BY <1>13, <2>2, <2>3 DEF ReadSound
<1>15. opened # "opening"
  BY ReadingIsOpen DEF InspectNode
<1>16. FirstReads'
  BY <1>13, <1>15, StoredStays DEF FirstReads, InspectNode, HealthInv
<1>17. QED
  BY <1>12, <1>14, <1>16, StoredStays DEF HealthInv, InspectNode

LEMMA PublishKeeps ==
    ASSUME HealthInv, PublishProgress
    PROVE  HealthInv'
<1>1. PICK held : held = [status |-> "ready", rows |-> observing.rows, of |-> context]
  OBVIOUS
<1>2. cluster' = [cluster EXCEPT !["nodes"] = held]
  BY <1>1 DEF PublishProgress
<1>3. held.rows = observing.rows /\ held.status = "ready"
  BY <1>1
<1>4. /\ cluster'["nodes"] = held /\ cluster'["services"] = cluster["services"]
      /\ cluster'["status"] = cluster["status"] /\ DOMAIN cluster' = Sources
  BY <1>2 DEF HealthInv, OthersStored, Sources
<1>5. ~Answered /\ ~Answered' /\ ~Known("services")'
  BY <1>4 DEF PublishProgress, HealthInv, FirstReads, Answered, Known
<1>6. ReadTyped' /\ ReadSound'
  BY DEF PublishProgress, HealthInv, ReadTyped, ReadSound
<1>7. FirstReads'
  BY <1>5 DEF PublishProgress, HealthInv, FirstReads
<1>8. NodesStored'
  BY <1>3, <1>4, <1>5 DEF NodesStored, HealthInv, ReadTyped, ReadSound
<1>9. OthersStored'
  BY <1>4 DEF OthersStored, HealthInv
<1>10. ListsAgree'
  BY <1>5 DEF ListsAgree
<1>11. QED
  BY <1>6, <1>7, <1>8, <1>9, <1>10 DEF HealthInv

LEMMA ListKeeps ==
    ASSUME HealthInv, ListServices
    PROVE  HealthInv'
<1>1. PICK services \in [DOMAIN observing.rows -> {"well", "bad", "unread"}] :
         /\ \A h \in DOMAIN services : services[h] \in Observed(h)
         /\ NodesLoaded(observing.rows, services, FALSE, FALSE)
  BY DEF ListServices
<1>2. PICK rows : rows = observing.rows
  OBVIOUS
<1>3. rows \in RowsOf(NodeRows)
  BY <1>2 DEF HealthInv, ReadTyped
<1>4. services \in RowsOf(Services) /\ DOMAIN services = DOMAIN rows
  BY <1>1, <1>2, <1>3, RowsAreFunctions, FunctionsAreRows DEF Services
<1>5. \A h \in DOMAIN rows : Sound(rows[h])
  BY <1>2 DEF HealthInv, ReadSound
<1>6. \A h \in DOMAIN rows \cap DOMAIN services :
         "unread" \in {rows[h].services, services[h]} \/ rows[h].services = services[h]
  BY <1>1, <1>2, <1>4 DEF HealthInv, ReadSound, AsSeen, Observed
<1>7. opened # "opening"
  BY ReadingIsOpen DEF ListServices, AllInspected
<1>8. QED
  BY <1>1, <1>2, <1>3, <1>4, <1>5, <1>6, <1>7, NodesLoadedKeeps

LEMMA ReadFailsKeeps ==
    ASSUME HealthInv, NodesReadFails
    PROVE  HealthInv'
<1>1. PICK left : left = [h \in DOMAIN observing.rows |->
                        IF observing.rows[h] = LoadingRow THEN [LoadingRow EXCEPT !.problem = TRUE]
                        ELSE observing.rows[h]]
  OBVIOUS
<1>2. PICK rows \in {left, Nothing} : NodesLoaded(rows, Nothing, TRUE, TRUE)
  BY <1>1 DEF NodesReadFails
<1>3. observing.rows \in [DOMAIN observing.rows -> NodeRows] /\ DOMAIN observing.rows \in SUBSET Host
  BY DEF HealthInv, ReadTyped, RowsOf
<1>4. [LoadingRow EXCEPT !.problem = TRUE] \in NodeRows /\ Sound([LoadingRow EXCEPT !.problem = TRUE])
  BY DEF LoadingRow, NodeRows, Services, Sound
<1>5. left \in [DOMAIN observing.rows -> NodeRows] /\ \A h \in DOMAIN left : Sound(left[h])
  BY <1>1, <1>3, <1>4 DEF HealthInv, ReadSound
<1>6. Nothing \in RowsOf(NodeRows) /\ Nothing \in RowsOf(Services) /\ DOMAIN Nothing = {}
  BY NothingIsRows
<1>7. rows \in RowsOf(NodeRows) /\ \A h \in DOMAIN rows : Sound(rows[h])
  BY <1>2, <1>3, <1>5, <1>6 DEF RowsOf
<1>8. opened # "opening"
  BY ReadingIsOpen DEF NodesReadFails
<1>9. QED
  BY <1>2, <1>6, <1>7, <1>8, NodesLoadedKeeps

LEMMA EtcdKeeps ==
    ASSUME HealthInv, EtcdAnswers
    PROVE  HealthInv'
<1>1. PICK held : cluster' = [cluster EXCEPT !["etcd"] = held]
  BY DEF EtcdAnswers
<1>2. /\ cluster'["nodes"] = cluster["nodes"] /\ cluster'["services"] = cluster["services"]
      /\ cluster'["status"] = cluster["status"] /\ DOMAIN cluster' = Sources
  BY <1>1 DEF HealthInv, OthersStored, Sources
<1>3. ReadTyped' /\ ReadSound'
  BY DEF EtcdAnswers, HealthInv, ReadTyped, ReadSound
<1>4. FirstReads' /\ NodesStored' /\ OthersStored' /\ ListsAgree'
  BY <1>2 DEF EtcdAnswers, HealthInv, FirstReads, NodesStored, OthersStored, ListsAgree, Answered, Known
<1>5. QED
  BY <1>3, <1>4 DEF HealthInv

LEMMA StatusKeeps ==
    ASSUME HealthInv, StatusAnswers
    PROVE  HealthInv'
<1>1. PICK statuses \in [asked -> NodeStatus] : cluster' = [cluster EXCEPT !["status"] =
              [status |-> IF \E h \in DOMAIN statuses : statuses[h] = "unread" THEN "partial" ELSE "ready",
               rows |-> statuses, of |-> context]]
  BY DEF StatusAnswers
<1>2. PICK held : held = [status |-> IF \E h \in DOMAIN statuses : statuses[h] = "unread" THEN "partial" ELSE "ready",
                          rows |-> statuses, of |-> context]
  OBVIOUS
<1>3. statuses \in RowsOf(NodeStatus)
  BY <1>1, FunctionsAreRows DEF HealthInv, ReadTyped
<1>4. held \in [status : {"loading", "ready", "partial", "failed"}, rows : RowsOf(NodeStatus), of : Nat]
  BY <1>2, <1>3 DEF HealthInv, ReadTyped
<1>5. /\ cluster'["nodes"] = cluster["nodes"] /\ cluster'["services"] = cluster["services"]
      /\ cluster'["status"] = held /\ DOMAIN cluster' = Sources
  BY <1>1, <1>2 DEF HealthInv, OthersStored, Sources
<1>6. ReadTyped' /\ ReadSound'
  BY DEF StatusAnswers, HealthInv, ReadTyped, ReadSound
<1>7. FirstReads' /\ NodesStored' /\ ListsAgree'
  BY <1>5 DEF StatusAnswers, HealthInv, FirstReads, NodesStored, ListsAgree, Answered, Known
<1>8. OthersStored'
  BY <1>4, <1>5 DEF HealthInv, OthersStored
<1>9. QED
  BY <1>6, <1>7, <1>8 DEF HealthInv

\* A read that begins holds no row yet.
LEMMA BeginsSound ==
    ASSUME NEW initial \in BOOLEAN, observing' = BeginNodes(initial), asked' \in SUBSET Host,
           context' \in Nat
    PROVE  ReadTyped' /\ ReadSound' /\ observing'.initial = initial
<1>1. Nothing \in RowsOf(NodeRows) /\ Nothing \in RowsOf(Services \cup {"none"}) /\ DOMAIN Nothing = {}
  BY NothingIsRows
<1>2. observing' = [stage |-> "members", initial |-> initial, rows |-> Nothing, seen |-> Nothing]
  BY DEF BeginNodes, NoRead
<1>3. QED
  BY <1>1, <1>2 DEF ReadTyped, ReadSound

LEMMA OpensKeeps ==
    ASSUME HealthInv, SessionOpens
    PROVE  HealthInv'
<1>1. ReadTyped' /\ ReadSound' /\ observing'.initial = TRUE
  BY BeginsSound DEF SessionOpens, HealthInv, ReadTyped
<1>2. NodesStored' /\ OthersStored' /\ ListsAgree' /\ ~Answered'
  BY DEF SessionOpens, HealthInv, NodesStored, OthersStored, ListsAgree, Answered, Known, FirstReads
<1>3. FirstReads'
  BY <1>2 DEF SessionOpens, FirstReads
<1>4. QED
  BY <1>1, <1>2, <1>3 DEF HealthInv

LEMMA RefreshKeeps ==
    ASSUME HealthInv, RefreshSummary
    PROVE  HealthInv'
<1>1. ReadTyped' /\ ReadSound' /\ observing'.initial = FALSE
  BY BeginsSound DEF RefreshSummary, HealthInv, ReadTyped
<1>2. NodesStored' /\ OthersStored' /\ ListsAgree'
  BY StoredStays DEF RefreshSummary
<1>3. FirstReads'
  BY <1>1 DEF RefreshSummary, FirstReads
<1>4. QED
  BY <1>1, <1>2, <1>3 DEF HealthInv

\* Nodes and services without rows are sound.
LEMMA EmptyStored ==
    ASSUME cluster'["nodes"].rows = Nothing, cluster'["nodes"].status \in {"loading", "failed"}, cluster'["services"].rows = Nothing,
           DOMAIN cluster' = Sources, cluster'["status"] = cluster["status"], HealthInv
    PROVE  NodesStored' /\ OthersStored' /\ ListsAgree'
<1>1. Nothing \in RowsOf(NodeRows) /\ Nothing \in RowsOf(Services) /\ DOMAIN Nothing = {}
  BY NothingIsRows
<1>2. QED
  BY <1>1 DEF NodesStored, OthersStored, ListsAgree, HealthInv, Complete

LEMMA FailsKeeps ==
    ASSUME HealthInv, SessionFails
    PROVE  HealthInv'
<1>1. /\ cluster'["nodes"].rows = Nothing /\ cluster'["services"].rows = Nothing
      /\ cluster'["nodes"].status = "failed"
      /\ DOMAIN cluster' = Sources /\ cluster'["status"] = cluster["status"]
  BY DEF SessionFails, HealthInv, OthersStored, Sources
<1>2. ReadTyped' /\ ReadSound'
  BY DEF SessionFails, HealthInv, ReadTyped, ReadSound
<1>3. FirstReads'
  BY DEF SessionFails, HealthInv, FirstReads, NoRead
<1>4. QED
  BY <1>1, <1>2, <1>3, EmptyStored DEF HealthInv

LEMMA SelectKeeps ==
    ASSUME HealthInv, SelectContext
    PROVE  HealthInv'
<1>1. /\ cluster'["nodes"] = Loading /\ cluster'["services"] = Loading
      /\ DOMAIN cluster' = Sources /\ cluster'["status"] = cluster["status"]
  BY DEF SelectContext, HealthInv, OthersStored, Sources
<1>2. Loading.rows = Nothing /\ Loading.status = "loading"
  BY DEF Loading
<1>3. Nothing \in RowsOf(NodeRows) /\ Nothing \in RowsOf(Services \cup {"none"}) /\ DOMAIN Nothing = {}
  BY NothingIsRows
<1>4. ReadTyped' /\ ReadSound'
  BY <1>3 DEF SelectContext, HealthInv, ReadTyped, ReadSound, NoRead
<1>5. FirstReads'
  BY <1>1, <1>2 DEF SelectContext, FirstReads, Answered
<1>6. NodesStored' /\ OthersStored' /\ ListsAgree'
  BY <1>1, <1>2, EmptyStored
<1>7. QED
  BY <1>4, <1>5, <1>6 DEF HealthInv

-----------------------------------------------------------------------------
(* Theorems on the health of a cluster *)

\* The invariant holds in every reachable state: the rows the TUI stores say of
\* each node what was read of it (inspectNode and directNodeServicesLoaded).
THEOREM HealthInductive == HealthSpec => []HealthInv
<1>1. HealthInv /\ [HealthNext]_healthVars => HealthInv'
  <2> SUFFICES ASSUME HealthInv, [HealthNext]_healthVars PROVE HealthInv'
    OBVIOUS
  <2>1. CASE UNCHANGED healthVars
    BY <2>1 DEF healthVars, HealthInv, ReadTyped, ReadSound, FirstReads, NodesStored, OthersStored,
                ListsAgree, Answered, Known
  <2>2. ASSUME NEW listed \in SUBSET Host, Members(listed) PROVE HealthInv'
    BY <2>2, MembersKeeps
  <2>3. ASSUME NEW h \in DOMAIN observing.rows, InspectNode(h) PROVE HealthInv'
    BY <2>3, InspectKeeps
  <2>4. QED
    BY <2>1, <2>2, <2>3, PublishKeeps, ListKeeps, ReadFailsKeeps, EtcdKeeps, StatusKeeps, OpensKeeps,
       FailsKeeps, RefreshKeeps, SelectKeeps DEF HealthNext
<1>2. QED
  BY <1>1, HealthInitially, PTL DEF HealthSpec

\* "Healthy" has its evidence, and the two lists agree: once the first read of a
\* session is answered, each node the header counts answered every read of its
\* inspection (deriveShellMetadata, EvaluateObservations), for any hosts, contexts
\* and troubles.
THEOREM VerdictHasEvidence == HealthSpec => []HealthyIsRead
<1>1. HealthInv => HealthyIsRead
  <2> SUFFICES ASSUME HealthInv PROVE HealthyIsRead
    OBVIOUS
  <2>1. ASSUME Health = "Healthy", Answered
        PROVE  /\ \A h \in DOMAIN cluster["nodes"].rows :
                     LET row == cluster["nodes"].rows[h]
                     IN  row.machine = "ready" /\ row.services = "well" /\ row.version
               /\ \A source \in {"services", "status"} :
                     \A h \in DOMAIN Evidence(source) : Evidence(source)[h] \notin {"bad", "unknown"}
    <3>1. /\ cluster["nodes"].status \notin {"loading", "failed", "partial"}
          /\ \A h \in DOMAIN cluster["nodes"].rows : cluster["nodes"].rows[h].machine = "ready"
          /\ Diagnoses = {}
      BY <2>1 DEF Health
    <3>2. PICK nodes, services, statuses :
             nodes = cluster["nodes"].rows /\ services = Evidence("services") /\ statuses = Evidence("status")
      OBVIOUS
    <3>3. nodes \in RowsOf(NodeRows) /\ services \in RowsOf(Services) /\ statuses \in RowsOf(NodeStatus)
      BY <3>2, NothingIsRows DEF HealthInv, NodesStored, OthersStored, Evidence
    <3>4. Complete(nodes) /\ \A h \in DOMAIN nodes : Sound(nodes[h])
      BY <2>1, <3>1, <3>2 DEF HealthInv, NodesStored
    <3>5. \A h \in DOMAIN nodes : nodes[h].services # "bad"
      <4>1. Evidence("nodes") = nodes
        BY <2>1, <3>1, <3>2 DEF Evidence, Known, HealthInv, NodesStored
      <4>2. NodeServicesDegraded = {}
        BY <3>1 DEF Diagnoses
      <4>3. QED
        BY <4>1, <4>2 DEF NodeServicesDegraded, Diagnosed
    <3>6. \A h \in DOMAIN services : services[h] # "bad"
      <4>1. SandboxdService = {}
        BY <3>1 DEF Diagnoses
      <4>2. QED
        BY <3>2, <4>1 DEF SandboxdService, Diagnosed
    <3>7. \A h \in DOMAIN statuses : statuses[h] \notin {"bad", "unknown"}
      <4>1. StatusResources = {}
        BY <3>1 DEF Diagnoses
      <4>2. QED
        BY <3>2, <4>1 DEF StatusResources, Diagnosed
    <3>8. ASSUME NEW h \in DOMAIN nodes
          PROVE  nodes[h].machine = "ready" /\ nodes[h].services = "well" /\ nodes[h].version
      <4>1. PICK row : row = nodes[h]
        OBVIOUS
      <4>2. row \in NodeRows
        BY <3>3, <3>8, <4>1, RowsAreFunctions
      <4>3. row.machine = "ready" /\ row.services # "bad" /\ ~row.problem /\ Sound(row)
        BY <3>1, <3>2, <3>4, <3>5, <3>8, <4>1 DEF Complete
      <4>4. row # LoadingRow
        BY <4>3 DEF LoadingRow
      <4>5. row.services \in Services /\ row.services # "unread" /\ row.version
        BY <4>2, <4>3, <4>4 DEF Sound, NodeRows
      <4>6. QED
        BY <4>1, <4>3, <4>5 DEF Services
    <3>9. \A h \in DOMAIN services : services[h] \notin {"bad", "unknown"}
      BY <3>3, <3>6, RowsAreFunctions DEF Services
    <3>10. QED
      BY <3>2, <3>7, <3>8, <3>9
  <2>2. QED
    BY <2>1 DEF HealthyIsRead, HealthInv, ListsAgree
<1>2. QED
  BY <1>1, HealthInductive, PTL

-----------------------------------------------------------------------------
(* The requests of the views: the invariant *)

Kinds  == Read \cup {"detail", "item", "help"}
Nodes  == Node \cup {NoNode}
Frames == [kind : Kinds, node : Nodes, scope : {""} \cup Scopes, opened : Nat]
Asking == [id : Nat \ {0}, kind : Read, node : Nodes, scope : {""} \cup Scopes,
           session : Nat, auto : BOOLEAN]
Calls  == [request : Asking, does : {"read", "open", "next"}, at : {"queued", "posted"},
           result : {"none", "ok", "failed", "more", "end"}]

RequestsTyped ==
    /\ session \in Nat /\ serial \in Nat /\ wanted \in BOOLEAN
    /\ stack \in Seq(Frames)
    /\ slots \subseteq Asking
    /\ commands \subseteq Calls
    /\ shown \in [Read -> Asking \cup {NoRequest}]
    /\ attached \in [Streamed -> Nat]
    /\ streams \subseteq Nat

\* The view below the one at i is of this kind.
Upon(views, i, kind) == i - 1 \in DOMAIN views /\ views[i - 1].kind = kind

\* The frame of a row, which copies the screen it is a row of.
RowOf(f, screen) ==
    /\ ModelOf(f.kind) = screen.kind
    /\ f.node = screen.node /\ f.scope = screen.scope /\ f.opened = screen.opened

\* Where a view of its kind may be.
Placed(views, i) ==
    LET f == views[i]
    IN  /\ f.kind # "status"
        /\ f.kind = "nodes" => i = 1
        /\ f.kind \in {"list", "containers"} => i = 2
        /\ f.kind \in {"detail", "item"} => i = 3 /\ RowOf(f, views[2])
        /\ f.kind = "instances" => Upon(views, i, "kinds")
        /\ f.kind = "object" => Upon(views, i, "instances")

\* A stack of views: the root, at most one view of a kind but for the help, and
\* each where the keys put it.
Piled(views) ==
    /\ Len(views) >= 1 /\ views[1] = Root
    /\ \A i \in DOMAIN views : Placed(views, i)
    /\ \A i, j \in DOMAIN views :
          views[i].kind = views[j].kind /\ views[i].kind # "help" => i = j

\* A request that has a slot is of this session, asks what the open views of
\* its model show, and was begun since they were opened.
SlotsKept ==
    /\ \A r \in slots : r.session = session /\ r.id <= serial
    /\ \A f \in ToSet(stack) : f.opened <= serial
    /\ \A r \in slots : \A f \in ToSet(stack) :
          ModelOf(f.kind) = r.kind /\ f.node = r.node => r.scope = f.scope /\ f.opened <= r.id
    /\ \A r \in slots :
          r.kind \in {"list", "containers", "usage"} => OpenIn(stack, r.kind, r.node)
    /\ \A q, r \in slots : q.kind = r.kind /\ q.node = r.node /\ q.kind \in Streamed => q = r

\* One command for each request, and one under way for each that has a slot.
CommandsKept ==
    /\ \A c \in commands : c.request.id <= serial /\ (c.does = "read" <=> ~IsStream(c.request))
    /\ \A c, d \in commands : c.request.id = d.request.id => c = d
    /\ \A c \in commands : \A r \in slots : c.request.id = r.id => c.request = r
    /\ \A r \in slots : r.kind \notin Resources => UnderWay(r)

\* A model holds the stream of the request that has the slot of its screen, once
\* its opening has been handled, and only while a view of it is open.
StreamsKept ==
    /\ \A k \in Streamed : attached[k] # 0 => \E f \in ToSet(stack) : ModelOf(f.kind) = k
    /\ \A c \in commands : c.request.id \in streams =>
          c.does = "next" \/ (c.does = "open" /\ c.at = "posted" /\ c.result = "ok")
    /\ \A c \in commands : c.request \in slots =>
          /\ c.does = "open" => attached[c.request.kind] = 0
          /\ c.does = "next" => attached[c.request.kind] = c.request.id
    /\ \A s \in streams : s <= serial /\ s # 0

StreamsHeld ==
    \A s \in streams :
        \/ \E k \in Streamed : attached[k] = s /\ \E f \in ToSet(stack) : ModelOf(f.kind) = k
        \/ \E c \in commands : c.at = "posted" /\ c.request.id = s

RequestsInv ==
    /\ RequestsTyped /\ Piled(stack) /\ SlotsKept /\ CommandsKept /\ StreamsKept
    /\ StreamsHeld /\ ShownIsOfView

-----------------------------------------------------------------------------
(* Lemmas on stacks of views *)

\* The kinds of views, and the models they show.
LEMMA ModelsOfKinds ==
    \A kind \in Kinds :
        /\ kind \in Read => ModelOf(kind) = kind
        /\ kind = "detail" => ModelOf(kind) = "list"
        /\ kind = "item" => ModelOf(kind) = "containers"
        /\ kind = "help" => ModelOf(kind) = "help"
  BY DEF ModelOf, Kinds, Read, Streamed, Resources

LEMMA RootIs ==
    Root.kind = "nodes" /\ Root.node = NoNode /\ Root.scope = "" /\ Root.opened = 0 /\ Root \in Frames
  BY DEF Root, Frame, Frames, Kinds, Read, Nodes

\* A view on top of a stack.
LEMMA AppendIs ==
    ASSUME NEW views \in Seq(Frames), NEW f \in Frames
    PROVE  /\ Append(views, f) \in Seq(Frames)
           /\ Len(Append(views, f)) = Len(views) + 1
           /\ DOMAIN Append(views, f) = 1..(Len(views) + 1)
           /\ \A i \in 1..Len(views) : Append(views, f)[i] = views[i]
           /\ Append(views, f)[Len(views) + 1] = f
           /\ ToSet(Append(views, f)) = ToSet(views) \cup {f}
<1>1. Append(views, f) \in Seq(Frames) /\ Len(Append(views, f)) = Len(views) + 1
      /\ Len(views) \in Nat /\ DOMAIN views = 1..Len(views)
  BY LenProperties
<1>2. DOMAIN Append(views, f) = 1..(Len(views) + 1)
  BY <1>1, LenProperties
<1>3. /\ \A i \in 1..Len(views) : Append(views, f)[i] = views[i]
      /\ Append(views, f)[Len(views) + 1] = f
  BY <1>1
<1>4. 1..(Len(views) + 1) = 1..Len(views) \cup {Len(views) + 1}
  BY <1>1
<1>5. ToSet(Append(views, f)) = ToSet(views) \cup {f}
  BY <1>1, <1>2, <1>3, <1>4 DEF ToSet
<1>6. QED
  BY <1>1, <1>2, <1>3, <1>5

\* What is left of a stack below a view.
LEMMA BelowIs ==
    ASSUME NEW views \in Seq(Frames), NEW n \in 1..Len(views)
    PROVE  /\ SubSeq(views, 1, n) \in Seq(Frames)
           /\ Len(SubSeq(views, 1, n)) = n
           /\ DOMAIN SubSeq(views, 1, n) = 1..n
           /\ \A i \in 1..n : SubSeq(views, 1, n)[i] = views[i]
           /\ ToSet(SubSeq(views, 1, n)) \subseteq ToSet(views)
<1>1. Len(views) \in Nat /\ DOMAIN views = 1..Len(views) /\ n \in Nat /\ n >= 1
  BY LenProperties
<1>2. \A i \in 1..n : i \in 1..Len(views) /\ views[i] \in Frames
  BY <1>1, ElementOfSeq
<1>3. /\ SubSeq(views, 1, n) \in Seq(Frames)
      /\ Len(SubSeq(views, 1, n)) = IF 1 <= n THEN n - 1 + 1 ELSE 0
      /\ \A i \in 1..(n - 1 + 1) : SubSeq(views, 1, n)[i] = views[1 + i - 1]
  BY <1>1, <1>2, SubSeqProperties
<1>4. Len(SubSeq(views, 1, n)) = n /\ \A i \in 1..n : SubSeq(views, 1, n)[i] = views[i]
  BY <1>1, <1>3
<1>5. DOMAIN SubSeq(views, 1, n) = 1..n
  BY <1>3, <1>4, LenProperties
<1>6. ToSet(SubSeq(views, 1, n)) \subseteq ToSet(views)
  BY <1>1, <1>2, <1>4, <1>5 DEF ToSet
<1>7. QED
  BY <1>3, <1>4, <1>5, <1>6

\* Leaving views leaves a stack.
LEMMA BelowIsPiled ==
    ASSUME NEW views \in Seq(Frames), Piled(views), NEW n \in 1..Len(views)
    PROVE  Piled(SubSeq(views, 1, n))
<1>1. PICK left : left = SubSeq(views, 1, n)
  OBVIOUS
<1>2. /\ Len(left) = n /\ DOMAIN left = 1..n /\ n \in Nat /\ n >= 1
      /\ \A i \in 1..n : left[i] = views[i]
  BY <1>1, BelowIs, LenProperties
<1>3. DOMAIN views = 1..Len(views) /\ Len(views) \in Nat /\ n <= Len(views)
  BY LenProperties
<1>4. ASSUME NEW i \in 1..n PROVE Placed(left, i)
  <2>1. PICK f : f = views[i]
    OBVIOUS
  <2>2. i \in DOMAIN views /\ left[i] = f
    BY <1>2, <1>3, <1>4, <2>1
  <2>3. Placed(views, i)
    BY <2>2 DEF Piled
  <2>4. \A kind : Upon(views, i, kind) => Upon(left, i, kind)
    BY <1>2, <1>3, <1>4 DEF Upon
  <2>5. i = 3 => left[2] = views[2]
    BY <1>2, <1>4
  <2>6. QED
    BY <2>1, <2>2, <2>3, <2>4, <2>5 DEF Placed
<1>5. \A i, j \in 1..n : left[i].kind = left[j].kind /\ left[i].kind # "help" => i = j
  BY <1>2, <1>3 DEF Piled
<1>6. Len(left) >= 1 /\ left[1] = Root
  BY <1>2 DEF Piled
<1>7. QED
  BY <1>1, <1>2, <1>4, <1>5, <1>6 DEF Piled

\* A view of a kind that is not open, where it may be, on top of a stack.
LEMMA TopIsPiled ==
    ASSUME NEW views \in Seq(Frames), Piled(views), NEW f \in Frames,
           f.kind \notin {"status", "nodes"},
           f.kind # "help" => \A i \in DOMAIN views : views[i].kind # f.kind,
           f.kind \in {"list", "containers"} => Len(views) = 1,
           f.kind \in {"detail", "item"} => Len(views) = 2 /\ RowOf(f, views[2]),
           f.kind = "instances" => views[Len(views)].kind = "kinds",
           f.kind = "object" => views[Len(views)].kind = "instances"
    PROVE  Piled(Append(views, f))
<1>1. PICK more : more = Append(views, f)
  OBVIOUS
<1>2. PICK n : n = Len(views)
  OBVIOUS
<1>3. /\ Len(more) = n + 1 /\ DOMAIN more = 1..(n + 1)
      /\ \A i \in 1..n : more[i] = views[i]
      /\ more[n + 1] = f
  BY <1>1, <1>2, AppendIs
<1>4. DOMAIN views = 1..n /\ n \in Nat /\ n >= 1
  BY <1>2, LenProperties DEF Piled
<1>5. ASSUME NEW i \in 1..n PROVE Placed(more, i)
  <2>1. PICK g : g = views[i]
    OBVIOUS
  <2>2. i \in DOMAIN views /\ more[i] = g
    BY <1>3, <1>4, <1>5, <2>1
  <2>3. Placed(views, i)
    BY <2>2 DEF Piled
  <2>4. \A kind : Upon(views, i, kind) => Upon(more, i, kind)
    BY <1>3, <1>4, <1>5 DEF Upon
  <2>5. i = 3 => more[2] = views[2]
    BY <1>3, <1>4, <1>5
  <2>6. QED
    BY <2>1, <2>2, <2>3, <2>4, <2>5 DEF Placed
<1>6. Placed(more, n + 1)
  <2>1. \A kind : views[n].kind = kind => Upon(more, n + 1, kind)
    BY <1>3, <1>4 DEF Upon
  <2>2. n = 2 => more[2] = views[2]
    BY <1>3
  <2>3. f.kind \in {"list", "containers"} => n + 1 = 2
    BY <1>2
  <2>4. f.kind \in {"detail", "item"} => n + 1 = 3 /\ RowOf(f, more[2])
    BY <1>2, <2>2
  <2>5. QED
    BY <1>2, <1>3, <2>1, <2>3, <2>4 DEF Placed
<1>7. 1..(n + 1) = 1..n \cup {n + 1}
  BY <1>4
<1>8. \A i, j \in DOMAIN more : more[i].kind = more[j].kind /\ more[i].kind # "help" => i = j
  BY <1>3, <1>4, <1>7 DEF Piled
<1>9. Len(more) >= 1 /\ more[1] = Root
  BY <1>3, <1>4 DEF Piled
<1>10. QED
  BY <1>1, <1>3, <1>5, <1>6, <1>7, <1>8, <1>9 DEF Piled

\* The containers of another scope take the place of those on top.
LEMMA SwitchedIsPiled ==
    ASSUME NEW views \in Seq(Frames), Piled(views), NEW f \in Frames,
           f.kind = "containers", views[Len(views)].kind = "containers"
    PROVE  /\ [views EXCEPT ![Len(views)] = f] = Append(SubSeq(views, 1, Len(views) - 1), f)
           /\ Len(views) = 2
           /\ Piled([views EXCEPT ![Len(views)] = f])
<1>1. Len(views) \in Nat /\ DOMAIN views = 1..Len(views) /\ Len(views) >= 1
  BY LenProperties DEF Piled
<1>2. Len(views) = 2
  BY <1>1 DEF Piled, Placed
<1>3. PICK left : left = SubSeq(views, 1, 1)
  OBVIOUS
<1>4. left \in Seq(Frames) /\ Len(left) = 1 /\ DOMAIN left = 1..1 /\ left[1] = views[1] /\ Piled(left)
  BY <1>2, <1>3, BelowIs, BelowIsPiled
<1>5. PICK a, b : a = [views EXCEPT ![2] = f] /\ b = Append(left, f)
  OBVIOUS
<1>6. a \in Seq(Frames) /\ Len(a) = 2 /\ \A i \in 1..2 : a[i] = IF i = 2 THEN f ELSE views[i]
  <2>1. 2 \in 1..Len(views)
    BY <1>2
  <2>2. /\ [views EXCEPT ![2] = f] \in Seq(Frames)
        /\ Len([views EXCEPT ![2] = f]) = Len(views)
        /\ \A j \in 1..Len(views) : [views EXCEPT ![2] = f][j] = IF j = 2 THEN f ELSE views[j]
    BY <2>1, ExceptSeq
  <2>3. QED
    BY <1>2, <1>5, <2>2
<1>7. b \in Seq(Frames) /\ Len(b) = 2 /\ b[1] = left[1] /\ b[2] = f
  <2>1. /\ Append(left, f) \in Seq(Frames) /\ Len(Append(left, f)) = Len(left) + 1
        /\ \A i \in 1..Len(left) : Append(left, f)[i] = left[i]
        /\ Append(left, f)[Len(left) + 1] = f
    BY <1>4, AppendIs
  <2>2. 1 \in 1..Len(left) /\ Len(left) + 1 = 2
    BY <1>4
  <2>3. QED
    BY <1>5, <2>1, <2>2
<1>8. a = b
  <2>1. \A i \in 1..Len(a) : a[i] = b[i]
    BY <1>4, <1>6, <1>7
  <2>2. QED
    BY <1>6, <1>7, <2>1, SeqEqual
<1>9. Piled(b)
  <2>1. left[1].kind = "nodes"
    BY <1>4, RootIs DEF Piled
  <2>2. \A i \in DOMAIN left : left[i].kind # f.kind
    BY <1>4, <2>1
  <2>3. QED
    BY <1>4, <1>5, <2>2, TopIsPiled
<1>10. Len(views) - 1 = 1
  BY <1>2
<1>11. QED
  BY <1>2, <1>3, <1>5, <1>8, <1>9, <1>10

\* The open views that show one model are of one node and scope, and were opened
\* by one request.
LEMMA OneOfEach ==
    ASSUME NEW views \in Seq(Frames), Piled(views), NEW f \in ToSet(views), NEW g \in ToSet(views),
           ModelOf(f.kind) = ModelOf(g.kind), ModelOf(f.kind) \in Read
    PROVE  f.node = g.node /\ f.scope = g.scope /\ f.opened = g.opened
<1>1. PICK i \in DOMAIN views, j \in DOMAIN views : views[i] = f /\ views[j] = g
  BY DEF ToSet
<1>2. f \in Frames /\ g \in Frames
  BY <1>1, LenProperties, ElementOfSeq
<1>3. f.kind \in Kinds /\ g.kind \in Kinds
  BY <1>2 DEF Frames
<1>4. f.kind # "help" /\ g.kind # "help"
  BY <1>3, ModelsOfKinds DEF Read, Streamed, Resources
<1>5. \A h \in DOMAIN views : views[h].kind = f.kind => views[h] = f
  BY <1>1, <1>4 DEF Piled
<1>6. \A h \in DOMAIN views : views[h].kind = g.kind => views[h] = g
  BY <1>1, <1>4 DEF Piled
<1>7. CASE f.kind = g.kind
  BY <1>1, <1>5, <1>7
<1>8. CASE f.kind # g.kind
  <2>1. \/ f.kind \in {"detail", "item"} /\ g.kind = ModelOf(f.kind)
        \/ g.kind \in {"detail", "item"} /\ f.kind = ModelOf(g.kind)
    BY <1>3, <1>4, <1>8, ModelsOfKinds DEF Kinds
  <2>2. Placed(views, i) /\ Placed(views, j)
    BY <1>1 DEF Piled
  <2>3. ASSUME f.kind \in {"detail", "item"}, g.kind = ModelOf(f.kind)
        PROVE  RowOf(f, g)
    <3>1. i = 3 /\ RowOf(f, views[2])
      BY <1>1, <2>2, <2>3 DEF Placed
    <3>2. 2 \in DOMAIN views
      BY <1>1, <3>1, LenProperties
    <3>3. views[2].kind = g.kind
      BY <2>3, <3>1 DEF RowOf
    <3>4. QED
      BY <1>6, <3>1, <3>2, <3>3
  <2>4. ASSUME g.kind \in {"detail", "item"}, f.kind = ModelOf(g.kind)
        PROVE  RowOf(g, f)
    <3>1. j = 3 /\ RowOf(g, views[2])
      BY <1>1, <2>2, <2>4 DEF Placed
    <3>2. 2 \in DOMAIN views
      BY <1>1, <3>1, LenProperties
    <3>3. views[2].kind = f.kind
      BY <2>4, <3>1 DEF RowOf
    <3>4. QED
      BY <1>5, <3>1, <3>2, <3>3
  <2>5. QED
    BY <2>1, <2>3, <2>4 DEF RowOf
<1>9. QED
  BY <1>7, <1>8

\* No view shows the statuses of the nodes by themselves.
LEMMA NoStatusView ==
    ASSUME NEW views \in Seq(Frames), Piled(views), NEW f \in ToSet(views)
    PROVE  /\ f \in Frames /\ f.kind \in Kinds
           /\ ModelOf(f.kind) # "status"
           /\ ModelOf(f.kind) = "nodes" => f.kind = "nodes"
<1>1. PICK i \in DOMAIN views : views[i] = f
  BY DEF ToSet
<1>2. f \in Frames
  BY <1>1, LenProperties, ElementOfSeq
<1>3. f.kind \in Kinds /\ f.kind # "status"
  BY <1>1, <1>2 DEF Frames, Piled, Placed
<1>4. QED
  BY <1>2, <1>3, ModelsOfKinds DEF Kinds

\* The view on top, and what its kind says of the rest.
LEMMA TopIs ==
    ASSUME RequestsTyped, Piled(stack)
    PROVE  /\ Len(stack) \in Nat /\ Len(stack) >= 1 /\ DOMAIN stack = 1..Len(stack)
           /\ Top = stack[Len(stack)] /\ Top \in Frames /\ Top \in ToSet(stack)
           /\ Top.kind = "nodes" => Len(stack) = 1
           /\ Top.kind \in {"list", "containers"} => Len(stack) = 2
           /\ \A f \in ToSet(stack) : f \in Frames
           /\ Root \in ToSet(stack) /\ Root \in Frames
           /\ stack \in Seq(Frames)
<1>1. stack \in Seq(Frames)
  BY DEF RequestsTyped
<1>2. Len(stack) \in Nat /\ Len(stack) >= 1 /\ DOMAIN stack = 1..Len(stack)
  BY <1>1, LenProperties DEF Piled
<1>3. Top = stack[Len(stack)] /\ Len(stack) \in DOMAIN stack /\ 1 \in DOMAIN stack
  BY <1>2 DEF Top, Last
<1>4. \A i \in DOMAIN stack : stack[i] \in Frames
  BY <1>1, <1>2, ElementOfSeq
<1>5. Placed(stack, Len(stack))
  BY <1>3 DEF Piled
<1>6. /\ Top.kind = "nodes" => Len(stack) = 1
      /\ Top.kind \in {"list", "containers"} => Len(stack) = 2
  BY <1>3, <1>5 DEF Placed
<1>7. Root \in ToSet(stack) /\ Root \in Frames /\ Top \in ToSet(stack)
  BY <1>3, <1>4 DEF Piled, ToSet
<1>8. \A f \in ToSet(stack) : f \in Frames
  BY <1>4 DEF ToSet
<1>9. QED
  BY <1>1, <1>2, <1>3, <1>4, <1>6, <1>7, <1>8

\* openDirectResources: the views up to the kinds, if they are open.
LEMMA UpToKinds ==
    ASSUME RequestsTyped, Piled(stack)
    PROVE  /\ UpTo("kinds") = 0 => \A i \in DOMAIN stack : stack[i].kind # "kinds"
           /\ UpTo("kinds") # 0 =>
                 /\ UpTo("kinds") \in 2..Len(stack) /\ stack[UpTo("kinds")].kind = "kinds"
                 /\ \A i \in 1..(UpTo("kinds") - 1) : stack[i].kind # "kinds"
<1>1. PICK found : found = {i \in 1..Len(stack) : stack[i].kind = "kinds"}
  OBVIOUS
<1>2. UpTo("kinds") = IF found # {} THEN Min(found) ELSE 0
  BY <1>1 DEF UpTo, SelectInSeq
<1>3. Len(stack) \in Nat /\ DOMAIN stack = 1..Len(stack)
  BY TopIs
<1>4. CASE found = {}
  BY <1>1, <1>2, <1>3, <1>4
<1>5. CASE found # {}
  <2>1. PICK i \in found : TRUE
    BY <1>5
  <2>2. i \in 1..Len(stack) /\ stack[i].kind = "kinds"
    BY <1>1, <2>1
  <2>3. \A j \in found : j = i
    BY <1>1, <1>3, <2>2 DEF Piled
  <2>4. found = {i} /\ i <= i
    <3>1. i <= i
      BY <1>3, <2>2
    <3>2. QED
      BY <2>1, <2>3, <3>1
  <2>5. Min(found) = i
    BY <2>4 DEF Min
  <2>6. i # 1
    <3>1. stack[1].kind = "nodes"
      BY RootIs DEF Piled
    <3>2. QED
      BY <2>2, <3>1
  <2>7. \A j \in 1..(i - 1) : stack[j].kind # "kinds"
    BY <1>3, <2>2 DEF Piled
  <2>8. UpTo("kinds") = i
    BY <1>2, <1>5, <2>5
  <2>9. i \in 2..Len(stack)
    BY <1>3, <2>2, <2>6
  <2>10. QED
    BY <2>2, <2>7, <2>8, <2>9
<1>6. QED
  BY <1>4, <1>5

-----------------------------------------------------------------------------
(* Lemmas on requests *)

\* A request and its command.
LEMMA AskedIs ==
    ASSUME NEW r \in Asking
    PROVE  /\ Asked(r) \in Calls /\ Asked(r).request = r /\ Asked(r).at = "queued"
           /\ Asked(r).does = IF IsStream(r) THEN "open" ELSE "read"
<1>1. PICK does \in {"open", "read"} : does = IF IsStream(r) THEN "open" ELSE "read"
  OBVIOUS
<1>2. Asked(r) = [request |-> r, does |-> does, at |-> "queued", result |-> "none"]
  BY <1>1 DEF Asked
<1>3. QED
  BY <1>1, <1>2 DEF Calls

LEMMA NextNumber ==
    ASSUME NEW n \in Nat
    PROVE  /\ n + 1 \in Nat \ {0} /\ n + 1 \in Nat /\ n + 1 # n /\ n <= n + 1 /\ n + 1 <= n + 1 /\ 0 <= n + 1
           /\ \A m \in Nat : m <= n => m <= n + 1 /\ m # n + 1
  OBVIOUS

\* What Ask does, of its request.
Begun(new, kind, node, scope, auto, held) ==
    /\ new.id = serial + 1 /\ new.kind = kind /\ new.node = node /\ new.scope = scope
    /\ new.session = session /\ new.auto = auto
    /\ slots' = WithoutSlot(held, kind, node) \cup {new}
    /\ commands' = commands \cup {Asked(new)}

\* beginWithContext: a new request takes the slot.
LEMMA AskIs ==
    ASSUME RequestsTyped, NEW kind \in Read, NEW node \in Nodes, NEW scope \in {""} \cup Scopes,
           NEW auto \in BOOLEAN, NEW held, Ask(kind, node, scope, auto, held)
    PROVE  /\ serial' = serial + 1 /\ serial \in Nat /\ serial + 1 \in Nat
           /\ \E new \in Asking : Begun(new, kind, node, scope, auto, held)
<1>1. serial' = serial + 1 /\ serial \in Nat /\ session \in Nat
  BY DEF Ask, RequestsTyped
<1>2. PICK new : new = [id |-> serial + 1, kind |-> kind, node |-> node, scope |-> scope,
                        session |-> session, auto |-> auto]
  OBVIOUS
<1>3. serial + 1 \in Nat \ {0}
  BY <1>1, NextNumber
<1>4. new \in Asking
  BY <1>1, <1>2, <1>3 DEF Asking
<1>5. slots' = WithoutSlot(held, kind, node) \cup {new} /\ commands' = commands \cup {Asked(new)}
  BY <1>2 DEF Ask
<1>6. /\ new.id = serial + 1 /\ new.kind = kind /\ new.node = node /\ new.scope = scope
      /\ new.session = session /\ new.auto = auto
  BY <1>2
<1>7. Begun(new, kind, node, scope, auto, held)
  BY <1>5, <1>6, Zenon DEF Begun
<1>8. serial + 1 \in Nat
  BY <1>3
<1>9. QED
  BY <1>1, <1>4, <1>7, <1>8, Zenon

\* A request for a view that is open keeps the slots in order.
LEMMA AskKeepsSlots ==
    ASSUME RequestsInv, NEW new \in Asking, NEW held, held \subseteq slots,
           serial' = serial + 1, session' = session,
           new.id = serial + 1, new.session = session,
           slots' = WithoutSlot(held, new.kind, new.node) \cup {new},
           stack' \in Seq(Frames), Piled(stack'),
           \E f \in ToSet(stack') :
               ModelOf(f.kind) = new.kind /\ f.node = new.node /\ f.scope = new.scope,
           \A f \in ToSet(stack') :
               /\ f.opened <= serial + 1
               /\ f \in ToSet(stack) \/ (ModelOf(f.kind) = new.kind /\ f.node = new.node),
           \A r \in held : r.kind \in {"list", "containers", "usage"} => OpenIn(stack', r.kind, r.node)
    PROVE  SlotsKept'
<1> DEFINE kind == new.kind
           node == new.node
           scope == new.scope
<1>1. /\ new.id = serial + 1 /\ new.kind = kind /\ new.node = node /\ new.scope = scope
      /\ new.session = session /\ kind \in Read
      /\ slots' = WithoutSlot(held, kind, node) \cup {new}
  BY DEF Asking
<1>2. serial' = serial + 1 /\ serial \in Nat
  BY DEF RequestsInv, RequestsTyped
<1>3. \A r \in slots' : r = new \/ (r \in slots /\ r \in held /\ (r.kind # kind \/ r.node # node))
  BY <1>1 DEF WithoutSlot
<1>4. \A r \in slots : r \in Asking /\ r.session = session /\ r.id <= serial
  BY DEF RequestsInv, RequestsTyped, SlotsKept
<1>5. \A r \in slots' : r.session = session' /\ r.id <= serial'
  <2>1. \A r \in slots : r.id <= serial + 1 /\ r.id # serial + 1
    <3>1. \A r \in slots : r.id \in Nat /\ r.id <= serial
      BY <1>4 DEF Asking
    <3>2. QED
      BY <1>2, <3>1, NextNumber
  <2>2. serial + 1 <= serial + 1
    BY <1>2
  <2>3. QED
    BY <1>1, <1>2, <1>3, <1>4, <2>1, <2>2
<1>6. ASSUME NEW r \in slots', NEW f \in ToSet(stack'), ModelOf(f.kind) = r.kind, f.node = r.node
      PROVE  r.scope = f.scope /\ f.opened <= r.id
  <2>1. CASE r = new
    <3>1. PICK views : views = stack'
      OBVIOUS
    <3>2. PICK g \in ToSet(views) : ModelOf(g.kind) = kind /\ g.node = node /\ g.scope = scope
      BY <3>1
    <3>3. f.scope = g.scope
      BY <1>1, <1>6, <2>1, <3>1, <3>2, OneOfEach
    <3>4. f.opened <= serial + 1
      BY <1>6
    <3>5. QED
      BY <1>1, <2>1, <3>2, <3>3, <3>4
  <2>2. CASE r # new
    <3>1. r \in slots /\ (r.kind # kind \/ r.node # node)
      BY <1>3, <2>2
    <3>2. f \in ToSet(stack)
      BY <1>6, <3>1
    <3>3. QED
      BY <1>6, <3>1, <3>2 DEF RequestsInv, SlotsKept
  <2>3. QED
    BY <2>1, <2>2
<1>7. ASSUME NEW r \in slots', r.kind \in {"list", "containers", "usage"}
      PROVE  OpenIn(stack', r.kind, r.node)
  <2>1. CASE r = new
    <3>1. PICK f \in ToSet(stack') : ModelOf(f.kind) = kind /\ f.node = node
      OBVIOUS
    <3>2. QED
      BY <1>1, <2>1, <3>1 DEF OpenIn, ToSet
  <2>2. CASE r # new
    BY <1>3, <1>7, <2>2
  <2>3. QED
    BY <2>1, <2>2
<1>8. \A q, r \in slots' : q.kind = r.kind /\ q.node = r.node /\ q.kind \in Streamed => q = r
  BY <1>1, <1>3 DEF RequestsInv, SlotsKept
<1>9. \A f \in ToSet(stack') : f.opened <= serial'
  BY <1>2
<1>10. QED
  BY <1>5, <1>6, <1>7, <1>8, <1>9 DEF SlotsKept

\* The command of a new request is the only one of its number.
BegunWith(new, held, rest) ==
    /\ held \subseteq slots /\ rest \subseteq commands
    /\ serial' = serial + 1 /\ new.id = serial + 1
    /\ slots' \subseteq held \cup {new}
    /\ commands' = rest \cup {Asked(new)}
    /\ \A r \in held : r.kind \notin Resources => \E c \in rest : c.request = r

LEMMA AskKeepsCommands ==
    ASSUME RequestsInv, NEW new \in Asking, NEW held, NEW rest, BegunWith(new, held, rest)
    PROVE  CommandsKept'
<1> USE DEF BegunWith
<1>1. \A r \in slots' : r = new \/ (r \in slots /\ r \in held)
  OBVIOUS
<1>2. serial' = serial + 1 /\ serial \in Nat
  BY DEF RequestsInv, RequestsTyped
<1>3. PICK call : call = Asked(new)
  OBVIOUS
<1>4. call.request = new /\ (call.does = "read" <=> ~IsStream(new))
  BY <1>3, AskedIs
<1>5. \A c \in commands : c \in Calls /\ c.request.id <= serial /\ c.request.id \in Nat
  BY DEF RequestsInv, RequestsTyped, CommandsKept, Calls, Asking
<1>6. commands' = rest \cup {call} /\ serial + 1 # serial
  BY <1>2, <1>3
<1>7. \A c \in commands : c.request.id # serial + 1 /\ c.request.id <= serial + 1
  BY <1>2, <1>5
<1>8. \A c \in commands' : c.request.id <= serial' /\ (c.does = "read" <=> ~IsStream(c.request))
  BY <1>2, <1>4, <1>6, <1>7 DEF RequestsInv, CommandsKept
<1>9. \A c, d \in commands' : c.request.id = d.request.id => c = d
  BY <1>4, <1>6, <1>7 DEF RequestsInv, CommandsKept
<1>10. \A r \in slots : r.id # serial + 1
  <2>1. \A r \in slots : r.id \in Nat /\ r.id <= serial
    BY DEF RequestsInv, RequestsTyped, SlotsKept, Asking
  <2>2. QED
    BY <1>2, <2>1, NextNumber
<1>11. \A c \in commands' : \A r \in slots' : c.request.id = r.id => c.request = r
  BY <1>1, <1>4, <1>6, <1>7, <1>10 DEF RequestsInv, CommandsKept
<1>12. \A r \in slots' : r.kind \notin Resources => \E c \in commands' : c.request = r
  BY <1>1, <1>4, <1>6
<1>13. QED
  BY <1>8, <1>9, <1>11, <1>12 DEF CommandsKept, UnderWay

LEMMA AskKeeps ==
    ASSUME RequestsInv, NEW new \in Asking, NEW held, held \subseteq slots,
           serial' = serial + 1, session' = session,
           new.id = serial + 1, new.session = session,
           slots' = WithoutSlot(held, new.kind, new.node) \cup {new},
           commands' = commands \cup {Asked(new)},
           stack' \in Seq(Frames), Piled(stack'),
           \E f \in ToSet(stack') :
               ModelOf(f.kind) = new.kind /\ f.node = new.node /\ f.scope = new.scope,
           \A f \in ToSet(stack') :
               /\ f.opened <= serial + 1
               /\ f \in ToSet(stack) \/ (ModelOf(f.kind) = new.kind /\ f.node = new.node),
           \A r \in held : r.kind \in {"list", "containers", "usage"} => OpenIn(stack', r.kind, r.node)
    PROVE  SlotsKept' /\ CommandsKept'
<1>1. SlotsKept'
  BY AskKeepsSlots
<1>2. PICK rest : rest = commands
  OBVIOUS
<1>3. \A r \in held : r.kind \notin Resources => \E c \in rest : c.request = r
  BY <1>2 DEF RequestsInv, CommandsKept, UnderWay
<1>4. BegunWith(new, held, rest)
  BY <1>2, <1>3 DEF BegunWith, WithoutSlot
<1>5. CommandsKept'
  BY <1>4, AskKeepsCommands
<1>6. QED
  BY <1>1, <1>5

LEMMA AskTyped ==
    ASSUME RequestsTyped, NEW new \in Asking, NEW held, held \subseteq slots,
           slots' = WithoutSlot(held, new.kind, new.node) \cup {new},
           commands' = commands \cup {Asked(new)}
    PROVE  slots' \subseteq Asking /\ commands' \subseteq Calls
<1>1. Asked(new) \in Calls
  BY AskedIs
<1>2. WithoutSlot(held, new.kind, new.node) \subseteq slots
  BY DEF WithoutSlot
<1>3. QED
  BY <1>1, <1>2 DEF RequestsTyped

\* containersModel.close and diskUsageModel.close.
LEMMA CloseIs ==
    ASSUME RequestsTyped, NEW kinds \in SUBSET Streamed, CloseStreams(kinds)
    PROVE  /\ attached' \in [Streamed -> Nat] /\ streams' \subseteq streams
           /\ \A k \in kinds : attached'[k] = 0 /\ attached[k] \notin streams'
           /\ \A k \in Streamed \ kinds : attached'[k] = attached[k]
           /\ \A s \in streams : s \notin streams' => \E k \in kinds : s = attached[k]
<1>1. attached' = [k \in Streamed |-> IF k \in kinds THEN 0 ELSE attached[k]]
      /\ streams' = streams \ {attached[k] : k \in kinds}
  BY DEF CloseStreams
<1>2. attached \in [Streamed -> Nat]
  BY DEF RequestsTyped
<1>3. attached' \in [Streamed -> Nat]
  BY <1>1, <1>2
<1>4. /\ \A k \in kinds : attached'[k] = 0 /\ attached[k] \notin streams'
      /\ \A k \in Streamed \ kinds : attached'[k] = attached[k]
  BY <1>1
<1>5. \A s \in streams : s \notin streams' => \E k \in kinds : s = attached[k]
  BY <1>1
<1>6. QED
  BY <1>1, <1>3, <1>4, <1>5

LEMMA NoneCloses ==
    ASSUME RequestsTyped, attached' = attached, streams' = streams
    PROVE  CloseStreams({})
<1>1. attached = [k \in Streamed |-> attached[k]]
  BY DEF RequestsTyped
<1>2. QED
  BY <1>1 DEF CloseStreams

\* The streams that stay are held as before, when the commands do.
LEMMA CloseKeepsHeld ==
    ASSUME RequestsInv, NEW kinds \in SUBSET Streamed, CloseStreams(kinds), commands \subseteq commands',
           \A k \in Streamed \ kinds :
               (\E f \in ToSet(stack) : ModelOf(f.kind) = k) => \E f \in ToSet(stack') : ModelOf(f.kind) = k
    PROVE  /\ StreamsHeld'
           /\ \A k \in Streamed : attached'[k] # 0 => \E f \in ToSet(stack') : ModelOf(f.kind) = k
<1>1. /\ streams' \subseteq streams
      /\ \A k \in kinds : attached'[k] = 0 /\ attached[k] \notin streams'
      /\ \A k \in Streamed \ kinds : attached'[k] = attached[k]
  BY CloseIs DEF RequestsInv
<1>2. ASSUME NEW s \in streams'
      PROVE  \/ \E k \in Streamed : attached'[k] = s /\ \E f \in ToSet(stack') : ModelOf(f.kind) = k
             \/ \E c \in commands' : c.at = "posted" /\ c.request.id = s
  <2>1. CASE \E c \in commands : c.at = "posted" /\ c.request.id = s
    BY <2>1
  <2>2. CASE \E k \in Streamed : attached[k] = s /\ \E f \in ToSet(stack) : ModelOf(f.kind) = k
    BY <1>1, <1>2, <2>2
  <2>3. QED
    BY <1>1, <1>2, <2>1, <2>2 DEF RequestsInv, StreamsHeld
<1>3. \A k \in Streamed : attached'[k] # 0 => \E f \in ToSet(stack') : ModelOf(f.kind) = k
  BY <1>1 DEF RequestsInv, StreamsKept
<1>4. QED
  BY <1>2, <1>3 DEF StreamsHeld

\* A request that starts a screen over: no stream of it is attached, and none of
\* those that are closed belongs to a request that keeps its slot.
LEMMA AskKeepsStreams ==
    ASSUME RequestsInv, NEW new \in Asking, NEW held, held \subseteq slots,
           serial' = serial + 1, new.id = serial + 1,
           slots' = WithoutSlot(held, new.kind, new.node) \cup {new},
           commands' = commands \cup {Asked(new)},
           NEW kinds \in SUBSET Streamed, CloseStreams(kinds),
           new.kind \in Streamed => attached'[new.kind] = 0,
           \A r \in held : r.kind \in kinds => r.kind = new.kind /\ r.node = new.node,
           \A k \in Streamed \ kinds :
               (\E f \in ToSet(stack) : ModelOf(f.kind) = k) => \E f \in ToSet(stack') : ModelOf(f.kind) = k
    PROVE  StreamsKept' /\ StreamsHeld'
<1>1. /\ streams' \subseteq streams
      /\ \A k \in Streamed \ kinds : attached'[k] = attached[k]
  BY CloseIs DEF RequestsInv
<1>2. StreamsHeld' /\ \A k \in Streamed : attached'[k] # 0 => \E f \in ToSet(stack') : ModelOf(f.kind) = k
  BY CloseKeepsHeld
<1>3. PICK call : call = Asked(new)
  OBVIOUS
<1>4. call.request = new /\ call.does = IF IsStream(new) THEN "open" ELSE "read"
  BY <1>3, AskedIs
<1>5. serial \in Nat /\ \A s \in streams : s \in Nat /\ s <= serial /\ s # 0
  BY DEF RequestsInv, RequestsTyped, StreamsKept
<1>6. serial + 1 \notin streams /\ \A s \in streams : s <= serial + 1
  BY <1>5, NextNumber
<1>7. \A s \in streams' : s <= serial' /\ s # 0
  BY <1>1, <1>5, <1>6
<1>8. \A c \in commands' : c.request.id \in streams' =>
          c.does = "next" \/ (c.does = "open" /\ c.at = "posted" /\ c.result = "ok")
  BY <1>1, <1>3, <1>4, <1>6 DEF RequestsInv, StreamsKept
<1>9. \A c \in commands : c.request.id # serial + 1
  <2>1. \A c \in commands : c.request.id \in Nat /\ c.request.id <= serial
    BY DEF RequestsInv, RequestsTyped, CommandsKept, Calls, Asking
  <2>2. QED
    BY <1>5, <2>1, NextNumber
<1>10. ASSUME NEW c \in commands', c.request \in slots'
       PROVE  /\ c.does = "open" => attached'[c.request.kind] = 0
              /\ c.does = "next" => attached'[c.request.kind] = c.request.id
  <2>1. CASE c = call
    <3>1. IsStream(new) => new.kind \in Streamed
      BY DEF IsStream, Streamed
    <3>2. QED
      BY <1>4, <2>1, <3>1
  <2>2. CASE c # call
    <3>1. c \in commands /\ c.request # new
      BY <1>3, <1>9, <1>10, <2>2
    <3>2. c.request \in slots /\ c.request.kind \notin kinds
      BY <1>10, <3>1 DEF WithoutSlot
    <3>3. c.does # "read" => c.request.kind \in Streamed
      BY <3>1 DEF RequestsInv, CommandsKept, IsStream, Streamed
    <3>4. QED
      BY <1>1, <3>1, <3>2, <3>3 DEF RequestsInv, StreamsKept
  <2>3. QED
    BY <2>1, <2>2
<1>11. QED
  BY <1>2, <1>7, <1>8, <1>10 DEF StreamsKept

\* Leaving views: what keeps its slot has its view, and no stream of it closes.
LEMMA LeaveIs ==
    ASSUME RequestsInv, NEW views,
           NEW kinds, kinds = {k \in Streamed : StreamLeft(views, k)}
    PROVE  /\ HeldIn(views) \subseteq slots
           /\ \A r \in HeldIn(views) :
                 r.kind \in {"list", "containers", "usage"} => OpenIn(views, r.kind, r.node)
           /\ \A r \in HeldIn(views) : r.kind \notin kinds
           /\ \A k \in Streamed \ kinds :
                 (\E f \in ToSet(stack) : ModelOf(f.kind) = k) => \E f \in ToSet(views) : ModelOf(f.kind) = k
<1>1. \A r \in HeldIn(views) : r \in slots /\ (OpenIn(stack, r.kind, r.node) => OpenIn(views, r.kind, r.node))
  BY DEF HeldIn, Closes
<1>2. \A r \in HeldIn(views) :
          r.kind \in {"list", "containers", "usage"} =>
              OpenIn(stack, r.kind, r.node) /\ OpenIn(views, r.kind, r.node)
  BY <1>1 DEF RequestsInv, SlotsKept
<1>3. ASSUME NEW r \in HeldIn(views), r.kind \in kinds
      PROVE  FALSE
  <2>1. r.kind \in Streamed /\ r.kind \in Read
    BY <1>3 DEF Read
  <2>2. OpenIn(stack, r.kind, r.node) /\ OpenIn(views, r.kind, r.node)
    BY <1>2, <1>3, <2>1 DEF Streamed
  <2>3. PICK f \in ToSet(stack) : ModelOf(f.kind) = r.kind /\ ~OpenIn(views, r.kind, f.node)
    BY <1>3 DEF StreamLeft, Closes
  <2>4. PICK g \in ToSet(stack) : ModelOf(g.kind) = r.kind /\ g.node = r.node
    BY <2>2 DEF OpenIn, ToSet
  <2>5. PICK all : all = stack
    OBVIOUS
  <2>6. all \in Seq(Frames) /\ Piled(all)
    BY <2>5 DEF RequestsInv, RequestsTyped
  <2>7. f.node = g.node
    BY <2>1, <2>3, <2>4, <2>5, <2>6, OneOfEach
  <2>8. QED
    BY <2>2, <2>3, <2>4, <2>7
<1>4. ASSUME NEW k \in Streamed \ kinds, NEW f \in ToSet(stack), ModelOf(f.kind) = k
      PROVE  \E g \in ToSet(views) : ModelOf(g.kind) = k
  <2>1. OpenIn(stack, k, f.node)
    BY <1>4 DEF OpenIn, ToSet
  <2>2. OpenIn(views, k, f.node)
    BY <1>4, <2>1 DEF StreamLeft, Closes
  <2>3. QED
    BY <2>2 DEF OpenIn, ToSet
<1>5. QED
  BY <1>1, <1>2, <1>3, <1>4

\* A view keeps what it showed, or shows nothing yet.
LEMMA ShownKeeps ==
    ASSUME RequestsInv, session' = session,
           \A f \in ToSet(stack') :
               \/ f.kind = "nodes" \/ ModelOf(f.kind) \notin Read
               \/ shown'[ModelOf(f.kind)] = NoRequest
               \/ /\ shown'[ModelOf(f.kind)] = shown[ModelOf(f.kind)]
                  /\ \E g \in ToSet(stack) :
                        /\ g.kind # "nodes" /\ ModelOf(g.kind) = ModelOf(f.kind)
                        /\ g.node = f.node /\ g.scope = f.scope /\ g.opened = f.opened
    PROVE  ShownIsOfView'
<1> SUFFICES ASSUME NEW f \in ToSet(stack'), ModelOf(f.kind) \in Read,
                    shown'[ModelOf(f.kind)] # NoRequest, f.kind # "nodes"
             PROVE  LET r == shown'[ModelOf(f.kind)]
                    IN  /\ r.kind = ModelOf(f.kind) /\ r.node = f.node /\ r.scope = f.scope
                        /\ r.session = session /\ r.id >= f.opened
  BY DEF ShownIsOfView
<1>1. PICK g \in ToSet(stack) :
          /\ g.kind # "nodes" /\ ModelOf(g.kind) = ModelOf(f.kind)
          /\ g.node = f.node /\ g.scope = f.scope /\ g.opened = f.opened
  OBVIOUS
<1>2. shown'[ModelOf(f.kind)] = shown[ModelOf(f.kind)]
  OBVIOUS
<1>3. QED
  BY <1>1, <1>2 DEF RequestsInv, ShownIsOfView

-----------------------------------------------------------------------------
(* Keys that open a view *)

LEMMA FrameIs ==
    ASSUME NEW kind \in Kinds, NEW node \in Nodes, NEW scope \in {""} \cup Scopes, NEW n \in Nat
    PROVE  /\ Frame(kind, node, scope, n) \in Frames
           /\ Frame(kind, node, scope, n).kind = kind /\ Frame(kind, node, scope, n).node = node
           /\ Frame(kind, node, scope, n).scope = scope /\ Frame(kind, node, scope, n).opened = n
  BY DEF Frame, Frames

\* One screen is emptied.
LEMMA EmptiedIs ==
    ASSUME RequestsTyped, NEW kind \in Read, shown' = [shown EXCEPT ![kind] = NoRequest]
    PROVE  /\ shown' \in [Read -> Asking \cup {NoRequest}]
           /\ shown'[kind] = NoRequest
           /\ \A k \in Read \ {kind} : shown'[k] = shown[k]
  BY DEF RequestsTyped

\* The frame of a view and its first request.
LEMMA OpenIs ==
    ASSUME RequestsTyped, NEW kind \in Read, NEW node \in Nodes, NEW scope \in {""} \cup Scopes,
           NEW held, Ask(kind, node, scope, FALSE, held)
    PROVE  /\ serial' = serial + 1 /\ serial \in Nat /\ serial + 1 \in Nat
           /\ \E new \in Asking : Begun(new, kind, node, scope, FALSE, held)
           /\ \E frame \in Frames :
                 /\ frame.kind = kind /\ frame.node = node /\ frame.scope = scope
                 /\ frame.opened = serial + 1 /\ frame = Frame(kind, node, scope, serial + 1)
<1>1. FALSE \in BOOLEAN
  OBVIOUS
<1>2. /\ serial' = serial + 1 /\ serial \in Nat /\ serial + 1 \in Nat
      /\ \E new \in Asking : Begun(new, kind, node, scope, FALSE, held)
  BY <1>1, AskIs, Zenon
<1>3. kind \in Kinds
  BY DEF Kinds
<1>4. PICK frame : frame = [kind |-> kind, node |-> node, scope |-> scope, opened |-> serial + 1]
  OBVIOUS
<1>5. /\ frame.kind = kind /\ frame.node = node /\ frame.scope = scope
      /\ frame.opened = serial + 1
  BY <1>4
<1>6. frame \in Frames
  BY <1>2, <1>3, <1>4 DEF Frames
<1>7. frame = Frame(kind, node, scope, serial + 1)
  BY <1>4, Zenon DEF Frame
<1>8. QED
  BY <1>2, <1>5, <1>6, <1>7, Zenon

\* A view with its first request on top of the others.
LEMMA OpenedKeeps ==
    ASSUME RequestsInv, NEW new \in Asking, NEW frame \in Frames,
           serial' = serial + 1, new.id = serial + 1, new.session = session,
           slots' = WithoutSlot(slots, new.kind, new.node) \cup {new},
           commands' = commands \cup {Asked(new)},
           new.kind \notin {"nodes", "status"},
           frame.kind = new.kind, frame.node = new.node, frame.scope = new.scope,
           frame.opened = serial + 1,
           stack' = Append(stack, frame), Piled(stack'),
           shown' = [shown EXCEPT ![new.kind] = NoRequest], Stays,
           new.kind \in Streamed => \A f \in ToSet(stack) : ModelOf(f.kind) # new.kind
    PROVE  RequestsInv'
<1>1. serial' = serial + 1 /\ serial \in Nat /\ serial + 1 \in Nat
  BY DEF RequestsInv, RequestsTyped
<1>2. PICK kind, node, scope :
         /\ new.id = serial + 1 /\ new.kind = kind /\ new.node = node /\ new.scope = scope
         /\ new.session = session
         /\ slots' = WithoutSlot(slots, kind, node) \cup {new}
         /\ commands' = commands \cup {Asked(new)}
  OBVIOUS
<1>3. kind \in Read
  BY <1>2 DEF Asking
<1>4. kind \in Kinds /\ ModelOf(kind) = kind
  BY <1>3, ModelsOfKinds DEF Kinds
<1>5. frame \in Frames /\ frame.kind = kind /\ frame.node = node /\ frame.scope = scope
      /\ frame.opened = serial + 1
  BY <1>2
<1>6. PICK views : views = stack
  OBVIOUS
<1>7. views \in Seq(Frames) /\ stack' = Append(views, frame)
  BY <1>6 DEF RequestsInv, RequestsTyped
<1>8. stack' \in Seq(Frames) /\ ToSet(stack') = ToSet(stack) \cup {frame}
  BY <1>5, <1>6, <1>7, AppendIs
<1>9. UNCHANGED <<session, attached, streams, wanted>>
  BY DEF Stays
<1>10. \A f \in ToSet(stack') :
          /\ f.opened <= serial + 1
          /\ f \in ToSet(stack) \/ (ModelOf(f.kind) = kind /\ f.node = node)
  <2>1. \A f \in ToSet(stack) : f.opened \in Nat /\ f.opened <= serial
    BY TopIs DEF RequestsInv, SlotsKept, Frames
  <2>2. \A f \in ToSet(stack) : f.opened <= serial + 1
    BY <1>1, <2>1, NextNumber
  <2>3. frame.opened <= serial + 1
    BY <1>1, <1>5
  <2>4. QED
    BY <1>4, <1>5, <1>8, <2>2, <2>3
<1>11. \A r \in slots : r.kind \in {"list", "containers", "usage"} => OpenIn(stack', r.kind, r.node)
  <2>1. ASSUME NEW r \in slots, r.kind \in {"list", "containers", "usage"}
        PROVE  OpenIn(stack', r.kind, r.node)
    <3>1. PICK f \in ToSet(stack) : ModelOf(f.kind) = r.kind /\ f.node = r.node
      BY <2>1 DEF RequestsInv, SlotsKept, OpenIn, ToSet
    <3>2. f \in ToSet(stack')
      BY <1>8
    <3>3. QED
      BY <3>1, <3>2 DEF OpenIn, ToSet
  <2>2. QED
    BY <2>1
<1>12. \E f \in ToSet(stack') : ModelOf(f.kind) = kind /\ f.node = node /\ f.scope = scope
  BY <1>4, <1>5, <1>8
<1>13. SlotsKept' /\ CommandsKept'
  BY <1>1, <1>2, <1>8, <1>9, <1>10, <1>11, <1>12, AskKeeps, ZenonT(60)
<1>14. CloseStreams({})
  BY <1>9, NoneCloses DEF RequestsInv
<1>15. StreamsKept' /\ StreamsHeld'
  <2>1. kind \in Streamed => attached'[kind] = 0
    BY <1>2, <1>9 DEF RequestsInv, StreamsKept
  <2>2. \A k \in Streamed :
           (\E f \in ToSet(stack) : ModelOf(f.kind) = k) => \E f \in ToSet(stack') : ModelOf(f.kind) = k
    BY <1>8
  <2>3. {} \in SUBSET Streamed /\ Streamed \ {} = Streamed
    OBVIOUS
  <2>4. QED
    BY <1>1, <1>2, <1>14, <2>1, <2>2, <2>3, AskKeepsStreams
<1>16. /\ shown' \in [Read -> Asking \cup {NoRequest}]
       /\ shown'[kind] = NoRequest
       /\ \A k \in Read \ {kind} : shown'[k] = shown[k]
  BY <1>2, <1>3, EmptiedIs DEF RequestsInv
<1>17. ShownIsOfView'
  BY <1>4, <1>5, <1>8, <1>9, <1>16, ShownKeeps
<1>18. slots' \subseteq Asking /\ commands' \subseteq Calls
  BY <1>2, AskTyped DEF RequestsInv
<1>19. RequestsTyped'
  BY <1>1, <1>8, <1>9, <1>16, <1>18 DEF RequestsInv, RequestsTyped
<1>20. QED
  BY <1>13, <1>15, <1>17, <1>19 DEF RequestsInv

\* No view of a kind is open below the view it opens from.
LEMMA NotYetOpen ==
    ASSUME RequestsTyped, Piled(stack)
    PROVE  /\ Top.kind = "nodes" =>
                 Len(stack) = 1 /\ \A i \in DOMAIN stack : stack[i].kind = "nodes"
           /\ Top.kind \in {"list", "containers"} =>
                 /\ Len(stack) = 2 /\ stack[2] = Top
                 /\ \A i \in DOMAIN stack : stack[i].kind \in {"nodes", Top.kind}
           /\ Top.kind = "kinds" => \A i \in DOMAIN stack : stack[i].kind # "instances"
           /\ Top.kind = "instances" => \A i \in DOMAIN stack : stack[i].kind # "object"
<1>1. /\ Len(stack) \in Nat /\ Len(stack) >= 1 /\ DOMAIN stack = 1..Len(stack)
      /\ Top = stack[Len(stack)]
      /\ Top.kind = "nodes" => Len(stack) = 1
      /\ Top.kind \in {"list", "containers"} => Len(stack) = 2
  BY TopIs
<1>2. stack[1].kind = "nodes"
  BY RootIs DEF Piled
<1>3. CASE Top.kind = "nodes"
  BY <1>1, <1>2, <1>3
<1>4. CASE Top.kind \in {"list", "containers"}
  <2>1. Len(stack) = 2 /\ DOMAIN stack = 1..2
    BY <1>1, <1>4
  <2>2. \A i \in 1..2 : i = 1 \/ i = 2
    OBVIOUS
  <2>3. QED
    BY <1>1, <1>2, <1>4, <2>1, <2>2
<1>5. ASSUME NEW kind, NEW above, Top.kind = kind, kind # "help", NEW i \in DOMAIN stack, Upon(stack, i, kind)
      PROVE  FALSE
  <2>1. i - 1 \in DOMAIN stack /\ stack[i - 1].kind = kind /\ Len(stack) \in DOMAIN stack
    BY <1>1, <1>5 DEF Upon
  <2>2. i - 1 = Len(stack)
    BY <1>1, <1>5, <2>1 DEF Piled
  <2>3. QED
    BY <1>1, <1>5, <2>2
<1>6. \A i \in DOMAIN stack : Placed(stack, i)
  BY DEF Piled
<1>7. /\ Top.kind = "kinds" => \A i \in DOMAIN stack : stack[i].kind # "instances"
      /\ Top.kind = "instances" => \A i \in DOMAIN stack : stack[i].kind # "object"
  BY <1>5, <1>6 DEF Placed
<1>8. QED
  BY <1>3, <1>4, <1>7

\* The view that opens on top of the one on top.
LEMMA OpenedIsPiled ==
    ASSUME RequestsInv, NEW frame \in Frames,
           \/ frame.kind \in {"list", "containers"} /\ Top.kind = "nodes"
           \/ frame.kind = "usage" /\ Top.kind = "list"
           \/ frame.kind = "instances" /\ Top.kind = "kinds"
           \/ frame.kind = "object" /\ Top.kind = "instances",
           stack' = Append(stack, frame)
    PROVE  /\ Piled(stack')
           /\ \A i \in DOMAIN stack : stack[i].kind # frame.kind
<1>1. PICK views : views = stack
  OBVIOUS
<1>2. views \in Seq(Frames) /\ Piled(views) /\ views[Len(views)] = Top
  BY <1>1, TopIs DEF RequestsInv
<1>3. \A i \in DOMAIN stack : stack[i].kind # frame.kind
  BY NotYetOpen DEF RequestsInv
<1>4. frame.kind \in {"list", "containers"} => Len(views) = 1
  BY <1>1, TopIs DEF RequestsInv
<1>5. Piled(Append(views, frame))
  BY <1>1, <1>2, <1>3, <1>4, TopIsPiled
<1>6. QED
  BY <1>1, <1>3, <1>5

\* What the keys do that open a view on top.
Opening(new, frame) ==
    /\ serial' = serial + 1 /\ new.id = serial + 1 /\ new.session = session
    /\ slots' = WithoutSlot(slots, new.kind, new.node) \cup {new}
    /\ commands' = commands \cup {Asked(new)}
    /\ frame.kind = new.kind /\ frame.node = new.node /\ frame.scope = new.scope
    /\ frame.opened = serial + 1 /\ stack' = Append(stack, frame)
    /\ shown' = [shown EXCEPT ![new.kind] = NoRequest] /\ Stays

LEMMA OpeningKeeps ==
    ASSUME RequestsInv, NEW new \in Asking, NEW frame \in Frames, Opening(new, frame),
           \/ frame.kind \in {"list", "containers"} /\ Top.kind = "nodes"
           \/ frame.kind = "usage" /\ Top.kind = "list"
           \/ frame.kind = "instances" /\ Top.kind = "kinds"
           \/ frame.kind = "object" /\ Top.kind = "instances"
    PROVE  RequestsInv'
<1>1. Piled(stack') /\ \A i \in DOMAIN stack : stack[i].kind # frame.kind
  BY OpenedIsPiled DEF Opening
<1>2. ASSUME frame.kind \in Streamed, NEW f \in ToSet(stack), ModelOf(f.kind) = frame.kind
      PROVE  FALSE
  <2>1. PICK i \in DOMAIN stack : stack[i] = f
    BY DEF ToSet
  <2>2. f.kind \in {"nodes", "list"}
    BY <1>2, <2>1, NotYetOpen DEF Streamed, RequestsInv
  <2>3. f.kind \in Read /\ f.kind \in Kinds
    BY <2>2 DEF Read, Kinds
  <2>4. ModelOf(f.kind) = f.kind
    BY <2>3, ModelsOfKinds
  <2>5. QED
    BY <1>2, <2>2, <2>4 DEF Streamed
<1>3. new.kind \notin {"nodes", "status"}
  BY DEF Opening
<1>4. QED
  BY <1>1, <1>2, <1>3, OpenedKeeps DEF Opening

\* From the definitions of the keys to that.
LEMMA OpeningIs ==
    ASSUME RequestsTyped, NEW kind \in Read, NEW node \in Nodes, NEW scope \in {""} \cup Scopes,
           stack' = Append(stack, Frame(kind, node, scope, serial + 1)),
           Ask(kind, node, scope, FALSE, slots),
           shown' = [shown EXCEPT ![kind] = NoRequest], Stays
    PROVE  \E new \in Asking, frame \in Frames : Opening(new, frame) /\ frame.kind = kind
<1>1. /\ serial' = serial + 1
      /\ \E new \in Asking : Begun(new, kind, node, scope, FALSE, slots)
      /\ \E frame \in Frames :
                 /\ frame.kind = kind /\ frame.node = node /\ frame.scope = scope
                 /\ frame.opened = serial + 1 /\ frame = Frame(kind, node, scope, serial + 1)
  BY OpenIs, Zenon
<1>2. PICK new \in Asking : Begun(new, kind, node, scope, FALSE, slots)
  BY <1>1, Zenon
<1>3. PICK frame \in Frames :
                 /\ frame.kind = kind /\ frame.node = node /\ frame.scope = scope
                 /\ frame.opened = serial + 1 /\ frame = Frame(kind, node, scope, serial + 1)
  BY <1>1, Zenon
<1>4. Opening(new, frame)
  BY <1>1, <1>2, <1>3, Zenon DEF Opening, Begun
<1>5. QED
  BY <1>3, <1>4, Zenon

LEMMA OpenNodeScreenKeeps ==
    ASSUME RequestsInv, NEW kind \in Screens, NEW node \in Node, OpenNodeScreen(kind, node)
    PROVE  RequestsInv'
<1>1. kind \in {"list", "containers"} /\ Top.kind = "nodes"
  BY Zenon DEF OpenNodeScreen
<1>2. PICK scope : scope = IF kind = "containers" THEN "system" ELSE ""
  OBVIOUS
<1>3. scope \in {""} \cup Scopes /\ kind \in Read /\ node \in Nodes
  BY <1>1, <1>2 DEF Scopes, Read, Streamed, Nodes
<1>4. /\ stack' = Append(stack, Frame(kind, node, scope, serial + 1))
      /\ Ask(kind, node, scope, FALSE, slots)
      /\ shown' = [shown EXCEPT ![kind] = NoRequest] /\ Stays
  BY <1>2, Zenon DEF OpenNodeScreen
<1>5. RequestsTyped
  BY DEF RequestsInv
<1>6. PICK new \in Asking, frame \in Frames : Opening(new, frame) /\ frame.kind = kind
  BY <1>3, <1>4, <1>5, OpeningIs, Zenon
<1>7. QED
  BY <1>1, <1>6, OpeningKeeps

LEMMA OpenUsageKeeps ==
    ASSUME RequestsInv, OpenUsage
    PROVE  RequestsInv'
<1>1. Top.kind = "list"
  BY Zenon DEF OpenUsage
<1>2. PICK kind, node, scope : kind = "usage" /\ node = Top.node /\ scope = ""
  OBVIOUS
<1>3. scope \in {""} \cup Scopes /\ kind \in Read /\ node \in Nodes
  BY <1>2, TopIs DEF Scopes, Read, Streamed, Frames, RequestsInv
<1>4. /\ stack' = Append(stack, Frame(kind, node, scope, serial + 1))
      /\ Ask(kind, node, scope, FALSE, slots)
      /\ shown' = [shown EXCEPT ![kind] = NoRequest] /\ Stays
  BY <1>2, Zenon DEF OpenUsage
<1>5. RequestsTyped
  BY DEF RequestsInv
<1>6. PICK new \in Asking, frame \in Frames : Opening(new, frame) /\ frame.kind = kind
  BY <1>3, <1>4, <1>5, OpeningIs, Zenon
<1>7. QED
  BY <1>1, <1>2, <1>6, OpeningKeeps

LEMMA OpenInstancesKeeps ==
    ASSUME RequestsInv, NEW selected \in Node, OpenInstances(selected)
    PROVE  RequestsInv'
<1>1. Top.kind = "kinds"
  BY Zenon DEF OpenInstances
<1>2. PICK kind, node, scope : kind = "instances" /\ node = selected /\ scope = ""
  OBVIOUS
<1>3. scope \in {""} \cup Scopes /\ kind \in Read /\ node \in Nodes
  BY <1>2 DEF Read, Resources, Nodes
<1>4. /\ stack' = Append(stack, Frame(kind, node, scope, serial + 1))
      /\ Ask(kind, node, scope, FALSE, slots)
      /\ shown' = [shown EXCEPT ![kind] = NoRequest] /\ Stays
  BY <1>2, Zenon DEF OpenInstances
<1>5. RequestsTyped
  BY DEF RequestsInv
<1>6. PICK new \in Asking, frame \in Frames : Opening(new, frame) /\ frame.kind = kind
  BY <1>3, <1>4, <1>5, OpeningIs, Zenon
<1>7. QED
  BY <1>1, <1>2, <1>6, OpeningKeeps

LEMMA OpenObjectKeeps ==
    ASSUME RequestsInv, OpenObject
    PROVE  RequestsInv'
<1>1. Top.kind = "instances"
  BY Zenon DEF OpenObject
<1>2. PICK kind, node, scope : kind = "object" /\ node = Top.node /\ scope = ""
  OBVIOUS
<1>3. scope \in {""} \cup Scopes /\ kind \in Read /\ node \in Nodes
  BY <1>2, TopIs DEF Read, Resources, Frames, RequestsInv
<1>4. /\ stack' = Append(stack, Frame(kind, node, scope, serial + 1))
      /\ Ask(kind, node, scope, FALSE, slots)
      /\ shown' = [shown EXCEPT ![kind] = NoRequest] /\ Stays
  BY <1>2, Zenon DEF OpenObject
<1>5. RequestsTyped
  BY DEF RequestsInv
<1>6. PICK new \in Asking, frame \in Frames : Opening(new, frame) /\ frame.kind = kind
  BY <1>3, <1>4, <1>5, OpeningIs, Zenon
<1>7. QED
  BY <1>1, <1>2, <1>6, OpeningKeeps

-----------------------------------------------------------------------------
(* Keys that start a screen over *)

\* A list, the containers and the usage are asked for the node of their view.
LEMMA SlotOfView ==
    ASSUME RequestsInv, NEW r \in slots, r.kind \in {"list", "containers", "usage"},
           NEW f \in ToSet(stack), ModelOf(f.kind) = r.kind
    PROVE  r.node = f.node
<1>1. PICK g \in ToSet(stack) : ModelOf(g.kind) = r.kind /\ g.node = r.node
  BY DEF RequestsInv, SlotsKept, OpenIn, ToSet
<1>2. PICK views : views = stack
  OBVIOUS
<1>3. views \in Seq(Frames) /\ Piled(views)
  BY <1>2 DEF RequestsInv, RequestsTyped
<1>4. r.kind \in Read
  BY DEF Read, Streamed
<1>5. QED
  BY <1>1, <1>2, <1>3, <1>4, OneOfEach

\* The numbers of the frames of a stack stay behind.
LEMMA OpenedBefore ==
    ASSUME RequestsInv, NEW f \in ToSet(stack)
    PROVE  f.opened <= serial + 1 /\ f.opened <= serial
<1>1. f.opened \in Nat /\ f.opened <= serial /\ serial \in Nat
  BY TopIs DEF RequestsInv, SlotsKept, Frames, RequestsTyped
<1>2. QED
  BY <1>1, NextNumber

LEMMA SwitchScopeIs ==
    ASSUME RequestsInv, NEW new \in Asking, NEW frame \in Frames, Top.kind = "containers",
           serial' = serial + 1, new.id = serial + 1, new.session = session,
           new.kind = "containers", new.node = Top.node,
           slots' = WithoutSlot(slots, new.kind, new.node) \cup {new},
           commands' = commands \cup {Asked(new)},
           frame.kind = "containers", frame.node = Top.node, frame.scope = new.scope,
           frame.opened = serial + 1,
           stack' = [stack EXCEPT ![Len(stack)] = frame],
           shown' = [shown EXCEPT !["containers"] = NoRequest],
           CloseStreams({"containers"}), session' = session, wanted' = wanted
    PROVE  RequestsInv'
<1>1. PICK views : views = stack
  OBVIOUS
<1>2. views \in Seq(Frames) /\ Piled(views) /\ views[Len(views)].kind = "containers"
  BY <1>1, TopIs DEF RequestsInv
<1>3. /\ stack' = Append(SubSeq(views, 1, 1), frame) /\ Piled(stack') /\ Len(views) = 2
  <2>1. /\ [views EXCEPT ![Len(views)] = frame] = Append(SubSeq(views, 1, Len(views) - 1), frame)
        /\ Len(views) = 2 /\ Piled([views EXCEPT ![Len(views)] = frame])
    BY <1>2, SwitchedIsPiled
  <2>2. Len(views) - 1 = 1
    BY <2>1
  <2>3. QED
    BY <1>1, <2>1, <2>2
<1>4. SubSeq(views, 1, 1) \in Seq(Frames) /\ ToSet(SubSeq(views, 1, 1)) \subseteq ToSet(views)
      /\ \A f \in ToSet(SubSeq(views, 1, 1)) : f.kind = "nodes"
  <2>1. 1 \in 1..Len(views)
    BY <1>3
  <2>2. /\ SubSeq(views, 1, 1) \in Seq(Frames) /\ DOMAIN SubSeq(views, 1, 1) = 1..1
        /\ SubSeq(views, 1, 1)[1] = views[1] /\ ToSet(SubSeq(views, 1, 1)) \subseteq ToSet(views)
    BY <1>2, <2>1, BelowIs
  <2>3. views[1].kind = "nodes"
    BY <1>2, RootIs DEF Piled
  <2>4. QED
    BY <2>2, <2>3 DEF ToSet
<1>5. stack' \in Seq(Frames) /\ ToSet(stack') = ToSet(SubSeq(views, 1, 1)) \cup {frame}
  <2>1. PICK left : left = SubSeq(views, 1, 1)
    OBVIOUS
  <2>2. left \in Seq(Frames) /\ stack' = Append(left, frame)
    BY <1>3, <1>4, <2>1
  <2>3. Append(left, frame) \in Seq(Frames) /\ ToSet(Append(left, frame)) = ToSet(left) \cup {frame}
    BY <2>2, AppendIs
  <2>4. QED
    BY <2>1, <2>2, <2>3
<1>6. \A f \in ToSet(stack) : f.kind = "nodes" \/ f = Top
  <2>1. Len(stack) = 2 /\ DOMAIN stack = 1..2 /\ stack[2] = Top
    BY <1>1, <1>3, TopIs DEF RequestsInv
  <2>2. \A i \in 1..2 : i = 1 \/ i = 2
    OBVIOUS
  <2>3. stack[1].kind = "nodes"
    BY <1>1, <1>2, RootIs DEF Piled
  <2>4. QED
    BY <2>1, <2>2, <2>3 DEF ToSet
<1>7. /\ \A kind : kind = "nodes" => ModelOf(kind) = "nodes"
      /\ ModelOf("containers") = "containers" /\ frame \in ToSet(stack') /\ Top \in ToSet(stack)
  BY <1>5, TopIs, ModelsOfKinds DEF Kinds, Read, Streamed, RequestsInv
<1>8. ASSUME NEW r \in slots, r.kind \in {"list", "containers", "usage"}
      PROVE  r.kind = "containers" /\ r.node = Top.node
  <2>1. PICK f \in ToSet(stack) : ModelOf(f.kind) = r.kind
    BY <1>8 DEF RequestsInv, SlotsKept, OpenIn, ToSet
  <2>2. f = Top
    BY <1>6, <1>7, <1>8, <2>1
  <2>3. QED
    BY <1>7, <1>8, <2>1, <2>2, SlotOfView
<1>9. SlotsKept' /\ CommandsKept'
  <2>1. \A f \in ToSet(stack') :
          /\ f.opened <= serial + 1
          /\ f \in ToSet(stack) \/ (ModelOf(f.kind) = new.kind /\ f.node = new.node)
    <3>1. frame.opened <= serial + 1
      <4>1. serial + 1 \in Nat
        BY DEF RequestsInv, RequestsTyped
      <4>2. QED
        BY <4>1
    <3>2. QED
      BY <1>1, <1>4, <1>5, <1>7, <3>1, OpenedBefore
  <2>2. \A r \in slots : r.kind \in {"list", "containers", "usage"} => OpenIn(stack', r.kind, r.node)
    BY <1>7, <1>8 DEF OpenIn, ToSet
  <2>3. \E f \in ToSet(stack') :
               ModelOf(f.kind) = new.kind /\ f.node = new.node /\ f.scope = new.scope
    BY <1>7
  <2>4. QED
    BY <1>3, <1>5, <2>1, <2>2, <2>3, AskKeeps
<1>10. attached' \in [Streamed -> Nat] /\ streams' \subseteq streams /\ attached'["containers"] = 0
  BY CloseIs DEF RequestsInv, Streamed
<1>11. StreamsKept' /\ StreamsHeld'
  <2>1. PICK kinds : kinds = {"containers"}
    OBVIOUS
  <2>2. kinds \in SUBSET Streamed /\ CloseStreams(kinds)
    BY <2>1 DEF Streamed
  <2>3. \A r \in slots : r.kind \in kinds => r.kind = new.kind /\ r.node = new.node
    BY <1>8, <2>1
  <2>4. \A k \in Streamed \ kinds :
           (\E f \in ToSet(stack) : ModelOf(f.kind) = k) => \E f \in ToSet(stack') : ModelOf(f.kind) = k
    BY <1>6, <1>7, <2>1 DEF Streamed
  <2>5. new.kind \in Streamed => attached'[new.kind] = 0
    BY <1>10
  <2>6. QED
    BY <2>2, <2>3, <2>4, <2>5, AskKeepsStreams
<1>12. /\ shown' \in [Read -> Asking \cup {NoRequest}] /\ shown'["containers"] = NoRequest
  BY EmptiedIs DEF RequestsInv, Read, Streamed
<1>13. ShownIsOfView'
  BY <1>4, <1>5, <1>7, <1>12, ShownKeeps
<1>14. slots' \subseteq Asking /\ commands' \subseteq Calls
  BY AskTyped DEF RequestsInv
<1>15. RequestsTyped'
  <2>1. serial' \in Nat
    BY DEF RequestsInv, RequestsTyped
  <2>2. QED
    BY <1>5, <1>10, <1>12, <1>14, <2>1 DEF RequestsInv, RequestsTyped
<1>16. QED
  BY <1>3, <1>9, <1>11, <1>13, <1>15 DEF RequestsInv

LEMMA SwitchScopeKeeps ==
    ASSUME RequestsInv, NEW scope \in Scopes, SwitchScope(scope)
    PROVE  RequestsInv'
<1>1. PICK kind, node : kind = "containers" /\ node = Top.node
  OBVIOUS
<1>2. scope \in {""} \cup Scopes /\ kind \in Read /\ node \in Nodes
  BY <1>1, TopIs DEF Read, Streamed, Frames, RequestsInv
<1>3. /\ Top.kind = "containers"
      /\ stack' = [stack EXCEPT ![Len(stack)] = Frame(kind, node, scope, serial + 1)]
      /\ Ask(kind, node, scope, FALSE, slots)
      /\ shown' = [shown EXCEPT !["containers"] = NoRequest]
      /\ CloseStreams({"containers"}) /\ session' = session /\ wanted' = wanted
  BY <1>1, Zenon DEF SwitchScope
<1>4. RequestsTyped
  BY DEF RequestsInv
<1>5. /\ serial' = serial + 1
      /\ \E new \in Asking : Begun(new, kind, node, scope, FALSE, slots)
      /\ \E frame \in Frames :
                 /\ frame.kind = kind /\ frame.node = node /\ frame.scope = scope
                 /\ frame.opened = serial + 1 /\ frame = Frame(kind, node, scope, serial + 1)
  BY <1>2, <1>3, <1>4, OpenIs, Zenon
<1>6. PICK new \in Asking : Begun(new, kind, node, scope, FALSE, slots)
  BY <1>5, Zenon
<1>7. PICK frame \in Frames :
                 /\ frame.kind = kind /\ frame.node = node /\ frame.scope = scope
                 /\ frame.opened = serial + 1 /\ frame = Frame(kind, node, scope, serial + 1)
  BY <1>5, Zenon
<1>8. /\ new.id = serial + 1 /\ new.session = session
      /\ new.kind = "containers" /\ new.node = Top.node
      /\ slots' = WithoutSlot(slots, new.kind, new.node) \cup {new}
      /\ commands' = commands \cup {Asked(new)} /\ new.scope = scope
  BY <1>1, <1>6, Zenon DEF Begun
<1>9. stack' = [stack EXCEPT ![Len(stack)] = frame]
  BY <1>3, <1>7, Zenon
<1>10. /\ frame.kind = "containers" /\ frame.node = Top.node /\ frame.scope = new.scope
       /\ frame.opened = serial + 1
  BY <1>1, <1>7, <1>8, Zenon
<1>11. /\ Top.kind = "containers" /\ serial' = serial + 1
       /\ shown' = [shown EXCEPT !["containers"] = NoRequest]
       /\ CloseStreams({"containers"}) /\ session' = session /\ wanted' = wanted
  BY <1>3, <1>5, Zenon
<1>12. QED
  BY <1>8, <1>9, <1>10, <1>11, SwitchScopeIs

LEMMA RefreshIs ==
    ASSUME RequestsInv, NEW new \in Asking, Top.kind \in Read,
           serial' = serial + 1, new.id = serial + 1, new.session = session,
           new.kind = Top.kind, new.node = Top.node, new.scope = Top.scope,
           slots' = WithoutSlot(slots, new.kind, new.node) \cup {new},
           commands' = commands \cup {Asked(new)},
           shown' = IF Top.kind \in Streamed THEN [shown EXCEPT ![Top.kind] = NoRequest] ELSE shown,
           CloseStreams(Streamed \cap {Top.kind}), UNCHANGED <<session, stack, wanted>>
    PROVE  RequestsInv'
<1>1. stack \in Seq(Frames) /\ Piled(stack) /\ stack' = stack /\ session' = session
  BY TopIs DEF RequestsInv
<1>2. Top \in ToSet(stack) /\ ModelOf(Top.kind) = Top.kind
  BY TopIs, ModelsOfKinds DEF Kinds, RequestsInv
<1>3. PICK kinds : kinds = Streamed \cap {Top.kind}
  OBVIOUS
<1>4. kinds \in SUBSET Streamed /\ CloseStreams(kinds)
  BY <1>3
<1>5. SlotsKept' /\ CommandsKept'
  <2>1. \A f \in ToSet(stack') : f.opened <= serial + 1 /\ f \in ToSet(stack)
    BY <1>1, OpenedBefore
  <2>2. \A r \in slots : r.kind \in {"list", "containers", "usage"} => OpenIn(stack', r.kind, r.node)
    BY <1>1 DEF RequestsInv, SlotsKept
  <2>3. \E f \in ToSet(stack') :
               ModelOf(f.kind) = new.kind /\ f.node = new.node /\ f.scope = new.scope
    BY <1>1, <1>2
  <2>4. QED
    BY <1>1, <2>1, <2>2, <2>3, AskKeeps
<1>6. /\ attached' \in [Streamed -> Nat] /\ streams' \subseteq streams
      /\ \A k \in kinds : attached'[k] = 0
  BY <1>4, CloseIs DEF RequestsInv
<1>7. StreamsKept' /\ StreamsHeld'
  <2>1. new.kind \in Streamed => attached'[new.kind] = 0
    BY <1>3, <1>6
  <2>2. \A r \in slots : r.kind \in kinds => r.kind = new.kind /\ r.node = new.node
    BY <1>2, <1>3, SlotOfView DEF Streamed
  <2>3. \A k \in Streamed \ kinds :
           (\E f \in ToSet(stack) : ModelOf(f.kind) = k) => \E f \in ToSet(stack') : ModelOf(f.kind) = k
    BY <1>1
  <2>4. QED
    BY <1>4, <2>1, <2>2, <2>3, AskKeepsStreams
<1>8. /\ shown' \in [Read -> Asking \cup {NoRequest}]
      /\ \A k \in Read : shown'[k] = NoRequest \/ shown'[k] = shown[k]
  BY DEF RequestsInv, RequestsTyped
<1>9. ShownIsOfView'
  BY <1>1, <1>8, ShownKeeps
<1>10. slots' \subseteq Asking /\ commands' \subseteq Calls
  BY AskTyped DEF RequestsInv
<1>11. RequestsTyped'
  <2>1. serial' \in Nat
    BY DEF RequestsInv, RequestsTyped
  <2>2. QED
    BY <1>1, <1>6, <1>8, <1>10, <2>1 DEF RequestsInv, RequestsTyped
<1>12. QED
  BY <1>1, <1>5, <1>7, <1>9, <1>11 DEF RequestsInv

LEMMA ReadAnewKeeps ==
    ASSUME RequestsInv, NEW auto \in BOOLEAN, Refresh(auto)
    PROVE  RequestsInv'
<1>1. PICK kind, node, scope : kind = Top.kind /\ node = Top.node /\ scope = Top.scope
  OBVIOUS
<1>2. Top.kind \in Read
  BY Zenon DEF Refresh
<1>3. Top \in Frames /\ RequestsTyped
  BY TopIs, Zenon DEF RequestsInv
<1>4. scope \in {""} \cup Scopes /\ kind \in Read /\ node \in Nodes
  BY <1>1, <1>2, <1>3 DEF Frames
<1>5. PICK held : held = slots
  OBVIOUS
<1>6. Ask(kind, node, scope, auto, held)
  BY <1>1, <1>5, Zenon DEF Refresh
<1>7. serial' = serial + 1 /\ \E new \in Asking : Begun(new, kind, node, scope, auto, held)
  BY <1>3, <1>4, <1>6, AskIs, Zenon
<1>8. PICK new \in Asking : Begun(new, kind, node, scope, auto, held)
  BY <1>7, Zenon
<1>9. /\ new.id = serial + 1 /\ new.session = session
      /\ new.kind = Top.kind /\ new.node = Top.node /\ new.scope = Top.scope
      /\ slots' = WithoutSlot(slots, new.kind, new.node) \cup {new}
      /\ commands' = commands \cup {Asked(new)}
  BY <1>1, <1>5, <1>8, Zenon DEF Begun
<1>10. /\ shown' = IF Top.kind \in Streamed THEN [shown EXCEPT ![Top.kind] = NoRequest] ELSE shown
       /\ CloseStreams(Streamed \cap {Top.kind}) /\ UNCHANGED <<session, stack, wanted>>
  BY Zenon DEF Refresh
<1>11. QED
  BY <1>2, <1>7, <1>9, <1>10, RefreshIs, Zenon

-----------------------------------------------------------------------------
(* Keys that leave views, or ask nothing *)

\* Slots that are given up, under views that were open before.
LEMMA FewerSlots ==
    ASSUME RequestsInv, slots' \subseteq slots, session' = session, serial' = serial,
           \A f \in ToSet(stack') : \E g \in ToSet(stack) :
               /\ g.opened = f.opened
               /\ ModelOf(f.kind) \in Read =>
                      ModelOf(g.kind) = ModelOf(f.kind) /\ g.node = f.node /\ g.scope = f.scope,
           \A r \in slots' : r.kind \in {"list", "containers", "usage"} => OpenIn(stack', r.kind, r.node)
    PROVE  SlotsKept'
<1>1. \A r \in slots : r.kind \in Read
  BY DEF RequestsInv, RequestsTyped, Asking
<1>2. ASSUME NEW r \in slots', NEW f \in ToSet(stack'), ModelOf(f.kind) = r.kind, f.node = r.node
      PROVE  r.scope = f.scope /\ f.opened <= r.id
  <2>1. ModelOf(f.kind) \in Read /\ r \in slots
    BY <1>1, <1>2
  <2>2. PICK g \in ToSet(stack) :
           g.opened = f.opened /\ ModelOf(g.kind) = ModelOf(f.kind) /\ g.node = f.node /\ g.scope = f.scope
    BY <2>1
  <2>3. QED
    BY <1>2, <2>1, <2>2 DEF RequestsInv, SlotsKept
<1>3. \A f \in ToSet(stack') : f.opened <= serial'
  BY DEF RequestsInv, SlotsKept
<1>4. /\ \A r \in slots' : r.session = session' /\ r.id <= serial'
      /\ \A q, r \in slots' : q.kind = r.kind /\ q.node = r.node /\ q.kind \in Streamed => q = r
  BY DEF RequestsInv, SlotsKept
<1>5. QED
  BY <1>2, <1>3, <1>4 DEF SlotsKept

LEMMA SameCommands ==
    ASSUME RequestsInv, slots' \subseteq slots, commands' = commands, serial' = serial
    PROVE  CommandsKept'
  BY DEF RequestsInv, CommandsKept, UnderWay

LEMMA SameCommandsStreams ==
    ASSUME RequestsInv, slots' \subseteq slots, commands' = commands, serial' = serial,
           NEW kinds \in SUBSET Streamed, CloseStreams(kinds),
           \A r \in slots' : r.kind \notin kinds,
           \A k \in Streamed \ kinds :
               (\E f \in ToSet(stack) : ModelOf(f.kind) = k) => \E f \in ToSet(stack') : ModelOf(f.kind) = k
    PROVE  StreamsKept' /\ StreamsHeld'
<1>1. /\ streams' \subseteq streams
      /\ \A k \in Streamed \ kinds : attached'[k] = attached[k]
  BY CloseIs DEF RequestsInv
<1>2. StreamsHeld' /\ \A k \in Streamed : attached'[k] # 0 => \E f \in ToSet(stack') : ModelOf(f.kind) = k
  BY CloseKeepsHeld
<1>3. ASSUME NEW c \in commands', c.request \in slots'
      PROVE  /\ c.does = "open" => attached'[c.request.kind] = 0
             /\ c.does = "next" => attached'[c.request.kind] = c.request.id
  <2>1. c.does # "read" => c.request.kind \in Streamed
    BY DEF RequestsInv, CommandsKept, IsStream, Streamed
  <2>2. QED
    BY <1>1, <1>3, <2>1 DEF RequestsInv, StreamsKept
<1>4. /\ \A c \in commands' : c.request.id \in streams' =>
          c.does = "next" \/ (c.does = "open" /\ c.at = "posted" /\ c.result = "ok")
      /\ \A s \in streams' : s <= serial' /\ s # 0
  BY <1>1 DEF RequestsInv, StreamsKept
<1>5. QED
  BY <1>2, <1>3, <1>4 DEF StreamsKept

\* Some of the views stay.
LEMMA LeftKeeps ==
    ASSUME RequestsInv, NEW views \in Seq(Frames), Piled(views), ToSet(views) \subseteq ToSet(stack),
           Leave(views), slots' = HeldIn(views), UNCHANGED <<session, serial, commands, shown>>,
           wanted' \in BOOLEAN
    PROVE  RequestsInv'
<1>1. PICK kinds : kinds = {k \in Streamed : StreamLeft(views, k)}
  OBVIOUS
<1>2. /\ HeldIn(views) \subseteq slots
      /\ \A r \in HeldIn(views) :
             r.kind \in {"list", "containers", "usage"} => OpenIn(views, r.kind, r.node)
      /\ \A r \in HeldIn(views) : r.kind \notin kinds
      /\ \A k \in Streamed \ kinds :
             (\E f \in ToSet(stack) : ModelOf(f.kind) = k) => \E f \in ToSet(views) : ModelOf(f.kind) = k
  BY <1>1, LeaveIs
<1>3. stack' = views /\ CloseStreams(kinds) /\ kinds \in SUBSET Streamed
  BY <1>1 DEF Leave
<1>4. slots' \subseteq slots /\ session' = session /\ serial' = serial /\ commands' = commands /\ shown' = shown
  BY <1>2
<1>5. SlotsKept'
  BY <1>2, <1>3, <1>4, FewerSlots
<1>6. CommandsKept'
  BY <1>4, SameCommands
<1>7. StreamsKept' /\ StreamsHeld'
  BY <1>2, <1>3, <1>4, SameCommandsStreams
<1>8. ShownIsOfView'
  BY <1>3, <1>4, ShownKeeps
<1>9. attached' \in [Streamed -> Nat] /\ streams' \subseteq streams
  BY <1>3, CloseIs DEF RequestsInv
<1>10. RequestsTyped'
  BY <1>3, <1>4, <1>9 DEF RequestsInv, RequestsTyped
<1>11. QED
  BY <1>3, <1>5, <1>6, <1>7, <1>8, <1>10 DEF RequestsInv

LEMMA BackKeeps ==
    ASSUME RequestsInv, Back
    PROVE  RequestsInv'
<1>1. PICK views, n : views = stack /\ n = Len(stack) - 1
  OBVIOUS
<1>2. views \in Seq(Frames) /\ Piled(views)
  BY <1>1, TopIs DEF RequestsInv
<1>3. n \in 1..Len(views)
  BY <1>1, TopIs DEF Back, RequestsInv
<1>4. PICK left : left = SubSeq(views, 1, n)
  OBVIOUS
<1>5. left \in Seq(Frames) /\ Piled(left) /\ ToSet(left) \subseteq ToSet(stack)
  BY <1>1, <1>2, <1>3, <1>4, BelowIs, BelowIsPiled
<1>6. left = Front(stack)
  BY <1>1, <1>4 DEF Front
<1>7. Leave(left) /\ slots' = HeldIn(left) /\ UNCHANGED <<session, serial, commands, shown>>
      /\ wanted' \in BOOLEAN
  BY <1>6 DEF Back
<1>8. QED
  BY <1>5, <1>7, LeftKeeps

LEMMA RootIsPiled ==
    /\ <<Root>> \in Seq(Frames) /\ Piled(<<Root>>) /\ ToSet(<<Root>>) = {Root}
<1>1. PICK views : views = <<Root>>
  OBVIOUS
<1>2. views \in Seq(Frames) /\ Len(views) = 1 /\ views[1] = Root /\ DOMAIN views = 1..1
  <2>1. PICK root \in Frames : root = Root
    BY RootIs
  <2>2. <<root>> \in Seq(Frames) /\ Len(<<root>>) = 1 /\ <<root>>[1] = root
    BY <2>1
  <2>3. DOMAIN <<root>> = 1..1
    BY <2>2, LenProperties
  <2>4. QED
    BY <1>1, <2>1, <2>2, <2>3
<1>3. 1..1 = {1}
  OBVIOUS
<1>4. Placed(views, 1)
  BY <1>2, RootIs DEF Placed
<1>5. QED
  BY <1>1, <1>2, <1>3, <1>4 DEF Piled, ToSet

LEMMA ReplaceRootKeeps ==
    ASSUME RequestsInv, ReplaceRoot
    PROVE  RequestsInv'
<1>1. PICK left : left = <<Root>>
  OBVIOUS
<1>2. left \in Seq(Frames) /\ Piled(left) /\ ToSet(left) \subseteq ToSet(stack)
  BY <1>1, RootIsPiled, TopIs DEF RequestsInv
<1>3. Leave(left) /\ slots' = HeldIn(left) /\ UNCHANGED <<session, serial, commands, shown>>
      /\ wanted' \in BOOLEAN
  BY <1>1 DEF ReplaceRoot
<1>4. QED
  BY <1>2, <1>3, LeftKeeps

\* A view without a read of its own on top of the others: what it shows, if it
\* shows anything, the view below shows.
LEMMA PushedKeeps ==
    ASSUME RequestsInv, NEW frame \in Frames, NEW below \in ToSet(stack),
           stack' = Append(stack, frame), Piled(stack'),
           frame.opened = below.opened,
           ModelOf(frame.kind) \in Read =>
               /\ below.kind # "nodes" /\ ModelOf(below.kind) = ModelOf(frame.kind)
               /\ below.node = frame.node /\ below.scope = frame.scope,
           UNCHANGED <<serial, slots, commands, shown>>, Stays
    PROVE  RequestsInv'
<1>1. PICK views : views = stack
  OBVIOUS
<1>2. views \in Seq(Frames) /\ stack' = Append(views, frame)
  BY <1>1 DEF RequestsInv, RequestsTyped
<1>3. stack' \in Seq(Frames) /\ ToSet(stack') = ToSet(stack) \cup {frame}
  BY <1>1, <1>2, AppendIs
<1>4. /\ session' = session /\ serial' = serial /\ slots' = slots /\ commands' = commands
      /\ shown' = shown /\ attached' = attached /\ streams' = streams /\ wanted' = wanted
  BY DEF Stays
<1>5. \A r \in slots : r.kind \in {"list", "containers", "usage"} => OpenIn(stack', r.kind, r.node)
  <2>1. ASSUME NEW r \in slots, r.kind \in {"list", "containers", "usage"}
        PROVE  OpenIn(stack', r.kind, r.node)
    <3>1. PICK f \in ToSet(stack) : ModelOf(f.kind) = r.kind /\ f.node = r.node
      BY <2>1 DEF RequestsInv, SlotsKept, OpenIn, ToSet
    <3>2. f \in ToSet(stack')
      BY <1>3
    <3>3. QED
      BY <3>1, <3>2 DEF OpenIn, ToSet
  <2>2. QED
    BY <2>1
<1>6. SlotsKept'
  BY <1>3, <1>4, <1>5, FewerSlots
<1>7. CommandsKept'
  BY <1>4, SameCommands
<1>8. StreamsKept' /\ StreamsHeld'
  <2>1. CloseStreams({}) /\ {} \in SUBSET Streamed
    BY <1>4, NoneCloses DEF RequestsInv
  <2>2. PICK none : none = {}
    OBVIOUS
  <2>3. QED
    BY <1>3, <1>4, <2>1, <2>2, SameCommandsStreams
<1>9. ShownIsOfView'
  BY <1>3, <1>4, ShownKeeps
<1>10. RequestsTyped'
  BY <1>3, <1>4 DEF RequestsInv, RequestsTyped
<1>11. QED
  BY <1>6, <1>7, <1>8, <1>9, <1>10 DEF RequestsInv

LEMMA OpenRowKeeps ==
    ASSUME RequestsInv, OpenRow
    PROVE  RequestsInv'
<1>1. PICK kind : kind = IF Top.kind = "list" THEN "detail" ELSE "item"
  OBVIOUS
<1>2. PICK below, frame : below = Top /\ frame = [below EXCEPT !.kind = kind]
  OBVIOUS
<1>3. below \in Frames /\ below \in ToSet(stack) /\ below.kind \in {"list", "containers"}
  BY <1>2, TopIs DEF OpenRow, RequestsInv
<1>4. stack' = Append(stack, frame) /\ UNCHANGED <<serial, slots, commands, shown>> /\ Stays
  BY <1>1, <1>2 DEF OpenRow
<1>5. kind = IF below.kind = "list" THEN "detail" ELSE "item"
  BY <1>1, <1>2
<1>6. kind \in Kinds
  BY <1>5 DEF Kinds
<1>7. frame \in Frames /\ frame.kind = kind /\ frame.node = below.node /\ frame.scope = below.scope
      /\ frame.opened = below.opened
  BY <1>2, <1>3, <1>6 DEF Frames
<1>8. ModelOf(frame.kind) = below.kind /\ ModelOf(below.kind) = below.kind
  BY <1>3, <1>5, <1>7, ModelsOfKinds DEF Kinds, Read, Streamed
<1>9. Piled(stack')
  <2>1. PICK views : views = stack
    OBVIOUS
  <2>2. views \in Seq(Frames) /\ Piled(views) /\ Len(views) = 2 /\ views[2] = below
    BY <1>2, <1>3, <2>1, TopIs DEF RequestsInv
  <2>3. \A i \in DOMAIN views : views[i].kind # frame.kind
    BY <1>2, <1>3, <1>5, <1>7, <2>1, NotYetOpen DEF RequestsInv
  <2>4. RowOf(frame, views[2])
    BY <1>7, <1>8, <2>2 DEF RowOf
  <2>5. frame.kind \in {"detail", "item"}
    BY <1>5, <1>7
  <2>6. Piled(Append(views, frame))
    BY <1>7, <2>2, <2>3, <2>4, <2>5, TopIsPiled
  <2>7. QED
    BY <1>4, <2>1, <2>6
<1>10. QED
  BY <1>3, <1>4, <1>7, <1>8, <1>9, PushedKeeps

LEMMA OpenHelpKeeps ==
    ASSUME RequestsInv, OpenHelp
    PROVE  RequestsInv'
<1>1. PICK frame : frame = [kind |-> "help", node |-> NoNode, scope |-> "", opened |-> 0]
  OBVIOUS
<1>2. frame = Frame("help", NoNode, "", 0)
  BY <1>1, Zenon DEF Frame
<1>3. stack' = Append(stack, frame)
  BY <1>2, Zenon DEF OpenHelp
<1>4. UNCHANGED <<serial, slots, commands, shown>> /\ Stays
  BY Zenon DEF OpenHelp
<1>5. frame \in Frames /\ frame.kind = "help" /\ frame.opened = Root.opened
  BY <1>1, RootIs DEF Frames, Kinds, Nodes
<1>6. ModelOf(frame.kind) \notin Read
  BY <1>5, ModelsOfKinds DEF Kinds, Read, Streamed, Resources
<1>7. Piled(stack')
  <2>1. PICK views : views = stack
    OBVIOUS
  <2>2. views \in Seq(Frames) /\ Piled(views)
    BY <2>1, TopIs DEF RequestsInv
  <2>3. Piled(Append(views, frame))
    BY <1>5, <2>2, TopIsPiled
  <2>4. QED
    BY <1>3, <2>1, <2>3
<1>8. Root \in ToSet(stack)
  BY TopIs DEF RequestsInv
<1>9. QED
  BY <1>3, <1>4, <1>5, <1>6, <1>7, <1>8, PushedKeeps

\* The kinds of resources on top of what was open before them.
LEMMA OpenResourcesIs ==
    ASSUME RequestsInv, NEW new \in Asking, NEW frame \in Frames, NEW views \in Seq(Frames),
           Piled(views), frame \in ToSet(views), ToSet(views) \subseteq ToSet(stack) \cup {frame},
           Leave(views), serial' = serial + 1, new.id = serial + 1, new.session = session,
           new.kind = "kinds", new.node = NoNode, new.scope = "",
           frame.kind = "kinds", frame.node = NoNode, frame.scope = "", frame.opened = serial + 1,
           slots' = WithoutSlot(HeldIn(views), new.kind, new.node) \cup {new},
           commands' = commands \cup {Asked(new)},
           shown' = [k \in Read |-> IF k \in Resources THEN NoRequest ELSE shown[k]],
           session' = session, wanted' \in BOOLEAN
    PROVE  RequestsInv'
<1>1. PICK kinds : kinds = {k \in Streamed : StreamLeft(views, k)}
  OBVIOUS
<1>2. PICK held : held = HeldIn(views)
  OBVIOUS
<1>3. /\ held \subseteq slots
      /\ \A r \in held :
             r.kind \in {"list", "containers", "usage"} => OpenIn(views, r.kind, r.node)
      /\ \A r \in held : r.kind \notin kinds
      /\ \A k \in Streamed \ kinds :
             (\E f \in ToSet(stack) : ModelOf(f.kind) = k) => \E f \in ToSet(views) : ModelOf(f.kind) = k
  BY <1>1, <1>2, LeaveIs
<1>4. stack' = views /\ CloseStreams(kinds) /\ kinds \in SUBSET Streamed
  BY <1>1 DEF Leave
<1>5. ModelOf("kinds") = "kinds" /\ "kinds" \in Resources /\ "kinds" \notin Streamed
  BY ModelsOfKinds DEF Kinds, Read, Streamed, Resources
<1>6. slots' = WithoutSlot(held, new.kind, new.node) \cup {new}
  BY <1>2
<1>7. SlotsKept' /\ CommandsKept'
  <2>1. \A f \in ToSet(stack') :
          /\ f.opened <= serial + 1
          /\ f \in ToSet(stack) \/ (ModelOf(f.kind) = new.kind /\ f.node = new.node)
    <3>1. frame.opened <= serial + 1
      <4>1. serial \in Nat
        BY Zenon DEF RequestsInv, RequestsTyped
      <4>2. QED
        BY <4>1, NextNumber, Zenon
    <3>2. QED
      BY <1>4, <1>5, <3>1, OpenedBefore
  <2>2. \E f \in ToSet(stack') :
               ModelOf(f.kind) = new.kind /\ f.node = new.node /\ f.scope = new.scope
    BY <1>4, <1>5
  <2>3. \A r \in held : r.kind \in {"list", "containers", "usage"} => OpenIn(stack', r.kind, r.node)
    BY <1>3, <1>4
  <2>4. stack' \in Seq(Frames) /\ Piled(stack')
    BY <1>4
  <2>5. QED
    BY <1>3, <1>6, <2>1, <2>2, <2>3, <2>4, AskKeeps
<1>8. StreamsKept' /\ StreamsHeld'
  <2>1. new.kind \notin Streamed
    BY <1>5
  <2>2. \A k \in Streamed \ kinds :
           (\E f \in ToSet(stack) : ModelOf(f.kind) = k) => \E f \in ToSet(stack') : ModelOf(f.kind) = k
    BY <1>3, <1>4
  <2>3. QED
    BY <1>3, <1>4, <1>6, <2>1, <2>2, AskKeepsStreams
<1>9. /\ shown' \in [Read -> Asking \cup {NoRequest}]
      /\ \A k \in Read : shown'[k] = NoRequest \/ shown'[k] = shown[k]
      /\ shown'["kinds"] = NoRequest
  <2>1. "kinds" \in Read
    BY <1>5 DEF Read
  <2>2. QED
    BY <1>5, <2>1 DEF RequestsInv, RequestsTyped
<1>10. ShownIsOfView'
  BY <1>4, <1>5, <1>9, ShownKeeps, ZenonT(60)
<1>11. slots' \subseteq Asking /\ commands' \subseteq Calls
  BY <1>3, <1>6, AskTyped DEF RequestsInv
<1>12. attached' \in [Streamed -> Nat] /\ streams' \subseteq streams
  BY <1>4, CloseIs DEF RequestsInv
<1>13. RequestsTyped'
  <2>1. serial \in Nat
    BY Zenon DEF RequestsInv, RequestsTyped
  <2>2. serial' \in Nat
    BY <2>1, NextNumber, Zenon
  <2>3. streams \subseteq Nat /\ session' \in Nat
    BY Zenon DEF RequestsInv, RequestsTyped
  <2>4. streams' \subseteq Nat
    BY <1>12, <2>3
  <2>5. QED
    BY <1>4, <1>9, <1>11, <1>12, <2>2, <2>3, <2>4, Zenon DEF RequestsTyped
<1>14. QED
  BY <1>4, <1>7, <1>8, <1>10, <1>13 DEF RequestsInv

LEMMA OpenResourcesKeeps ==
    ASSUME RequestsInv, NEW kind \in BOOLEAN, OpenResources(kind)
    PROVE  RequestsInv'
<1>1. PICK frame : frame = [kind |-> "kinds", node |-> NoNode, scope |-> "", opened |-> serial + 1]
  OBVIOUS
<1>2. frame = Frame("kinds", NoNode, "", serial + 1)
  BY <1>1, Zenon DEF Frame
<1>3. PICK n : n = UpTo("kinds")
  OBVIOUS
<1>4. PICK views : views = IF n = 0 THEN Append(stack, frame) ELSE Append(SubSeq(stack, 1, n - 1), frame)
  OBVIOUS
<1>5. PICK node, scope, asks, held :
         node = NoNode /\ scope = "" /\ asks = "kinds" /\ held = HeldIn(views)
  OBVIOUS
<1>6. /\ Leave(views) /\ Ask(asks, node, scope, FALSE, held)
      /\ shown' = [k \in Read |-> IF k \in Resources THEN NoRequest ELSE shown[k]]
      /\ wanted' = kind /\ session' = session
  BY <1>2, <1>3, <1>4, <1>5, Zenon DEF OpenResources
<1>7. RequestsTyped /\ asks \in Read /\ node \in Nodes /\ scope \in {""} \cup Scopes
  BY <1>5, Zenon DEF RequestsInv, Read, Resources, Nodes
<1>8. /\ serial' = serial + 1 /\ serial + 1 \in Nat
      /\ \E new \in Asking : Begun(new, asks, node, scope, FALSE, held)
  BY <1>6, <1>7, OpenIs, Zenon
<1>9. PICK new \in Asking : Begun(new, asks, node, scope, FALSE, held)
  BY <1>8, Zenon
<1>10. /\ new.id = serial + 1 /\ new.session = session
       /\ new.kind = "kinds" /\ new.node = NoNode /\ new.scope = ""
       /\ slots' = WithoutSlot(HeldIn(views), new.kind, new.node) \cup {new}
       /\ commands' = commands \cup {Asked(new)}
  BY <1>5, <1>9, Zenon DEF Begun
<1>11. wanted' \in BOOLEAN
  BY <1>6
<1>12. /\ frame \in Frames /\ frame.kind = "kinds" /\ frame.node = NoNode /\ frame.scope = ""
       /\ frame.opened = serial + 1
  BY <1>1, <1>8 DEF Frames, Kinds, Read, Resources, Nodes
<1>13. PICK all : all = stack
  OBVIOUS
<1>14. all \in Seq(Frames) /\ Piled(all) /\ Len(all) \in Nat /\ DOMAIN all = 1..Len(all)
  BY <1>13, TopIs DEF RequestsInv
<1>15. /\ n = 0 => \A i \in DOMAIN all : all[i].kind # "kinds"
       /\ n # 0 => n \in 2..Len(all) /\ \A i \in 1..(n - 1) : all[i].kind # "kinds"
  BY <1>3, <1>7, <1>13, <1>14, UpToKinds
<1>16. PICK left : left = IF n = 0 THEN all ELSE SubSeq(all, 1, n - 1)
  OBVIOUS
<1>17. /\ left \in Seq(Frames) /\ Piled(left) /\ ToSet(left) \subseteq ToSet(all)
       /\ \A i \in DOMAIN left : left[i].kind # "kinds"
  <2>1. CASE n = 0
    BY <1>14, <1>15, <1>16, <2>1
  <2>2. CASE n # 0
    <3>1. n - 1 \in 1..Len(all)
      BY <1>14, <1>15, <2>2
    <3>2. /\ SubSeq(all, 1, n - 1) \in Seq(Frames) /\ DOMAIN SubSeq(all, 1, n - 1) = 1..(n - 1)
          /\ \A i \in 1..(n - 1) : SubSeq(all, 1, n - 1)[i] = all[i]
          /\ ToSet(SubSeq(all, 1, n - 1)) \subseteq ToSet(all)
      BY <1>14, <3>1, BelowIs
    <3>3. Piled(SubSeq(all, 1, n - 1))
      BY <1>14, <3>1, BelowIsPiled
    <3>4. QED
      BY <1>15, <1>16, <2>2, <3>2, <3>3
  <2>3. QED
    BY <2>1, <2>2
<1>18. views = Append(left, frame)
  BY <1>4, <1>13, <1>16, Zenon
<1>19. /\ views \in Seq(Frames) /\ ToSet(views) = ToSet(left) \cup {frame}
  BY <1>12, <1>17, <1>18, AppendIs
<1>20. Piled(views)
  BY <1>12, <1>17, <1>18, TopIsPiled
<1>21. frame \in ToSet(views) /\ ToSet(views) \subseteq ToSet(stack) \cup {frame}
  BY <1>13, <1>17, <1>19
<1>22. QED
  BY <1>6, <1>8, <1>10, <1>11, <1>12, <1>19, <1>20, <1>21, OpenResourcesIs

LEMMA SelectSessionKeeps ==
    ASSUME RequestsInv, SelectSession
    PROVE  RequestsInv'
<1>1. session \in Nat /\ serial \in Nat /\ session + 1 \in Nat /\ serial + 1 \in Nat \ {0}
      /\ session' = session + 1 /\ serial' = serial + 1
  BY DEF RequestsInv, RequestsTyped, SelectSession
<1>2. PICK first : first = [FirstRead EXCEPT !.id = serial + 1, !.session = session + 1]
  OBVIOUS
<1>3. /\ first \in Asking /\ first.id = serial + 1 /\ first.session = session + 1
      /\ first.kind = "nodes" /\ first.node = NoNode /\ first.scope = ""
  BY <1>1, <1>2 DEF FirstRead, NoRequest, Asking, Read, Nodes
<1>4. PICK call : call = Asked(first)
  OBVIOUS
<1>5. call \in Calls /\ call.request = first /\ call.does = "read" /\ ~IsStream(first)
  BY <1>3, <1>4, AskedIs DEF IsStream
<1>6. slots' = {first} /\ commands' = commands \cup {call} /\ stack' = <<Root>>
      /\ CloseStreams(Streamed) /\ shown' = shown /\ wanted' = FALSE
  BY <1>2, <1>4 DEF SelectSession
<1>7. stack' \in Seq(Frames) /\ Piled(stack') /\ ToSet(stack') = {Root}
  BY <1>6, RootIsPiled
<1>8. /\ attached' \in [Streamed -> Nat] /\ streams' \subseteq streams
      /\ \A k \in Streamed : attached'[k] = 0 /\ attached[k] \notin streams'
  BY <1>6, CloseIs DEF RequestsInv
<1>9. \A c \in commands : c \in Calls /\ c.request.id \in Nat /\ c.request.id <= serial
  BY DEF RequestsInv, RequestsTyped, CommandsKept, Calls, Asking
<1>10. \A c \in commands : c.request.id # serial + 1 /\ c.request.id <= serial + 1
  BY <1>1, <1>9, NextNumber
<1>11. ModelOf("nodes") = "nodes"
  BY ModelsOfKinds DEF Kinds, Read
<1>12. SlotsKept'
  <2>1. \A f \in ToSet(stack') : f.opened <= serial' /\ f.opened <= first.id /\ f.scope = ""
    <3>1. 0 <= serial + 1
      BY <1>1, NextNumber, Zenon
    <3>2. QED
      BY <1>1, <1>3, <1>7, <3>1, RootIs, Zenon
  <2>2. serial + 1 <= serial + 1
    BY <1>1
  <2>3. QED
    BY <1>1, <1>3, <1>6, <2>1, <2>2 DEF SlotsKept
<1>13. CommandsKept'
  <2>1. serial + 1 <= serial + 1
    BY <1>1
  <2>2. \A c \in commands' : c.request.id <= serial' /\ (c.does = "read" <=> ~IsStream(c.request))
    <3>1. call.request.id <= serial' /\ (call.does = "read" <=> ~IsStream(call.request))
      BY <1>1, <1>3, <1>5, <2>1, Zenon
    <3>2. \A c \in commands : c.request.id <= serial' /\ (c.does = "read" <=> ~IsStream(c.request))
      BY <1>1, <1>10, Zenon DEF RequestsInv, CommandsKept
    <3>3. QED
      BY <1>6, <3>1, <3>2
  <2>3. \A c, d \in commands' : c.request.id = d.request.id => c = d
    <3>1. \A c, d \in commands : c.request.id = d.request.id => c = d
      BY Zenon DEF RequestsInv, CommandsKept
    <3>2. \A c \in commands' : c = call \/ (c \in commands /\ c.request.id # call.request.id)
      BY <1>3, <1>5, <1>6, <1>10, Zenon
    <3>3. QED
      BY <3>1, <3>2, Zenon
  <2>4. \A c \in commands' : \A r \in slots' : c.request.id = r.id => c.request = r
    <3>1. \A c \in commands : c.request.id # first.id
      BY <1>3, <1>10, Zenon
    <3>2. QED
      BY <1>5, <1>6, <3>1, Zenon
  <2>5. \A r \in slots' : \E c \in commands' : c.request = r
    BY <1>5, <1>6
  <2>6. QED
    BY <2>2, <2>3, <2>4, <2>5 DEF CommandsKept, UnderWay
<1>14. StreamsHeld'
  <2>1. \A s \in streams' : \E c \in commands : c.at = "posted" /\ c.request.id = s
    BY <1>8 DEF RequestsInv, StreamsHeld
  <2>2. QED
    BY <1>6, <2>1 DEF StreamsHeld
<1>15. StreamsKept'
  <2>1. serial + 1 \notin streams /\ \A s \in streams : s <= serial + 1 /\ s # 0
    <3>1. \A s \in streams : s \in Nat /\ s <= serial /\ s # 0
      BY DEF RequestsInv, RequestsTyped, StreamsKept
    <3>2. QED
      BY <1>1, <3>1, NextNumber
  <2>2. \A c \in commands' : c.request.id \in streams' =>
          c.does = "next" \/ (c.does = "open" /\ c.at = "posted" /\ c.result = "ok")
    BY <1>3, <1>5, <1>6, <1>8, <2>1 DEF RequestsInv, StreamsKept
  <2>3. \A c \in commands' : c.request \in slots' => c.does = "read"
    BY <1>3, <1>5, <1>6, <1>10
  <2>4. QED
    BY <1>1, <1>8, <2>1, <2>2, <2>3 DEF StreamsKept
<1>16. ShownIsOfView'
  BY <1>7, RootIs DEF ShownIsOfView
<1>17. RequestsTyped'
  BY <1>1, <1>3, <1>5, <1>6, <1>7, <1>8 DEF RequestsInv, RequestsTyped
<1>18. QED
  BY <1>7, <1>12, <1>13, <1>14, <1>15, <1>16, <1>17 DEF RequestsInv

-----------------------------------------------------------------------------
(* Messages: what one that is handled leaves *)

\* A model that is open is there for the node of the one who asks.
LEMMA AnswerIsOfView ==
    ASSUME RequestsInv, NEW r \in slots, StillOpen(r)
    PROVE  /\ \A f \in ToSet(stack) : ModelOf(f.kind) = r.kind /\ f.kind # "nodes" =>
                  /\ r.node = f.node /\ r.scope = f.scope
                  /\ r.session = session /\ f.opened <= r.id
           /\ r.kind \notin {"nodes", "status"} => \E f \in ToSet(stack) : ModelOf(f.kind) = r.kind
<1>1. PICK views : views = stack
  OBVIOUS
<1>2. views \in Seq(Frames) /\ Piled(views)
  BY <1>1 DEF RequestsInv, RequestsTyped
<1>3. r.kind \in Read
  BY DEF RequestsInv, RequestsTyped, Asking
<1>4. ASSUME r.kind \notin {"nodes", "status"}
      PROVE  \E f \in ToSet(stack) : ModelOf(f.kind) = r.kind /\ f.node = r.node
  <2>1. r.kind \in Kinds /\ ModelOf(r.kind) = r.kind
    BY <1>3, ModelsOfKinds DEF Kinds
  <2>2. CASE Top.kind = r.kind /\ Top.node = r.node
    BY <2>1, <2>2, TopIs DEF RequestsInv
  <2>3. CASE Last(Front(stack)).kind = "instances" /\ Last(Front(stack)).node = r.node
             /\ Top.kind = "object" /\ r.kind = "instances"
    <3>1. Len(stack) \in Nat /\ Len(stack) >= 1 /\ DOMAIN stack = 1..Len(stack)
          /\ Top = stack[Len(stack)]
      BY TopIs DEF RequestsInv
    <3>2. Upon(stack, Len(stack), "instances")
      BY <2>3, <3>1 DEF RequestsInv, Piled, Placed
    <3>3. PICK n : n = Len(stack) - 1
      OBVIOUS
    <3>9. n \in DOMAIN stack
      BY <3>2, <3>3 DEF Upon
    <3>10. n \in Nat /\ n >= 1 /\ n <= Len(stack)
      BY <3>1, <3>9
    <3>4. Front(stack) = SubSeq(views, 1, n)
      BY <1>1, <3>3 DEF Front
    <3>5. Len(SubSeq(views, 1, n)) = n /\ SubSeq(views, 1, n)[n] = views[n]
      BY <1>1, <1>2, <3>10
    <3>6. Last(Front(stack)) = stack[n]
      BY <1>1, <3>4, <3>5 DEF Last
    <3>7. stack[n] \in ToSet(stack)
      BY <3>9 DEF ToSet
    <3>8. QED
      BY <2>1, <2>3, <3>6, <3>7
  <2>4. QED
    BY <1>4, <2>2, <2>3 DEF StillOpen
<1>5. ASSUME NEW f \in ToSet(stack), ModelOf(f.kind) = r.kind, f.kind # "nodes"
      PROVE  /\ r.node = f.node /\ r.scope = f.scope
             /\ r.session = session /\ f.opened <= r.id
  <2>1. r.kind \notin {"nodes", "status"}
    BY <1>1, <1>2, <1>5, NoStatusView
  <2>2. PICK g \in ToSet(stack) : ModelOf(g.kind) = r.kind /\ g.node = r.node
    BY <1>4, <2>1
  <2>3. f.node = g.node
    BY <1>1, <1>2, <1>3, <1>5, <2>2, OneOfEach
  <2>4. QED
    BY <1>5, <2>2, <2>3 DEF RequestsInv, SlotsKept
<1>6. QED
  BY <1>4, <1>5

\* A screen that keeps its rows, is emptied, or takes the answer.
LEMMA AnswerShown ==
    ASSUME RequestsInv, NEW r \in slots, StillOpen(r), session' = session, stack' = stack,
           \A k \in Read : shown'[k] \in {shown[k], NoRequest} \/ (k = r.kind /\ shown'[k] = r)
    PROVE  ShownIsOfView'
<1> SUFFICES ASSUME NEW f \in ToSet(stack), ModelOf(f.kind) \in Read,
                    shown'[ModelOf(f.kind)] # NoRequest, f.kind # "nodes"
             PROVE  LET a == shown'[ModelOf(f.kind)]
                    IN  /\ a.kind = ModelOf(f.kind) /\ a.node = f.node /\ a.scope = f.scope
                        /\ a.session = session /\ a.id >= f.opened
  BY DEF ShownIsOfView
<1>1. CASE shown'[ModelOf(f.kind)] = shown[ModelOf(f.kind)]
  BY <1>1 DEF RequestsInv, ShownIsOfView
<1>2. CASE ModelOf(f.kind) = r.kind /\ shown'[ModelOf(f.kind)] = r
  <2>1. r.node = f.node /\ r.scope = f.scope /\ r.session = session /\ f.opened <= r.id
    BY <1>2, AnswerIsOfView
  <2>2. f.opened \in Nat /\ r.id \in Nat
    BY TopIs DEF RequestsInv, RequestsTyped, Asking, Frames
  <2>3. r.id >= f.opened
    BY <2>1, <2>2
  <2>4. QED
    BY <1>2, <2>1, <2>3
<1>3. QED
  BY <1>1, <1>2

\* The command is done, and its request has no slot any more.
LEMMA SettledKeeps ==
    ASSUME RequestsInv, NEW c \in commands, commands' = commands \ {c},
           UNCHANGED <<session, stack, serial>>, slots' \subseteq slots,
           \A r \in slots' : r.kind \notin Resources => r # c.request
    PROVE  SlotsKept' /\ CommandsKept'
<1>1. \A r \in slots' : r.kind \in {"list", "containers", "usage"} => OpenIn(stack', r.kind, r.node)
  BY DEF RequestsInv, SlotsKept
<1>2. SlotsKept'
  BY <1>1, FewerSlots
<1>3. ASSUME NEW r \in slots', r.kind \notin Resources
      PROVE  \E d \in commands' : d.request = r
  <2>1. PICK d \in commands : d.request = r
    BY <1>3 DEF RequestsInv, CommandsKept, UnderWay
  <2>2. QED
    BY <1>3, <2>1
<1>4. /\ \A d \in commands' : d.request.id <= serial' /\ (d.does = "read" <=> ~IsStream(d.request))
      /\ \A d, e \in commands' : d.request.id = e.request.id => d = e
      /\ \A d \in commands' : \A r \in slots' : d.request.id = r.id => d.request = r
  BY DEF RequestsInv, CommandsKept
<1>5. QED
  BY <1>2, <1>3, <1>4 DEF CommandsKept, UnderWay

\* A command that has no open stream is done.
LEMMA SettledKeepsStreams ==
    ASSUME RequestsInv, NEW c \in commands, commands' = commands \ {c},
           UNCHANGED <<stack, serial, attached>>, slots' \subseteq slots,
           streams' \subseteq streams, c.at = "queued" \/ c.request.id \notin streams'
    PROVE  StreamsKept' /\ StreamsHeld'
<1>1. ASSUME NEW s \in streams'
      PROVE  \/ \E k \in Streamed : attached'[k] = s /\ \E f \in ToSet(stack') : ModelOf(f.kind) = k
             \/ \E d \in commands' : d.at = "posted" /\ d.request.id = s
  <2>1. s \in streams
    OBVIOUS
  <2>2. CASE \E d \in commands : d.at = "posted" /\ d.request.id = s
    BY <1>1, <2>2
  <2>3. QED
    BY <1>1, <2>1, <2>2 DEF RequestsInv, StreamsHeld
<1>2. StreamsKept'
  BY DEF RequestsInv, StreamsKept
<1>3. QED
  BY <1>1, <1>2 DEF StreamsHeld

\* Only the opening of a stream, once it is done, has one open.
LEMMA HasNoStream ==
    ASSUME RequestsInv, NEW c \in commands, c.does # "next",
           c.does = "read" \/ c.at = "queued" \/ c.result # "ok"
    PROVE  c.request.id \notin streams
  BY DEF RequestsInv, StreamsKept

LEMMA SkipKeeps ==
    ASSUME RequestsInv, NEW c, Skip(c)
    PROVE  RequestsInv'
<1>1. c \in commands /\ c.at = "queued" /\ ~Current(c.request) /\ commands' = commands \ {c}
      /\ UNCHANGED <<session, stack, serial, slots, shown, attached, streams, wanted>>
  BY DEF Skip, Settled, LoopAside
<1>2. c.request \notin slots
  BY <1>1 DEF Current, RequestsInv, SlotsKept
<1>3. SlotsKept' /\ CommandsKept'
  BY <1>1, <1>2, SettledKeeps
<1>4. StreamsKept' /\ StreamsHeld'
  BY <1>1, SettledKeepsStreams
<1>5. ShownIsOfView' /\ RequestsTyped' /\ Piled(stack')
  BY <1>1 DEF RequestsInv, RequestsTyped, ShownIsOfView
<1>6. QED
  BY <1>3, <1>4, <1>5 DEF RequestsInv

\* What a view that is open asked is never discarded, but for the resources.
LEMMA LateIs ==
    ASSUME RequestsInv, NEW r \in slots, ~StillOpen(r)
    PROVE  r.kind \in Resources
<1>1. r.kind \in Read
  BY DEF RequestsInv, RequestsTyped, Asking
<1>2. ASSUME r.kind \in {"list", "containers", "usage"}
      PROVE  FALSE
  <2>1. PICK f \in ToSet(stack) : ModelOf(f.kind) = r.kind /\ f.node = r.node
    BY <1>2 DEF RequestsInv, SlotsKept, OpenIn, ToSet
  <2>2. f.scope = r.scope
    BY <2>1 DEF RequestsInv, SlotsKept
  <2>3. QED
    BY <1>2, <2>1, <2>2 DEF StillOpen
<1>3. QED
  BY <1>1, <1>2 DEF StillOpen, Read, Streamed, Resources

LEMMA DiscardKeeps ==
    ASSUME RequestsInv, NEW c, Discard(c)
    PROVE  RequestsInv'
<1>1. c \in commands /\ c.at = "posted" /\ ~Accepted(c) /\ commands' = commands \ {c}
      /\ streams' = streams \ {c.request.id}
      /\ UNCHANGED <<session, stack, serial, slots, shown, attached, wanted>>
  BY DEF Discard, Settled, LoopAside
<1>2. c.request \in slots => c.request.kind \in Resources
  <2>1. c.request \in slots => ~StillOpen(c.request)
    BY <1>1 DEF Accepted, Current, RequestsInv, SlotsKept
  <2>2. QED
    BY <2>1, LateIs
<1>3. SlotsKept' /\ CommandsKept'
  BY <1>1, <1>2, SettledKeeps
<1>4. StreamsKept' /\ StreamsHeld'
  BY <1>1, SettledKeepsStreams
<1>5. ShownIsOfView' /\ RequestsTyped' /\ Piled(stack')
  BY <1>1 DEF RequestsInv, RequestsTyped, ShownIsOfView
<1>6. QED
  BY <1>3, <1>4, <1>5 DEF RequestsInv

\* The next step of a command: its request is the same.
LEMMA SteppedKeeps ==
    ASSUME RequestsInv, NEW c \in commands, NEW d \in Calls, d.request = c.request,
           d.does = "read" <=> c.does = "read",
           commands' = (commands \ {c}) \cup {d}, UNCHANGED <<session, stack, serial, slots>>
    PROVE  SlotsKept' /\ CommandsKept' /\ commands' \subseteq Calls
<1>1. SlotsKept'
  BY DEF RequestsInv, SlotsKept, OpenIn
<1>2. /\ \A e \in commands' : e.request.id <= serial' /\ (e.does = "read" <=> ~IsStream(e.request))
      /\ \A e \in commands' : \A r \in slots' : e.request.id = r.id => e.request = r
  BY DEF RequestsInv, CommandsKept
<1>3. \A e, g \in commands' : e.request.id = g.request.id => e = g
  BY DEF RequestsInv, CommandsKept
<1>4. ASSUME NEW r \in slots', r.kind \notin Resources
      PROVE  \E e \in commands' : e.request = r
  <2>1. PICK e \in commands : e.request = r
    BY <1>4 DEF RequestsInv, CommandsKept, UnderWay
  <2>2. QED
    BY <2>1
<1>5. commands' \subseteq Calls
  BY DEF RequestsInv, RequestsTyped
<1>6. QED
  BY <1>1, <1>2, <1>3, <1>4, <1>5 DEF CommandsKept, UnderWay

\* What a command becomes.
LEMMA PostedIs ==
    ASSUME NEW c \in Calls, NEW result \in {"ok", "failed", "more", "end"}
    PROVE  \E d \in Calls :
              /\ d = [c EXCEPT !.at = "posted", !.result = result]
              /\ d.request = c.request /\ d.does = c.does /\ d.at = "posted" /\ d.result = result
<1>1. PICK d : d = [c EXCEPT !.at = "posted", !.result = result]
  OBVIOUS
<1>2. d.request = c.request /\ d.does = c.does /\ d.at = "posted" /\ d.result = result
  BY <1>1 DEF Calls
<1>3. d \in Calls
  BY <1>1 DEF Calls
<1>4. QED
  BY <1>1, <1>2, <1>3

LEMMA NextBatchIs ==
    ASSUME NEW c \in Calls
    PROVE  \E d \in Calls :
              d = NextBatch(c) /\ d.request = c.request /\ d.does = "next" /\ d.at = "queued"
<1>1. PICK d : d = NextBatch(c)
  OBVIOUS
<1>2. d.request = c.request /\ d.does = "next" /\ d.at = "queued"
  BY <1>1 DEF Calls, NextBatch
<1>3. d \in Calls
  BY <1>1 DEF Calls, NextBatch
<1>4. QED
  BY <1>1, <1>2, <1>3

LEMMA CallKeeps ==
    ASSUME RequestsInv, NEW c, NEW result, Call(c, result)
    PROVE  RequestsInv'
<1>1. /\ c \in commands /\ c.at = "queued"
      /\ result \in {"ok", "failed", "more", "end"}
      /\ commands' = (commands \ {c}) \cup {[c EXCEPT !.at = "posted", !.result = result]}
      /\ UNCHANGED <<session, stack, serial, slots, shown, attached, wanted>>
  BY DEF Call, Posted, LoopAside
<1>2. streams' = IF c.does = "open" /\ result = "ok" THEN streams \cup {c.request.id} ELSE streams
  BY DEF Call
<1>3. c \in Calls /\ c.request.id \in Nat \ {0} /\ c.request.id <= serial
  BY <1>1 DEF RequestsInv, RequestsTyped, CommandsKept, Calls, Asking
<1>4. PICK d \in Calls :
         /\ d = [c EXCEPT !.at = "posted", !.result = result]
         /\ d.request = c.request /\ d.does = c.does /\ d.at = "posted" /\ d.result = result
  BY <1>1, <1>3, PostedIs
<1>5. commands' = (commands \ {c}) \cup {d}
  BY <1>1, <1>4
<1>6. SlotsKept' /\ CommandsKept' /\ commands' \subseteq Calls
  BY <1>1, <1>4, <1>5, SteppedKeeps
<1>7. c.does # "next" => c.request.id \notin streams
  BY <1>1, HasNoStream
<1>8. \A s \in streams' : s \in streams \/ (s = c.request.id /\ c.does = "open" /\ result = "ok")
  BY <1>2
<1>9. ASSUME NEW s \in streams'
      PROVE  \/ \E k \in Streamed : attached'[k] = s /\ \E f \in ToSet(stack') : ModelOf(f.kind) = k
             \/ \E e \in commands' : e.at = "posted" /\ e.request.id = s
  <2>1. CASE s = c.request.id
    BY <1>4, <1>5, <2>1
  <2>2. CASE \E e \in commands : e.at = "posted" /\ e.request.id = s
    BY <1>1, <1>5, <2>2
  <2>3. QED
    BY <1>1, <1>8, <2>1, <2>2 DEF RequestsInv, StreamsHeld
<1>10. ASSUME NEW e \in commands', e.request.id \in streams'
       PROVE  e.does = "next" \/ (e.does = "open" /\ e.at = "posted" /\ e.result = "ok")
  <2>1. CASE e = d
    BY <1>4, <1>7, <1>8, <1>10, <2>1
  <2>2. CASE e # d
    <3>1. e \in commands /\ e # c
      BY <1>5, <2>2
    <3>2. e.request.id # c.request.id
      BY <1>1, <3>1 DEF RequestsInv, CommandsKept
    <3>3. QED
      BY <1>8, <1>10, <3>1, <3>2 DEF RequestsInv, StreamsKept
  <2>3. QED
    BY <2>1, <2>2
<1>11. ASSUME NEW e \in commands', e.request \in slots'
       PROVE  /\ e.does = "open" => attached'[e.request.kind] = 0
              /\ e.does = "next" => attached'[e.request.kind] = e.request.id
  <2>1. CASE e = d
    BY <1>1, <1>4, <1>11, <2>1 DEF RequestsInv, StreamsKept
  <2>2. CASE e # d
    BY <1>1, <1>5, <1>11, <2>2 DEF RequestsInv, StreamsKept
  <2>3. QED
    BY <2>1, <2>2
<1>12. \A s \in streams' : s <= serial' /\ s # 0 /\ s \in Nat
  BY <1>1, <1>3, <1>8 DEF RequestsInv, StreamsKept, RequestsTyped
<1>13. StreamsHeld' /\ StreamsKept'
  <2>1. \A k \in Streamed : attached'[k] # 0 => \E f \in ToSet(stack') : ModelOf(f.kind) = k
    BY <1>1 DEF RequestsInv, StreamsKept
  <2>2. QED
    BY <1>9, <1>10, <1>11, <1>12, <2>1 DEF StreamsHeld, StreamsKept
<1>14. ShownIsOfView' /\ Piled(stack')
  BY <1>1 DEF RequestsInv, ShownIsOfView
<1>15. RequestsTyped'
  BY <1>1, <1>6, <1>12 DEF RequestsInv, RequestsTyped
<1>16. QED
  BY <1>6, <1>13, <1>14, <1>15 DEF RequestsInv

\* What a message says that is accepted.
LEMMA AcceptedIs ==
    ASSUME RequestsInv, NEW c, Accepted(c)
    PROVE  /\ c \in commands /\ c \in Calls /\ c.at = "posted" /\ c.request \in slots
           /\ StillOpen(c.request)
           /\ c.request \in Asking /\ c.request.kind \in Read
           /\ c.request.id \in Nat \ {0} /\ c.request.id <= serial
           /\ c.does = "read" <=> ~IsStream(c.request)
  BY DEF Accepted, Current, RequestsInv, RequestsTyped, CommandsKept, Calls, Asking

\* A read whose answer is shown, or is not, and that no other follows.
LEMMA AnswerKeeps ==
    ASSUME RequestsInv, NEW c, Accepted(c), c.does = "read",
           UNCHANGED <<session, stack, serial, attached, streams>>, wanted' \in BOOLEAN,
           slots' = slots \ {c.request}, Settled(c),
           NEW answer \in {shown[c.request.kind], c.request},
           shown' = [shown EXCEPT ![c.request.kind] = answer]
    PROVE  RequestsInv'
<1>1. /\ c \in commands /\ c.request \in slots /\ StillOpen(c.request)
      /\ c.request \in Asking /\ c.request.kind \in Read
  BY AcceptedIs
<1>2. commands' = commands \ {c}
  BY DEF Settled
<1>3. slots' \subseteq slots /\ \A r \in slots' : r # c.request
  OBVIOUS
<1>4. SlotsKept' /\ CommandsKept'
  BY <1>1, <1>2, <1>3, SettledKeeps
<1>5. c.request.id \notin streams
  BY <1>1, HasNoStream
<1>6. StreamsKept' /\ StreamsHeld'
  BY <1>1, <1>2, <1>3, <1>5, SettledKeepsStreams
<1>7. shown \in [Read -> Asking \cup {NoRequest}]
  BY DEF RequestsInv, RequestsTyped
<1>8. /\ shown' \in [Read -> Asking \cup {NoRequest}]
      /\ \A k \in Read : shown'[k] = shown[k] \/ (k = c.request.kind /\ shown'[k] = c.request)
  BY <1>1, <1>7
<1>9. ShownIsOfView'
  BY <1>1, <1>8, AnswerShown
<1>10. RequestsTyped' /\ Piled(stack')
  BY <1>2, <1>8 DEF RequestsInv, RequestsTyped
<1>11. QED
  BY <1>4, <1>6, <1>9, <1>10 DEF RequestsInv

LEMMA AcceptReadKeeps ==
    ASSUME RequestsInv, NEW c, AcceptRead(c)
    PROVE  RequestsInv'
<1>1. AnswerOf(c) \in {shown[c.request.kind], c.request}
  BY DEF AnswerOf
<1>2. PICK answer \in {shown[c.request.kind], c.request} : answer = AnswerOf(c)
  BY <1>1
<1>3. wanted' \in BOOLEAN
  BY DEF AcceptRead, RequestsInv, RequestsTyped
<1>4. QED
  BY <1>2, <1>3, AnswerKeeps DEF AcceptRead

\* One request at a time has the slot of a screen with a stream.
LEMMA StreamSlot ==
    ASSUME RequestsInv, NEW q \in slots, NEW r \in slots, q.kind = r.kind, q.kind \in Streamed
    PROVE  q = r
<1>1. PICK f \in ToSet(stack) : ModelOf(f.kind) = q.kind /\ f.node = q.node
  BY DEF RequestsInv, SlotsKept, OpenIn, ToSet, Streamed
<1>2. r.node = f.node
  BY <1>1, SlotOfView DEF Streamed
<1>3. QED
  BY <1>1, <1>2 DEF RequestsInv, SlotsKept

\* A stream that is open, or a batch of it, is of a screen that is open.
LEMMA StreamIsOpen ==
    ASSUME RequestsInv, NEW c, Accepted(c), c.does # "read"
    PROVE  /\ c.request.kind \in Streamed
           /\ \E f \in ToSet(stack) : ModelOf(f.kind) = c.request.kind
           /\ \A d \in commands : d.request \in slots /\ d.does # "read" /\ d # c =>
                  d.request.kind \in Streamed \ {c.request.kind}
<1>1. c \in commands /\ c.request \in slots /\ StillOpen(c.request) /\ IsStream(c.request)
  BY AcceptedIs
<1>2. c.request.kind \in {"usage", "containers"}
  BY <1>1 DEF IsStream
<1>3. \E f \in ToSet(stack) : ModelOf(f.kind) = c.request.kind
  BY <1>1, <1>2, AnswerIsOfView
<1>4. ASSUME NEW d \in commands, d.request \in slots, d.does # "read", d # c
      PROVE  d.request.kind \in Streamed \ {c.request.kind}
  <2>1. d.request.kind \in {"usage", "containers"}
    BY <1>4 DEF IsStream, RequestsInv, CommandsKept
  <2>2. d.request.kind = c.request.kind => d.request = c.request
    BY <1>1, <1>2, <1>4, StreamSlot DEF Streamed
  <2>3. d.request # c.request
    BY <1>1, <1>4 DEF RequestsInv, CommandsKept
  <2>4. QED
    BY <2>1, <2>2, <2>3 DEF Streamed
<1>5. QED
  BY <1>2, <1>3, <1>4 DEF Streamed

\* The command with the next batch to read.
LEMMA NextBatchKeepsStreams ==
    ASSUME RequestsInv, NEW c, Accepted(c), c.does # "read",
           NEW d \in Calls, d.request = c.request, d.does = "next",
           commands' = (commands \ {c}) \cup {d}, UNCHANGED <<stack, serial, slots, streams>>,
           attached' \in [Streamed -> Nat], attached'[c.request.kind] = c.request.id,
           \A k \in Streamed \ {c.request.kind} : attached'[k] = attached[k],
           c.does = "open" => attached[c.request.kind] = 0
    PROVE  StreamsKept' /\ StreamsHeld'
<1> DEFINE kind == c.request.kind
<1>1. /\ c \in commands /\ c.request \in slots
      /\ kind \in Streamed /\ \E f \in ToSet(stack) : ModelOf(f.kind) = kind
      /\ \A e \in commands : e.request \in slots /\ e.does # "read" /\ e # c =>
             e.request.kind \in Streamed \ {kind}
  BY AcceptedIs, StreamIsOpen
<1>2. c.does # "open" => attached[kind] = c.request.id
  BY <1>1 DEF RequestsInv, StreamsKept, RequestsTyped, Calls
<1>3. ASSUME NEW s \in streams'
      PROVE  \/ \E k \in Streamed : attached'[k] = s /\ \E f \in ToSet(stack') : ModelOf(f.kind) = k
             \/ \E e \in commands' : e.at = "posted" /\ e.request.id = s
  <2>1. s \in streams /\ s # 0
    BY DEF RequestsInv, StreamsKept
  <2>2. CASE s = c.request.id
    BY <1>1, <2>2
  <2>3. CASE s # c.request.id /\ \E e \in commands : e.at = "posted" /\ e.request.id = s
    BY <2>3
  <2>4. CASE s # c.request.id /\
             \E k \in Streamed : attached[k] = s /\ \E f \in ToSet(stack) : ModelOf(f.kind) = k
    <3>1. PICK k \in Streamed : attached[k] = s /\ \E f \in ToSet(stack) : ModelOf(f.kind) = k
      BY <2>4
    <3>2. k # kind
      BY <1>2, <2>1, <2>4, <3>1
    <3>3. QED
      BY <3>1, <3>2
  <2>5. QED
    BY <2>1, <2>2, <2>3, <2>4 DEF RequestsInv, StreamsHeld
<1>4. ASSUME NEW e \in commands', e.request \in slots'
      PROVE  /\ e.does = "open" => attached'[e.request.kind] = 0
             /\ e.does = "next" => attached'[e.request.kind] = e.request.id
  <2>1. CASE e = d
    BY <2>1
  <2>2. CASE e # d
    <3>1. e \in commands /\ e # c /\ e.request \in slots
      BY <1>4, <2>2
    <3>2. e.does # "read" => attached'[e.request.kind] = attached[e.request.kind]
      BY <1>1, <3>1
    <3>3. QED
      BY <3>1, <3>2 DEF RequestsInv, StreamsKept
  <2>3. QED
    BY <2>1, <2>2
<1>5. /\ \A k \in Streamed : attached'[k] # 0 => \E f \in ToSet(stack') : ModelOf(f.kind) = k
      /\ \A e \in commands' : e.request.id \in streams' =>
            e.does = "next" \/ (e.does = "open" /\ e.at = "posted" /\ e.result = "ok")
      /\ \A s \in streams' : s <= serial' /\ s # 0
  BY <1>1 DEF RequestsInv, StreamsKept
<1>6. QED
  BY <1>3, <1>4, <1>5 DEF StreamsKept, StreamsHeld

\* What becomes of the model that holds a stream.
LEMMA AttachedIs ==
    ASSUME RequestsInv, NEW kind \in Streamed, NEW n \in Nat,
           attached' = [attached EXCEPT ![kind] = n]
    PROVE  /\ attached' \in [Streamed -> Nat] /\ attached'[kind] = n
           /\ \A k \in Streamed \ {kind} : attached'[k] = attached[k]
  BY DEF RequestsInv, RequestsTyped

LEMMA AcceptOpenedKeeps ==
    ASSUME RequestsInv, NEW c, AcceptOpened(c)
    PROVE  RequestsInv'
<1>1. /\ Accepted(c) /\ c.does = "open"
      /\ UNCHANGED <<session, stack, serial, shown, streams, wanted>>
  BY DEF AcceptOpened
<1>2. /\ c \in commands /\ c \in Calls /\ c.request \in slots
      /\ c.request.id \in Nat /\ c.request.id <= serial
  BY <1>1, AcceptedIs
<1>3. c.request.kind \in Streamed
  BY <1>1, StreamIsOpen
<1>4. CASE c.result = "ok"
  <2>1. /\ attached' = [attached EXCEPT ![c.request.kind] = c.request.id]
        /\ commands' = (commands \ {c}) \cup {NextBatch(c)} /\ slots' = slots
    BY <1>4 DEF AcceptOpened
  <2>2. PICK d \in Calls :
           d = NextBatch(c) /\ d.request = c.request /\ d.does = "next" /\ d.at = "queued"
    BY <1>2, NextBatchIs
  <2>3. commands' = (commands \ {c}) \cup {d}
    BY <2>1, <2>2
  <2>4. SlotsKept' /\ CommandsKept' /\ commands' \subseteq Calls
    BY <1>1, <1>2, <2>1, <2>2, <2>3, SteppedKeeps
  <2>5. /\ attached' \in [Streamed -> Nat] /\ attached'[c.request.kind] = c.request.id
        /\ \A k \in Streamed \ {c.request.kind} : attached'[k] = attached[k]
    BY <1>2, <1>3, <2>1, AttachedIs
  <2>6. attached[c.request.kind] = 0
    BY <1>1, <1>2 DEF RequestsInv, StreamsKept
  <2>7. StreamsKept' /\ StreamsHeld'
    BY <1>1, <2>1, <2>2, <2>3, <2>5, <2>6, NextBatchKeepsStreams
  <2>8. ShownIsOfView' /\ Piled(stack')
    BY <1>1 DEF RequestsInv, ShownIsOfView
  <2>9. RequestsTyped'
    BY <1>1, <2>1, <2>4, <2>5 DEF RequestsInv, RequestsTyped
  <2>10. QED
    BY <2>4, <2>7, <2>8, <2>9 DEF RequestsInv
<1>5. CASE c.result # "ok"
  <2>1. commands' = commands \ {c} /\ slots' = slots \ {c.request} /\ attached' = attached
    BY <1>5 DEF AcceptOpened, Settled
  <2>2. slots' \subseteq slots /\ \A r \in slots' : r # c.request
    BY <2>1
  <2>3. SlotsKept' /\ CommandsKept'
    BY <1>1, <1>2, <2>1, <2>2, SettledKeeps
  <2>4. c.request.id \notin streams
    BY <1>1, <1>2, <1>5, HasNoStream
  <2>5. StreamsKept' /\ StreamsHeld'
    BY <1>1, <1>2, <2>1, <2>2, <2>4, SettledKeepsStreams
  <2>6. ShownIsOfView' /\ RequestsTyped' /\ Piled(stack')
    BY <1>1, <2>1 DEF RequestsInv, RequestsTyped, ShownIsOfView
  <2>7. QED
    BY <2>3, <2>5, <2>6 DEF RequestsInv
<1>6. QED
  BY <1>4, <1>5

LEMMA AcceptBatchKeeps ==
    ASSUME RequestsInv, NEW c, AcceptBatch(c)
    PROVE  RequestsInv'
<1>1. /\ Accepted(c) /\ c.does = "next" /\ UNCHANGED <<session, stack, serial, wanted>>
      /\ shown' = [shown EXCEPT ![c.request.kind] = c.request]
  BY DEF AcceptBatch
<1>2. /\ c \in commands /\ c \in Calls /\ c.request \in slots /\ StillOpen(c.request)
      /\ c.request \in Asking /\ c.request.kind \in Read
      /\ c.request.id \in Nat /\ c.request.id <= serial
  BY <1>1, AcceptedIs
<1>3. /\ c.request.kind \in Streamed
      /\ \A d \in commands : d.request \in slots /\ d.does # "read" /\ d # c =>
             d.request.kind \in Streamed \ {c.request.kind}
  BY <1>1, StreamIsOpen
<1>4. /\ shown' \in [Read -> Asking \cup {NoRequest}]
      /\ \A k \in Read : shown'[k] = shown[k] \/ (k = c.request.kind /\ shown'[k] = c.request)
  BY <1>1, <1>2 DEF RequestsInv, RequestsTyped
<1>5. ShownIsOfView'
  BY <1>1, <1>2, <1>4, AnswerShown
<1>6. attached[c.request.kind] = c.request.id
  BY <1>1, <1>2 DEF RequestsInv, StreamsKept
<1>7. CASE c.result = "more"
  <2>1. commands' = (commands \ {c}) \cup {NextBatch(c)} /\ UNCHANGED <<slots, attached, streams>>
    BY <1>7 DEF AcceptBatch
  <2>2. PICK d \in Calls :
           d = NextBatch(c) /\ d.request = c.request /\ d.does = "next" /\ d.at = "queued"
    BY <1>2, NextBatchIs
  <2>3. commands' = (commands \ {c}) \cup {d}
    BY <2>1, <2>2
  <2>4. SlotsKept' /\ CommandsKept' /\ commands' \subseteq Calls
    BY <1>1, <1>2, <2>1, <2>2, <2>3, SteppedKeeps
  <2>5. /\ attached' \in [Streamed -> Nat] /\ attached'[c.request.kind] = c.request.id
        /\ \A k \in Streamed \ {c.request.kind} : attached'[k] = attached[k]
    BY <1>6, <2>1 DEF RequestsInv, RequestsTyped
  <2>6. StreamsKept' /\ StreamsHeld'
    BY <1>1, <2>1, <2>2, <2>3, <2>5, NextBatchKeepsStreams
  <2>7. RequestsTyped' /\ Piled(stack')
    BY <1>1, <1>4, <2>1, <2>4 DEF RequestsInv, RequestsTyped
  <2>8. QED
    BY <1>5, <2>4, <2>6, <2>7 DEF RequestsInv
<1>8. CASE c.result # "more"
  <2>1. /\ commands' = commands \ {c} /\ slots' = slots \ {c.request}
        /\ attached' = [attached EXCEPT ![c.request.kind] = 0]
        /\ streams' = streams \ {c.request.id}
    BY <1>8 DEF AcceptBatch, Settled
  <2>2. slots' \subseteq slots /\ \A r \in slots' : r # c.request
    BY <2>1
  <2>3. SlotsKept' /\ CommandsKept'
    BY <1>1, <1>2, <2>1, <2>2, SettledKeeps
  <2>4. /\ attached' \in [Streamed -> Nat] /\ attached'[c.request.kind] = 0
        /\ \A k \in Streamed \ {c.request.kind} : attached'[k] = attached[k]
    BY <1>3, <2>1, AttachedIs
  <2>5. ASSUME NEW s \in streams'
        PROVE  \/ \E k \in Streamed : attached'[k] = s /\ \E f \in ToSet(stack') : ModelOf(f.kind) = k
               \/ \E e \in commands' : e.at = "posted" /\ e.request.id = s
    <3>1. s \in streams /\ s # c.request.id
      BY <2>1
    <3>2. CASE \E e \in commands : e.at = "posted" /\ e.request.id = s
      BY <2>1, <3>1, <3>2
    <3>3. CASE \E k \in Streamed : attached[k] = s /\ \E f \in ToSet(stack) : ModelOf(f.kind) = k
      BY <1>1, <1>6, <2>4, <3>1, <3>3
    <3>4. QED
      BY <3>1, <3>2, <3>3 DEF RequestsInv, StreamsHeld
  <2>6. ASSUME NEW e \in commands', e.request \in slots'
        PROVE  /\ e.does = "open" => attached'[e.request.kind] = 0
               /\ e.does = "next" => attached'[e.request.kind] = e.request.id
    <3>1. e \in commands /\ e # c /\ e.request \in slots
      BY <2>1, <2>6
    <3>2. e.does # "read" => attached'[e.request.kind] = attached[e.request.kind]
      BY <1>3, <2>4, <3>1
    <3>3. QED
      BY <3>1, <3>2 DEF RequestsInv, StreamsKept
  <2>7. /\ \A k \in Streamed : attached'[k] # 0 => \E f \in ToSet(stack') : ModelOf(f.kind) = k
        /\ \A e \in commands' : e.request.id \in streams' =>
              e.does = "next" \/ (e.does = "open" /\ e.at = "posted" /\ e.result = "ok")
        /\ \A s \in streams' : s <= serial' /\ s # 0
    BY <1>1, <2>1, <2>4 DEF RequestsInv, StreamsKept
  <2>8. StreamsKept' /\ StreamsHeld'
    BY <2>5, <2>6, <2>7 DEF StreamsKept, StreamsHeld
  <2>9. RequestsTyped' /\ Piled(stack')
    BY <1>1, <1>4, <2>1, <2>4 DEF RequestsInv, RequestsTyped
  <2>10. QED
    BY <1>5, <2>3, <2>8, <2>9 DEF RequestsInv
<1>9. QED
  BY <1>7, <1>8

\* A read that another follows: its command is done, that of the next begins,
\* and no stream is touched.
LEMMA FollowedKeeps ==
    ASSUME RequestsInv, NEW c, Accepted(c), c.does = "read", NEW new \in Asking,
           serial' = serial + 1, new.id = serial + 1,
           slots' \subseteq (slots \ {c.request}) \cup {new},
           commands' = (commands \ {c}) \cup {Asked(new)}, UNCHANGED <<attached, streams>>,
           ToSet(stack) \subseteq ToSet(stack'),
           new.kind \notin Streamed
    PROVE  CommandsKept' /\ StreamsKept' /\ StreamsHeld' /\ commands' \subseteq Calls
<1>1. c \in commands /\ c.request \in slots
  BY AcceptedIs
<1>2. PICK held, rest : held = slots \ {c.request} /\ rest = commands \ {c}
  OBVIOUS
<1>3. \A r \in held : r.kind \notin Resources => \E d \in rest : d.request = r
  BY <1>2 DEF RequestsInv, CommandsKept, UnderWay
<1>4. BegunWith(new, held, rest)
  BY <1>2, <1>3 DEF BegunWith
<1>5. CommandsKept'
  BY <1>4, AskKeepsCommands
<1>6. PICK call : call = Asked(new)
  OBVIOUS
<1>7. call \in Calls /\ call.request = new /\ call.does = "read" /\ ~IsStream(new)
  BY <1>6, AskedIs DEF IsStream, Streamed
<1>8. commands' = rest \cup {call}
  BY <1>2, <1>6
<1>9. commands' \subseteq Calls
  BY <1>2, <1>7, <1>8 DEF RequestsInv, RequestsTyped
<1>10. serial \in Nat /\ \A s \in streams : s \in Nat /\ s <= serial /\ s # 0
  BY DEF RequestsInv, RequestsTyped, StreamsKept
<1>11. serial + 1 \notin streams /\ \A s \in streams : s <= serial + 1 /\ s # 0
  BY <1>10, NextNumber
<1>12. c.request.id \notin streams
  BY <1>1, HasNoStream
<1>13. ASSUME NEW s \in streams'
       PROVE  \/ \E k \in Streamed : attached'[k] = s /\ \E f \in ToSet(stack') : ModelOf(f.kind) = k
              \/ \E e \in commands' : e.at = "posted" /\ e.request.id = s
  <2>1. CASE \E e \in commands : e.at = "posted" /\ e.request.id = s
    BY <1>2, <1>8, <1>12, <2>1
  <2>2. QED
    BY <2>1 DEF RequestsInv, StreamsHeld
<1>14. \A e \in commands : e.request.id # serial + 1
  <2>1. \A e \in commands : e.request.id \in Nat /\ e.request.id <= serial
    BY DEF RequestsInv, RequestsTyped, CommandsKept, Calls, Asking
  <2>2. QED
    BY <1>10, <2>1, NextNumber
<1>15. ASSUME NEW e \in commands', e.request \in slots'
       PROVE  /\ e.does = "open" => attached'[e.request.kind] = 0
              /\ e.does = "next" => attached'[e.request.kind] = e.request.id
  <2>1. CASE e = call
    BY <1>7, <2>1
  <2>2. CASE e # call
    <3>1. e \in commands /\ e.request \in slots
      BY <1>2, <1>8, <1>14, <1>15, <2>2
    <3>2. QED
      BY <3>1 DEF RequestsInv, StreamsKept
  <2>3. QED
    BY <2>1, <2>2
<1>16. \A e \in commands' : e.request.id \in streams' =>
           e.does = "next" \/ (e.does = "open" /\ e.at = "posted" /\ e.result = "ok")
  BY <1>2, <1>7, <1>8, <1>11 DEF RequestsInv, StreamsKept
<1>17. \A k \in Streamed : attached'[k] # 0 => \E f \in ToSet(stack') : ModelOf(f.kind) = k
  BY DEF RequestsInv, StreamsKept
<1>18. QED
  BY <1>5, <1>9, <1>11, <1>13, <1>15, <1>16, <1>17 DEF StreamsKept, StreamsHeld

\* The nodes and the kinds are not streams.
LEMMA FollowedIsRead ==
    ASSUME RequestsInv, NEW c, Accepted(c), c.request.kind \in {"nodes", "kinds"}
    PROVE  c.does = "read"
  BY AcceptedIs DEF IsStream

\* The request of the statuses of the nodes.
LEMMA StatusIs ==
    ASSUME RequestsInv, NEW c, Accepted(c)
    PROVE  \E new \in Asking :
              /\ new = [c.request EXCEPT !.id = serial + 1, !.kind = "status"]
              /\ new.id = serial + 1 /\ new.kind = "status" /\ new.session = c.request.session
<1>1. c.request \in Asking
  BY AcceptedIs
<1>2. serial + 1 \in Nat \ {0}
  BY NextNumber DEF RequestsInv, RequestsTyped
<1>3. PICK r \in Asking : r = c.request
  BY <1>1
<1>4. PICK n \in Nat \ {0} : n = serial + 1
  BY <1>2
<1>5. PICK new : new = [r EXCEPT !.id = n, !.kind = "status"]
  OBVIOUS
<1>6. new \in Asking
  BY <1>5 DEF Asking, Read
<1>7. new.id = n /\ new.kind = "status" /\ new.session = r.session
  BY <1>5 DEF Asking
<1>8. QED
  BY <1>3, <1>4, <1>5, <1>6, <1>7

LEMMA AcceptNodesKeeps ==
    ASSUME RequestsInv, NEW c, AcceptNodes(c)
    PROVE  RequestsInv'
<1>1. /\ Accepted(c) /\ c.request.kind = "nodes"
      /\ shown' = [shown EXCEPT !["nodes"] = c.request]
      /\ UNCHANGED <<session, stack, attached, streams, wanted>>
  BY DEF AcceptNodes, FollowedByStatus
<1>2. /\ c \in commands /\ c.request \in slots /\ StillOpen(c.request) /\ c.request \in Asking
      /\ c.request.session = session
  BY <1>1, AcceptedIs DEF RequestsInv, SlotsKept
<1>3. c.does = "read"
  BY <1>1, FollowedIsRead
<1>4. wanted' \in BOOLEAN
  BY <1>1 DEF RequestsInv, RequestsTyped
<1>5. CASE serial < MaxRequests
  <2>1. PICK new \in Asking :
           /\ new = [c.request EXCEPT !.id = serial + 1, !.kind = "status"]
           /\ new.id = serial + 1 /\ new.kind = "status" /\ new.session = c.request.session
    BY <1>1, StatusIs
  <2>2. /\ serial' = serial + 1
        /\ slots' = WithoutSlot(slots \ {c.request}, "status", NoNode) \cup {new}
        /\ commands' = (commands \ {c}) \cup {Asked(new)}
    BY <1>5, <2>1 DEF AcceptNodes
  <2>3. slots' \subseteq (slots \ {c.request}) \cup {new}
    BY <2>2 DEF WithoutSlot
  <2>4. ToSet(stack) \subseteq ToSet(stack') /\ new.kind \notin Streamed
    BY <1>1, <2>1 DEF Streamed
  <2>5. CommandsKept' /\ StreamsKept' /\ StreamsHeld' /\ commands' \subseteq Calls
    BY <1>1, <1>3, <2>1, <2>2, <2>3, <2>4, FollowedKeeps
  <2>6. SlotsKept'
    <3>1. serial \in Nat /\ serial + 1 <= serial + 1
      BY DEF RequestsInv, RequestsTyped
    <3>2. \A r \in slots : r.id <= serial + 1
      <4>1. \A r \in slots : r.id \in Nat /\ r.id <= serial
        BY DEF RequestsInv, RequestsTyped, SlotsKept, Asking
      <4>2. QED
        BY <3>1, <4>1, NextNumber
    <3>3. \A f \in ToSet(stack) : f.opened <= serial + 1 /\ ModelOf(f.kind) # "status"
      <4>1. PICK views : views = stack
        OBVIOUS
      <4>2. views \in Seq(Frames) /\ Piled(views)
        BY <4>1 DEF RequestsInv, RequestsTyped
      <4>3. \A f \in ToSet(views) : ModelOf(f.kind) # "status"
        BY <4>2, NoStatusView
      <4>4. QED
        BY <4>1, <4>3, OpenedBefore
    <3>4. /\ \A r \in slots' : r.session = session' /\ r.id <= serial'
          /\ \A f \in ToSet(stack') : f.opened <= serial'
      BY <1>1, <1>2, <2>1, <2>2, <2>3, <3>1, <3>2, <3>3 DEF RequestsInv, SlotsKept
    <3>5. \A r \in slots' : \A f \in ToSet(stack') :
              ModelOf(f.kind) = r.kind /\ f.node = r.node => r.scope = f.scope /\ f.opened <= r.id
      BY <1>1, <2>1, <2>3, <3>3 DEF RequestsInv, SlotsKept
    <3>6. \A r \in slots' :
              r.kind \in {"list", "containers", "usage"} => OpenIn(stack', r.kind, r.node)
      BY <1>1, <2>1, <2>3 DEF RequestsInv, SlotsKept
    <3>7. \A q, r \in slots' : q.kind = r.kind /\ q.node = r.node /\ q.kind \in Streamed => q = r
      BY <2>1, <2>3, <2>4 DEF RequestsInv, SlotsKept
    <3>8. QED
      BY <3>4, <3>5, <3>6, <3>7 DEF SlotsKept
  <2>7. /\ shown' \in [Read -> Asking \cup {NoRequest}]
        /\ \A k \in Read : shown'[k] = shown[k] \/ (k = c.request.kind /\ shown'[k] = c.request)
    BY <1>1, <1>2 DEF RequestsInv, RequestsTyped
  <2>8. ShownIsOfView'
    BY <1>1, <1>2, <2>7, AnswerShown
  <2>9. slots' \subseteq Asking
    BY <2>3 DEF RequestsInv, RequestsTyped
  <2>10. serial' \in Nat
    BY <2>2, NextNumber DEF RequestsInv, RequestsTyped
  <2>11. RequestsTyped' /\ Piled(stack')
    BY <1>1, <2>5, <2>7, <2>9, <2>10 DEF RequestsInv, RequestsTyped
  <2>12. QED
    BY <2>5, <2>6, <2>8, <2>11 DEF RequestsInv
<1>6. CASE ~(serial < MaxRequests)
  <2>1. slots' = slots \ {c.request} /\ Settled(c) /\ serial' = serial
    BY <1>6 DEF AcceptNodes
  <2>2. PICK answer \in {shown[c.request.kind], c.request} : answer = c.request
    OBVIOUS
  <2>3. shown' = [shown EXCEPT ![c.request.kind] = answer]
    BY <1>1, <2>2
  <2>4. QED
    BY <1>1, <1>3, <1>4, <2>1, <2>2, <2>3, AnswerKeeps
<1>7. QED
  BY <1>5, <1>6

\* The instances open on the kinds, whose read is done.
LEMMA InstancesFollow ==
    ASSUME RequestsInv, NEW c, Accepted(c), c.request.kind = "kinds",
           NEW new \in Asking, NEW frame \in Frames,
           serial' = serial + 1, new.id = serial + 1, new.session = session,
           new.kind = "instances", frame.kind = "instances",
           frame.node = new.node, frame.scope = new.scope, frame.opened = serial + 1,
           stack' = Append(stack, frame),
           slots' = WithoutSlot(slots \ {c.request}, "instances", new.node) \cup {new},
           commands' = (commands \ {c}) \cup {Asked(new)},
           shown' = [shown EXCEPT !["kinds"] = c.request, !["instances"] = NoRequest],
           UNCHANGED <<session, attached, streams>>, wanted' \in BOOLEAN
    PROVE  RequestsInv'
<1>1. /\ c \in commands /\ c.request \in slots /\ StillOpen(c.request) /\ c.request \in Asking
      /\ c.does = "read" /\ Top.kind = "kinds"
  BY AcceptedIs, FollowedIsRead DEF StillOpen
<1>2. Piled(stack')
  BY <1>1, OpenedIsPiled
<1>3. PICK views : views = stack
  OBVIOUS
<1>4. views \in Seq(Frames) /\ stack' = Append(views, frame)
  BY <1>3 DEF RequestsInv, RequestsTyped
<1>5. stack' \in Seq(Frames) /\ ToSet(stack') = ToSet(stack) \cup {frame}
  BY <1>3, <1>4, AppendIs
<1>6. PICK held : held = slots \ {c.request}
  OBVIOUS
<1>7. ModelOf("instances") = "instances" /\ ModelOf("kinds") = "kinds" /\ {"instances", "kinds"} \subseteq Read
  BY ModelsOfKinds DEF Kinds, Read, Resources
<1>8. SlotsKept'
  <2>1. held \subseteq slots /\ slots' = WithoutSlot(held, new.kind, new.node) \cup {new}
    BY <1>6
  <2>2. \E f \in ToSet(stack') :
            ModelOf(f.kind) = new.kind /\ f.node = new.node /\ f.scope = new.scope
    BY <1>5, <1>7
  <2>3. serial + 1 <= serial + 1
    BY DEF RequestsInv, RequestsTyped
  <2>4. \A f \in ToSet(stack') :
            /\ f.opened <= serial + 1
            /\ f \in ToSet(stack) \/ (ModelOf(f.kind) = new.kind /\ f.node = new.node)
    BY <1>5, <1>7, <2>3, OpenedBefore
  <2>5. ASSUME NEW r \in held, r.kind \in {"list", "containers", "usage"}
        PROVE  OpenIn(stack', r.kind, r.node)
    <3>1. PICK f \in ToSet(stack) : ModelOf(f.kind) = r.kind /\ f.node = r.node
      BY <2>1, <2>5 DEF RequestsInv, SlotsKept, OpenIn, ToSet
    <3>2. f \in ToSet(stack')
      BY <1>5
    <3>3. QED
      BY <3>1, <3>2 DEF OpenIn, ToSet
  <2>6. QED
    BY <1>2, <1>5, <2>1, <2>2, <2>4, <2>5, AskKeepsSlots
<1>9. slots' \subseteq (slots \ {c.request}) \cup {new} /\ new.kind \notin Streamed
  BY DEF WithoutSlot, Streamed
<1>10. CommandsKept' /\ StreamsKept' /\ StreamsHeld' /\ commands' \subseteq Calls
  BY <1>1, <1>5, <1>9, FollowedKeeps
<1>11. /\ shown' \in [Read -> Asking \cup {NoRequest}]
       /\ shown'["kinds"] = c.request /\ shown'["instances"] = NoRequest
       /\ \A k \in Read \ {"kinds", "instances"} : shown'[k] = shown[k]
  BY <1>1, <1>7 DEF RequestsInv, RequestsTyped
<1>12. ASSUME NEW f \in ToSet(stack'), ModelOf(f.kind) \in Read,
              shown'[ModelOf(f.kind)] # NoRequest, f.kind # "nodes"
       PROVE  LET a == shown'[ModelOf(f.kind)]
              IN  /\ a.kind = ModelOf(f.kind) /\ a.node = f.node /\ a.scope = f.scope
                  /\ a.session = session /\ a.id >= f.opened
  <2>1. f \in ToSet(stack) /\ ModelOf(f.kind) # "instances"
    BY <1>5, <1>7, <1>11, <1>12
  <2>2. CASE ModelOf(f.kind) = "kinds"
    <3>1. c.request.node = f.node /\ c.request.scope = f.scope /\ c.request.session = session
          /\ f.opened <= c.request.id
      BY <1>1, <1>12, <2>1, <2>2, AnswerIsOfView
    <3>2. f.opened \in Nat /\ c.request.id \in Nat
      BY <1>1, <2>1, TopIs DEF RequestsInv, Asking, Frames
    <3>3. c.request.id >= f.opened
      BY <3>1, <3>2
    <3>4. QED
      BY <1>11, <2>2, <3>1, <3>3
  <2>3. CASE ModelOf(f.kind) # "kinds"
    BY <1>11, <1>12, <2>1, <2>3 DEF RequestsInv, ShownIsOfView
  <2>4. QED
    BY <2>2, <2>3
<1>13. ShownIsOfView'
  BY <1>12 DEF ShownIsOfView
<1>14. slots' \subseteq Asking
  BY <1>9 DEF RequestsInv, RequestsTyped
<1>15. serial' \in Nat
  BY NextNumber DEF RequestsInv, RequestsTyped
<1>16. RequestsTyped'
  BY <1>5, <1>10, <1>11, <1>14, <1>15 DEF RequestsInv, RequestsTyped
<1>17. QED
  BY <1>2, <1>8, <1>10, <1>13, <1>16 DEF RequestsInv

\* The request and the frame of the instances.
LEMMA InstancesAre ==
    ASSUME RequestsInv, NEW node \in Node
    PROVE  /\ \E new \in Asking :
                 /\ new = [NoRequest EXCEPT !.id = serial + 1, !.kind = "instances", !.node = node,
                                            !.session = session]
                 /\ new.id = serial + 1 /\ new.kind = "instances" /\ new.node = node
                 /\ new.session = session /\ new.scope = ""
           /\ \E frame \in Frames :
                 /\ frame = Frame("instances", node, "", serial + 1)
                 /\ frame.kind = "instances" /\ frame.node = node /\ frame.scope = ""
                 /\ frame.opened = serial + 1
<1>1. serial + 1 \in Nat \ {0} /\ session \in Nat
  BY NextNumber DEF RequestsInv, RequestsTyped
<1>2. PICK n \in Nat \ {0}, of \in Nat : n = serial + 1 /\ of = session
  BY <1>1
<1>3. PICK none : none = NoRequest
  OBVIOUS
<1>4. PICK new : new = [none EXCEPT !.id = n, !.kind = "instances", !.node = node, !.session = of]
  OBVIOUS
<1>5. /\ new \in Asking
      /\ new.id = n /\ new.kind = "instances" /\ new.node = node /\ new.session = of /\ new.scope = ""
  BY <1>3, <1>4 DEF NoRequest, Asking, Read, Resources, Nodes
<1>6. PICK frame : frame = [kind |-> "instances", node |-> node, scope |-> "", opened |-> n]
  OBVIOUS
<1>7. /\ frame \in Frames /\ frame.kind = "instances" /\ frame.node = node /\ frame.scope = ""
      /\ frame.opened = n
  BY <1>6 DEF Frames, Kinds, Read, Resources, Nodes
<1>8. frame = Frame("instances", node, "", serial + 1)
  BY <1>2, <1>6, Zenon DEF Frame
<1>9. new = [NoRequest EXCEPT !.id = serial + 1, !.kind = "instances", !.node = node,
                              !.session = session]
  BY <1>2, <1>3, <1>4, Zenon
<1>10. QED
  BY <1>2, <1>5, <1>7, <1>8, <1>9, Zenon

LEMMA AcceptKindsKeeps ==
    ASSUME RequestsInv, NEW c, NEW node \in Node, NEW found, AcceptKinds(c, node, found)
    PROVE  RequestsInv'
<1>1. Accepted(c) /\ c.request.kind = "kinds" /\ UNCHANGED <<session, attached, streams>>
      /\ wanted' = FALSE
  BY Zenon DEF AcceptKinds, FollowedByInstances
<1>2. wanted' \in BOOLEAN
  BY <1>1
<1>3. CASE c.result = "ok" /\ found /\ serial < MaxRequests
  <2>1. PICK new \in Asking :
           /\ new = [NoRequest EXCEPT !.id = serial + 1, !.kind = "instances", !.node = node,
                                      !.session = session]
           /\ new.id = serial + 1 /\ new.kind = "instances" /\ new.node = node
           /\ new.session = session /\ new.scope = ""
    BY InstancesAre, Zenon
  <2>2. PICK frame \in Frames :
           /\ frame = Frame("instances", node, "", serial + 1)
           /\ frame.kind = "instances" /\ frame.node = node /\ frame.scope = ""
           /\ frame.opened = serial + 1
    BY InstancesAre, Zenon
  <2>3. /\ serial' = serial + 1
        /\ stack' = Append(stack, frame)
        /\ slots' = WithoutSlot(slots \ {c.request}, "instances", new.node) \cup {new}
        /\ commands' = (commands \ {c}) \cup {Asked(new)}
        /\ shown' = [shown EXCEPT !["kinds"] = c.request, !["instances"] = NoRequest]
    BY <1>3, <2>1, <2>2, Zenon DEF AcceptKinds
  <2>4. frame.node = new.node /\ frame.scope = new.scope
    BY <2>1, <2>2, Zenon
  <2>5. QED
    BY <1>1, <1>2, <2>1, <2>2, <2>3, <2>4, InstancesFollow, Zenon
<1>4. CASE ~(c.result = "ok" /\ found /\ serial < MaxRequests)
  <2>1. /\ slots' = slots \ {c.request} /\ Settled(c) /\ UNCHANGED <<serial, stack>>
        /\ shown' = [shown EXCEPT !["kinds"] = AnswerOf(c)]
    BY <1>4, Zenon DEF AcceptKinds
  <2>2. c.does = "read"
    BY <1>1, FollowedIsRead
  <2>3. PICK answer \in {shown[c.request.kind], c.request} : answer = AnswerOf(c)
    BY DEF AnswerOf
  <2>4. shown' = [shown EXCEPT ![c.request.kind] = answer]
    BY <1>1, <2>1, <2>3, Zenon
  <2>5. QED
    BY <1>1, <1>2, <2>1, <2>2, <2>4, AnswerKeeps
<1>5. QED
  BY <1>3, <1>4, Zenon

-----------------------------------------------------------------------------
(* The theorems on the views *)

LEMMA RequestsInitially == RequestsInit => RequestsInv
<1> SUFFICES ASSUME RequestsInit PROVE RequestsInv
  OBVIOUS
<1>1. PICK first : first = FirstRead
  OBVIOUS
<1>2. /\ first \in Asking /\ first.id = 1 /\ first.kind = "nodes" /\ first.node = NoNode
      /\ first.scope = "" /\ first.session = 0
  <2>1. PICK none, one : none = NoRequest /\ one = 1
    OBVIOUS
  <2>2. none = [id |-> 0, kind |-> "none", node |-> NoNode, scope |-> "", session |-> 0, auto |-> FALSE]
    BY <2>1, Zenon DEF NoRequest
  <2>3. first = [none EXCEPT !.id = one, !.kind = "nodes"]
    BY <1>1, <2>1, Zenon DEF FirstRead
  <2>4. one \in Nat \ {0}
    BY <2>1
  <2>5. first \in Asking
    BY <2>2, <2>3, <2>4 DEF Asking, Read, Nodes
  <2>6. /\ first.id = one /\ first.kind = "nodes" /\ first.node = NoNode
        /\ first.scope = "" /\ first.session = 0
    BY <2>2, <2>3
  <2>7. QED
    BY <2>1, <2>5, <2>6
<1>3. PICK call : call = Asked(first)
  OBVIOUS
<1>4. call \in Calls /\ call.request = first /\ call.does = "read" /\ ~IsStream(first)
  BY <1>2, <1>3, AskedIs DEF IsStream
<1>5. /\ session = 0 /\ stack = <<Root>> /\ serial = 1 /\ slots = {first} /\ commands = {call}
      /\ shown = [k \in Read |-> NoRequest] /\ attached = [k \in Streamed |-> 0] /\ streams = {}
  BY <1>1, <1>3 DEF RequestsInit
<1>6. wanted \in BOOLEAN
  BY DEF RequestsInit
<1>7. stack \in Seq(Frames) /\ Piled(stack) /\ ToSet(stack) = {Root}
  BY <1>5, RootIsPiled
<1>8. SlotsKept
  <2>1. 0 <= 1 /\ 1 <= 1
    OBVIOUS
  <2>2. \A f \in ToSet(stack) : f.opened <= serial /\ f.opened <= first.id /\ f.scope = ""
    BY <1>2, <1>5, <1>7, <2>1, RootIs
  <2>3. QED
    BY <1>2, <1>5, <2>1, <2>2 DEF SlotsKept, Streamed
<1>9. CommandsKept
  <2>1. call.request.id <= serial
    <3>1. 1 <= 1
      OBVIOUS
    <3>2. QED
      BY <1>2, <1>4, <1>5, <3>1, Zenon
  <2>2. /\ \A c \in commands : c = call
        /\ \A r \in slots : r = call.request
        /\ call \in commands
    BY <1>4, <1>5
  <2>3. QED
    BY <1>4, <2>1, <2>2, Zenon DEF CommandsKept, UnderWay
<1>10. StreamsKept /\ StreamsHeld
  BY <1>2, <1>4, <1>5 DEF StreamsKept, StreamsHeld
<1>11. ShownIsOfView
  BY <1>5 DEF ShownIsOfView
<1>12. RequestsTyped
  BY <1>2, <1>4, <1>5, <1>6, <1>7 DEF RequestsTyped
<1>13. QED
  BY <1>7, <1>8, <1>9, <1>10, <1>11, <1>12 DEF RequestsInv

LEMMA StandsStill ==
    ASSUME RequestsInv, UNCHANGED requestVars
    PROVE  RequestsInv'
<1> USE DEF requestVars
<1>1. RequestsTyped' /\ Piled(stack')
  BY DEF RequestsInv, RequestsTyped
<1>2. SlotsKept'
  BY DEF RequestsInv, SlotsKept, OpenIn
<1>3. CommandsKept'
  BY DEF RequestsInv, CommandsKept, UnderWay
<1>4. StreamsKept' /\ StreamsHeld'
  BY DEF RequestsInv, StreamsKept, StreamsHeld
<1>5. ShownIsOfView'
  BY DEF RequestsInv, ShownIsOfView
<1>6. QED
  BY <1>1, <1>2, <1>3, <1>4, <1>5 DEF RequestsInv

LEMMA KeyKeeps ==
    ASSUME RequestsInv, RequestKey
    PROVE  RequestsInv'
<1>1. ASSUME NEW node \in Node, OpenInstances(node) PROVE RequestsInv'
  BY <1>1, OpenInstancesKeeps
<1>2. ASSUME NEW node \in Node, NEW kind \in Screens, OpenNodeScreen(kind, node) PROVE RequestsInv'
  BY <1>2, OpenNodeScreenKeeps
<1>3. ASSUME NEW scope \in Scopes, SwitchScope(scope) PROVE RequestsInv'
  BY <1>3, SwitchScopeKeeps
<1>4. ASSUME NEW kind \in BOOLEAN, OpenResources(kind) PROVE RequestsInv'
  BY <1>4, OpenResourcesKeeps, Zenon
<1>5. ASSUME Refresh(FALSE) PROVE RequestsInv'
  <2>1. FALSE \in BOOLEAN
    OBVIOUS
  <2>2. QED
    BY <1>5, <2>1, ReadAnewKeeps, Zenon
<1>6. OpenUsage \/ OpenRow \/ OpenHelp \/ OpenObject \/ Back \/ ReplaceRoot \/ SelectSession
      => RequestsInv'
  BY OpenUsageKeeps, OpenRowKeeps, OpenHelpKeeps, OpenObjectKeeps, BackKeeps, ReplaceRootKeeps,
     SelectSessionKeeps, Zenon
<1>7. QED
  BY <1>1, <1>2, <1>3, <1>4, <1>5, <1>6, Zenon DEF RequestKey

LEMMA TickKeeps ==
    ASSUME RequestsInv, Tick
    PROVE  RequestsInv'
<1>1. TRUE \in BOOLEAN
  OBVIOUS
<1>2. Refresh(TRUE)
  BY Zenon DEF Tick
<1>3. QED
  BY <1>1, <1>2, ReadAnewKeeps, Zenon

LEMMA MessageKeeps ==
    ASSUME RequestsInv, RequestMessage
    PROVE  RequestsInv'
<1>1. ASSUME NEW c, NEW result, Call(c, result) PROVE RequestsInv'
  BY <1>1, CallKeeps
<1>2. ASSUME NEW c, NEW node \in Node, NEW found, AcceptKinds(c, node, found) PROVE RequestsInv'
  BY <1>2, AcceptKindsKeeps, Zenon
<1>3. ASSUME NEW c,
             Skip(c) \/ Discard(c) \/ AcceptRead(c) \/ AcceptNodes(c) \/ AcceptOpened(c) \/ AcceptBatch(c)
      PROVE  RequestsInv'
  BY <1>3, SkipKeeps, DiscardKeeps, AcceptReadKeeps, AcceptNodesKeeps, AcceptOpenedKeeps,
     AcceptBatchKeeps, Zenon
<1>4. QED
  BY <1>1, <1>2, <1>3, Zenon DEF RequestMessage

\* The invariant holds in every reachable state: the slots, the commands, the
\* streams and the stack of views agree, whatever the order in which keys, the
\* heartbeat and late messages come (requests.go, navigation.go).
THEOREM RequestsInductive == RequestsSpec => []RequestsInv
<1>1. RequestsInv /\ [RequestsNext]_requestVars => RequestsInv'
  BY StandsStill, KeyKeeps, TickKeeps, MessageKeeps, Zenon DEF RequestsNext
<1>2. QED
  BY <1>1, RequestsInitially, PTL DEF RequestsSpec

\* A view shows what was read for it: for its node and scope, in the session that
\* is open, by a request begun since it was opened (acceptDirectDiagnostic and
\* the handlers of the other screens), for any nodes and any number of requests.
THEOREM ShowsItsOwn == RequestsSpec => []ShownIsOfView
<1>1. RequestsInv => ShownIsOfView
  BY DEF RequestsInv
<1>2. QED
  BY <1>1, RequestsInductive, PTL

\* Nothing is left behind: a slot has a read under way, and a stream has an open
\* view or a message that closes it (finish, close and the discarded messages).
THEOREM LeavesNothing == RequestsSpec => []NothingLeftBehind
<1>1. RequestsInv => NothingLeftBehind
  <2> SUFFICES ASSUME RequestsInv PROVE NothingLeftBehind
    OBVIOUS
  <2>1. \A r \in slots : Current(r) /\ r.kind \notin Resources => UnderWay(r)
    BY DEF RequestsInv, CommandsKept
  <2>2. QED
    BY <2>1 DEF RequestsInv, StreamsHeld, NothingLeftBehind
<1>2. QED
  BY <1>1, RequestsInductive, PTL

-----------------------------------------------------------------------------
(* The heartbeat *)

\* Each new request is of a key, of the statuses of the nodes, or of the view on
\* top when nothing is asked for it.
ByKey == \A new \in slots' \ slots : ~new.auto

LEMMA AskedIsNew ==
    ASSUME NEW kind, NEW node, NEW scope, NEW auto, NEW held, held \subseteq slots,
           Ask(kind, node, scope, auto, held)
    PROVE  \A new \in slots' \ slots : new.auto = auto /\ new.kind = kind /\ new.node = node
<1>1. PICK r : r = [id |-> serial + 1, kind |-> kind, node |-> node, scope |-> scope,
                    session |-> session, auto |-> auto]
  OBVIOUS
<1>2. slots' = WithoutSlot(held, kind, node) \cup {r}
  BY <1>1, Zenon DEF Ask
<1>3. r.auto = auto /\ r.kind = kind /\ r.node = node
  BY <1>1
<1>4. QED
  BY <1>2, <1>3, Zenon DEF WithoutSlot

LEMMA AskedByKey ==
    ASSUME NEW kind, NEW node, NEW scope, NEW held, held \subseteq slots,
           Ask(kind, node, scope, FALSE, held)
    PROVE  ByKey
<1>1. \A new \in slots' \ slots : new.auto = FALSE
  BY AskedIsNew, Zenon
<1>2. QED
  BY <1>1, Zenon DEF ByKey

LEMMA KeysAreByKey ==
    ASSUME RequestKey, session' = session, session \in Nat
    PROVE  ByKey
<1>1. slots \subseteq slots /\ \A views : HeldIn(views) \subseteq slots
  BY DEF HeldIn
<1>2. ASSUME NEW node, NEW kind, OpenNodeScreen(kind, node) \/ OpenInstances(node) PROVE ByKey
  BY <1>1, <1>2, AskedByKey, Zenon DEF OpenNodeScreen, OpenInstances
<1>3. ASSUME NEW scope, SwitchScope(scope) PROVE ByKey
  BY <1>1, <1>3, AskedByKey, Zenon DEF SwitchScope
<1>4. ASSUME NEW kind, OpenResources(kind) PROVE ByKey
  BY <1>1, <1>4, AskedByKey, Zenon DEF OpenResources
<1>5. ASSUME Refresh(FALSE) PROVE ByKey
  BY <1>1, <1>5, AskedByKey, Zenon DEF Refresh
<1>6. ASSUME OpenUsage \/ OpenObject PROVE ByKey
  BY <1>1, <1>6, AskedByKey, Zenon DEF OpenUsage, OpenObject
<1>7. ASSUME OpenRow \/ OpenHelp \/ Back \/ ReplaceRoot PROVE ByKey
  <2>1. slots' \subseteq slots
    BY <1>1, <1>7, Zenon DEF OpenRow, OpenHelp, Back, ReplaceRoot
  <2>2. QED
    BY <2>1, Zenon DEF ByKey
<1>8. ~SelectSession
  BY DEF SelectSession
<1>9. QED
  BY <1>2, <1>3, <1>4, <1>5, <1>6, <1>7, <1>8, Zenon DEF RequestKey

LEMMA MessagesAreByKey ==
    ASSUME RequestsInv, RequestMessage
    PROVE  \A new \in slots' \ slots : ~new.auto \/ new.kind = "status"
<1>1. PICK c \in commands :
        \/ Skip(c) \/ Discard(c)
        \/ \E result \in {"ok", "failed", "more", "end"} : Call(c, result)
        \/ AcceptRead(c) \/ AcceptNodes(c) \/ AcceptOpened(c) \/ AcceptBatch(c)
        \/ \E node \in Node, found \in BOOLEAN : AcceptKinds(c, node, found)
  BY Zenon DEF RequestMessage
<1>2. ASSUME AcceptNodes(c)
      PROVE  \A new \in slots' \ slots : new.kind = "status"
  <2>1. PICK r : r = [c.request EXCEPT !.id = serial + 1, !.kind = "status"]
    OBVIOUS
  <2>2. slots' \subseteq slots \cup {r}
    BY <1>2, <2>1, Zenon DEF AcceptNodes, WithoutSlot
  <2>3. c.request \in Asking
    BY <1>2, AcceptedIs DEF AcceptNodes
  <2>4. r.kind = "status"
    BY <2>1, <2>3 DEF Asking
  <2>5. QED
    BY <2>2, <2>4
<1>3. ASSUME NEW node, NEW found, AcceptKinds(c, node, found)
      PROVE  ByKey
  <2>1. PICK r : r = [NoRequest EXCEPT !.id = serial + 1, !.kind = "instances", !.node = node,
                                       !.session = session]
    OBVIOUS
  <2>2. slots' \subseteq slots \cup {r}
    BY <1>3, <2>1, Zenon DEF AcceptKinds, WithoutSlot
  <2>3. r.auto = FALSE
    BY <2>1 DEF NoRequest
  <2>4. QED
    BY <2>2, <2>3, Zenon DEF ByKey
<1>4. ASSUME \/ Skip(c) \/ Discard(c) \/ AcceptRead(c) \/ AcceptOpened(c) \/ AcceptBatch(c)
             \/ \E result : Call(c, result)
      PROVE  slots' \subseteq slots
  BY <1>4, Zenon DEF Skip, Discard, AcceptRead, AcceptOpened, AcceptBatch, Call, LoopAside
<1>5. QED
  BY <1>1, <1>2, <1>3, <1>4, Zenon DEF ByKey

\* The heartbeat cancels no read that is under way, however slow (shell.go): what
\* it asks for is on top, and nothing is pending there (activeRefreshPending).
THEOREM HeartbeatIsPatient == RequestsSpec => HeartbeatKeepsReads
<1>1. RequestsInv /\ [RequestsNext]_requestVars =>
          [\A r \in slots : r.kind # "status" => ~Superseded(r)]_requestVars
  <2> SUFFICES ASSUME RequestsInv, RequestsNext, NEW r \in slots, r.kind # "status", Superseded(r)
               PROVE  FALSE
    BY Zenon
  <2>1. Current(r) /\ session' = session
    BY Zenon DEF Superseded
  <2>2. PICK new \in slots' \ slots : new.auto /\ new.kind = r.kind /\ new.node = r.node
    BY Zenon DEF Superseded
  <2>3. session \in Nat
    BY DEF RequestsInv, RequestsTyped
  <2>4. ~RequestKey
    BY <2>1, <2>2, <2>3, KeysAreByKey, Zenon DEF ByKey
  <2>5. ~RequestMessage
    BY <2>2, MessagesAreByKey, Zenon
  <2>6. Tick
    BY <2>4, <2>5, Zenon DEF RequestsNext
  <2>7. new.kind = Top.kind /\ new.node = Top.node
    <3>1. slots \subseteq slots
      OBVIOUS
    <3>2. Ask(Top.kind, Top.node, Top.scope, TRUE, slots)
      BY <2>6, Zenon DEF Tick, Refresh
    <3>3. QED
      BY <2>2, <3>1, <3>2, AskedIsNew, Zenon
  <2>8. Pending(Top)
    BY <2>1, <2>2, <2>7, Zenon DEF Pending
  <2>9. QED
    BY <2>6, <2>8, Zenon DEF Tick
<1>2. QED
  BY <1>1, RequestsInductive, PTL DEF RequestsSpec, HeartbeatKeepsReads

=============================================================================
