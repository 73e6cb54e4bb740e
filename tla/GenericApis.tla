---------------------------- MODULE GenericApis ----------------------------
(***************************************************************************)
(* Generic APIs of the library that compute their answer from answers of   *)
(* the SoC library: the bandwidth of the network, the associated ids of    *)
(* the remote nodes, and the state of the Ethernet interface.  Each begins *)
(* with a query, for the list of remote nodes or the name of the           *)
(* interface, and goes on by the macro BRMH_RETURN_IF_FAILED, which lets   *)
(* RMH_NOT_SUPPORTED pass: the variable that the query should have filled  *)
(* then holds anything.  So an API is an operator from what its calls      *)
(* return to the set of results that it may have.                          *)
(***************************************************************************)
EXTENDS Naturals, FiniteSets

CONSTANTS
    RMH_MAX_MOCA_NODES,  \* places of a node list
    TopBandwidth         \* the largest value of an unsigned, 0xFFFFFFFF

ASSUME GenericAssumption ==
    RMH_MAX_MOCA_NODES \in Nat /\ TopBandwidth \in Nat

NodeIds == 0 .. RMH_MAX_MOCA_NODES - 1

\* What the query may return; RMH_FAILURE stands for every other failure.
QueryResults == {"RMH_SUCCESS", "RMH_NOT_SUPPORTED", "RMH_FAILURE"}

\* BRMH_RETURN_IF_FAILED returns the result of the query.
Stops(query) == query \notin {"RMH_SUCCESS", "RMH_NOT_SUPPORTED"}

\* Behind it, what the variable of the query holds, out of all values.
Holds(query, answer, values) == IF query = "RMH_SUCCESS" THEN {answer} ELSE values

Lists(query, nodes) == Holds(query, nodes, SUBSET NodeIds)

\* RMH_PQoS_GetEgressBandwidth may fail for a node: a number no answer is.
NoAnswer == TopBandwidth + 1
Bandwidths == 0 .. TopBandwidth
Answers == [NodeIds -> Bandwidths \cup {NoAnswer}]

\* The loop of the two bandwidth APIs, which differ in where they start and
\* in the comparison: the best answer of the first n places of the list.
BestAfter(present, answers, start, largest) ==
    LET after[n \in 0 .. RMH_MAX_MOCA_NODES] ==
          IF n = 0 THEN [ret |-> "RMH_FAILURE", response |-> start]
          ELSE LET best == after[n - 1] IN
               IF n - 1 \in present /\ answers[n - 1] # NoAnswer
                  /\ IF largest THEN answers[n - 1] > best.response
                                ELSE answers[n - 1] < best.response
                 THEN [ret |-> "RMH_SUCCESS", response |-> answers[n - 1]]
                 ELSE best
    IN after

BestBandwidth(present, answers, start, largest) ==
    BestAfter(present, answers, start, largest)[RMH_MAX_MOCA_NODES]

RMH_PQoS_GetMaxEgressBandwidth(query, nodes, answers) ==
    IF Stops(query) THEN {[ret |-> query, response |-> 0]}
    ELSE {BestBandwidth(list, answers, 0, TRUE) : list \in Lists(query, nodes)}

RMH_PQoS_GetMinEgressBandwidth(query, nodes, answers) ==
    IF Stops(query) THEN {[ret |-> query, response |-> TopBandwidth]}
    ELSE {BestBandwidth(list, answers, TopBandwidth, FALSE) : list \in Lists(query, nodes)}

-----------------------------------------------------------------------------
\* The variable associatedCounter of the three loops, when they have gone past
\* the first n places of the list.
AssociatedCounter(present) ==
    LET counter[n \in 0 .. RMH_MAX_MOCA_NODES] ==
          IF n = 0 THEN 0 ELSE counter[n - 1] + (IF n - 1 \in present THEN 1 ELSE 0)
    IN counter

\* The associated ids count the nodes of the list in the order of their ids.
AssociatedIds(present) ==
    LET counter == AssociatedCounter(present) IN [n \in present |-> counter[n + 1]]

\* The first node at which the counter has reached the id.
NodeIdIn(present, associatedId) ==
    LET counter == AssociatedCounter(present)
        reached == {n \in present : counter[n + 1] = associatedId}
    IN IF reached # {}
         THEN [ret |-> "RMH_SUCCESS", id |-> CHOOSE n \in reached : \A m \in reached : n <= m]
         ELSE [ret |-> "RMH_INVALID_ID", id |-> 0]

\* Mutant of AssociatedIdIn: the id is taken before the node is counted.
AssociatedIdBefore(present, nodeId) ==
    IF nodeId \in present
      THEN [ret |-> "RMH_SUCCESS", id |-> AssociatedCounter(present)[nodeId]]
      ELSE [ret |-> "RMH_INVALID_ID", id |-> 0]

AssociatedIdIn(present, nodeId) ==
    IF nodeId \in present
      THEN [ret |-> "RMH_SUCCESS", id |-> AssociatedCounter(present)[nodeId + 1]]
      ELSE [ret |-> "RMH_INVALID_ID", id |-> 0]

\* A failure leaves the caller's list, written <<>>, or id, written 0, alone.
RMH_Network_GetAssociatedIds(query, nodes) ==
    IF Stops(query) THEN {[ret |-> query, ids |-> <<>>]}
    ELSE {[ret |-> "RMH_SUCCESS", ids |-> AssociatedIds(list)] : list \in Lists(query, nodes)}

RMH_RemoteNode_GetNodeIdFromAssociatedId(query, nodes, associatedId) ==
    IF associatedId > RMH_MAX_MOCA_NODES THEN {[ret |-> "RMH_INVALID_PARAM", id |-> 0]}
    ELSE IF Stops(query) THEN {[ret |-> query, id |-> 0]}
    ELSE {NodeIdIn(list, associatedId) : list \in Lists(query, nodes)}

\* The test lets the id RMH_MAX_MOCA_NODES pass, which no node has.
RMH_RemoteNode_GetAssociatedIdFromNodeId(query, nodes, nodeId) ==
    IF nodeId > RMH_MAX_MOCA_NODES THEN {[ret |-> "RMH_INVALID_PARAM", id |-> 0]}
    ELSE IF Stops(query) THEN {[ret |-> query, id |-> 0]}
    ELSE {AssociatedIdIn(list, nodeId) : list \in Lists(query, nodes)}

-----------------------------------------------------------------------------
\* The Ethernet interface: the flags the kernel reports.
Flags == SUBSET {"IFF_UP", "IFF_RUNNING"}

IsEnabled(flags) == {"IFF_UP", "IFF_RUNNING"} \subseteq flags

\* The query is RMH_Interface_GetName.  The ioctl fails, or gives the flags of
\* the interface, of any interface if its name is not the one that was asked
\* for.  A failure leaves response as it was, which may be anything.
RMH_Interface_GetEnabled(query, getOk, flags) ==
    IF Stops(query) THEN [ret : {query}, response : BOOLEAN]
    ELSE IF ~getOk THEN [ret : {"RMH_FAILURE"}, response : BOOLEAN]
    ELSE {[ret |-> "RMH_SUCCESS", response |-> IsEnabled(read)] : read \in Holds(query, flags, Flags)}

\* RMH_Interface_SetEnabled reads the flags, writes them and reads them back
\* (flags: what the kernel made of them) through RMH_Interface_GetEnabled,
\* whose result it does not look at.
RMH_Interface_SetEnabled(value, query, getOk, setOk, again, getAgainOk, flags) ==
    IF Stops(query) THEN {query}
    ELSE IF ~(getOk /\ setOk) THEN {"RMH_FAILURE"}
    ELSE {IF selected.response = value THEN "RMH_SUCCESS" ELSE "RMH_FAILURE" :
            selected \in RMH_Interface_GetEnabled(again, getAgainOk, flags)}

-----------------------------------------------------------------------------
\* What was answered, and the reference for a best answer: an answer that no
\* other one beats.
Answered(present, answers) == {answers[n] : n \in present} \ {NoAnswer}

\* The bandwidth APIs give the largest and the smallest answer of the nodes on
\* the list that did answer, or a failure that hides nothing but an answer
\* equal to the value they start from (a network in which every bandwidth is
\* 0 has no maximum).  After a query that was not supported, a success is at
\* least what some node answered.
BandwidthTrue ==
    \A query \in QueryResults, nodes \in SUBSET NodeIds, answers \in Answers :
      LET got == Answered(IF query = "RMH_SUCCESS" THEN nodes ELSE NodeIds, answers) IN
      /\ \A max \in RMH_PQoS_GetMaxEgressBandwidth(query, nodes, answers) :
           /\ max.ret = "RMH_SUCCESS" => ~Stops(query) /\ max.response \in got
           /\ query = "RMH_SUCCESS" => IF max.ret = "RMH_SUCCESS"
                                         THEN \A a \in got : a <= max.response
                                         ELSE got \subseteq {0}
      /\ \A min \in RMH_PQoS_GetMinEgressBandwidth(query, nodes, answers) :
           /\ min.ret = "RMH_SUCCESS" => ~Stops(query) /\ min.response \in got
           /\ query = "RMH_SUCCESS" => IF min.ret = "RMH_SUCCESS"
                                         THEN \A a \in got : a >= min.response
                                         ELSE got \subseteq {TopBandwidth}

\* On the list of the driver the three id APIs agree: the associated id of a
\* node is its rank, going from a node to its id and back gives the node, and
\* every other id is refused.
IdsAgree(nodes) ==
    LET rank == [n \in nodes |-> Cardinality({m \in nodes : m <= n})] IN
    /\ RMH_Network_GetAssociatedIds("RMH_SUCCESS", nodes)
         = {[ret |-> "RMH_SUCCESS", ids |-> rank]}
    /\ \A n \in nodes :
         /\ RMH_RemoteNode_GetAssociatedIdFromNodeId("RMH_SUCCESS", nodes, n)
              = {[ret |-> "RMH_SUCCESS", id |-> rank[n]]}
         /\ RMH_RemoteNode_GetNodeIdFromAssociatedId("RMH_SUCCESS", nodes, rank[n])
              = {[ret |-> "RMH_SUCCESS", id |-> n]}
    /\ \A n \in (0 .. RMH_MAX_MOCA_NODES + 1) \ nodes :
         \A r \in RMH_RemoteNode_GetAssociatedIdFromNodeId("RMH_SUCCESS", nodes, n) :
            r.ret # "RMH_SUCCESS"
    /\ \A a \in (0 .. RMH_MAX_MOCA_NODES + 1) \ (1 .. Cardinality(nodes)) :
         \A r \in RMH_RemoteNode_GetNodeIdFromAssociatedId("RMH_SUCCESS", nodes, a) :
            r.ret # "RMH_SUCCESS"

\* Whatever the query returned, and on a list that nobody filled too, a success
\* is about a node id that exists and an associated id that such a node can
\* have; a query that failed is never a success.
IdsInRange(query, nodes) ==
    /\ \A r \in RMH_Network_GetAssociatedIds(query, nodes) :
         r.ret = "RMH_SUCCESS" =>
           ~Stops(query) /\ \A n \in DOMAIN r.ids : n \in NodeIds /\ r.ids[n] \in 1 .. n + 1
    /\ \A n \in 0 .. RMH_MAX_MOCA_NODES + 1 :
         /\ \A r \in RMH_RemoteNode_GetAssociatedIdFromNodeId(query, nodes, n) :
              r.ret = "RMH_SUCCESS" => ~Stops(query) /\ n \in NodeIds /\ r.id \in 1 .. n + 1
         /\ \A r \in RMH_RemoteNode_GetNodeIdFromAssociatedId(query, nodes, n) :
              r.ret = "RMH_SUCCESS" => ~Stops(query) /\ r.id \in NodeIds /\ n \in 1 .. r.id + 1

\* Both, for any list and any result of the query.
IdsTrue == \A nodes \in SUBSET NodeIds :
              IdsAgree(nodes) /\ \A query \in QueryResults : IdsInRange(query, nodes)

\* RMH_Interface_SetEnabled says RMH_SUCCESS only if the name was not refused
\* and the interface was read back as asked, or could not be read back by its
\* name at all.
InterfaceTrue ==
    \A value, getOk, setOk, getAgainOk \in BOOLEAN, query, again \in QueryResults, flags \in Flags :
      "RMH_SUCCESS" \in RMH_Interface_SetEnabled(value, query, getOk, setOk, again, getAgainOk, flags)
        => ~Stops(query) /\ (again = "RMH_SUCCESS" /\ getAgainOk => value = IsEnabled(flags))
=============================================================================
