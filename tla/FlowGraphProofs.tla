--------------------------- MODULE FlowGraphProofs --------------------------
(***************************************************************************)
(* Identifiers are never handed out twice and arcs never dangle, for any   *)
(* number of nodes, changes and rounds and any set of optimisations.       *)
(***************************************************************************)
EXTENDS FlowGraphChangeManager, SequenceTheorems, TLAPS

\* The inductive invariant: NextId needs the queue to be a sequence of
\* identifiers and the counter to be positive.
GraphInv ==
  /\ unusedIds \in Seq(Nat)
  /\ currentId \in Nat \ {0}
  /\ IdsNeverClash
  /\ NoDanglingArcs

\* What the bookkeeping of identifiers looks like when "used" are the live nodes.
IdsOK(used, queue, current) ==
  /\ queue \in Seq(Nat)
  /\ current \in Nat \ {0}
  /\ \A i \in DOMAIN queue : queue[i] \notin used /\ queue[i] \in 1..(current - 1)
  /\ \A i, j \in DOMAIN queue : queue[i] = queue[j] => i = j
  /\ used \subseteq 1..(current - 1)

\* GraphInv is the bookkeeping of identifiers and the absence of dangling arcs.
LEMMA GraphInvSplit == GraphInv <=> IdsOK(Nodes, unusedIds, currentId) /\ NoDanglingArcs
BY DEF GraphInv, IdsOK, IdsNeverClash

\* An order in which PopulateUnusedIds pushes identifiers is a sequence of
\* distinct identifiers from the range.
LEMMA ShuffleIsSequence ==
  ASSUME NEW first \in Nat \ {0}, NEW last \in Nat, first <= last + 1,
         NEW s \in Shuffles(first, last)
  PROVE  /\ s \in Seq(Nat)
         /\ Len(s) = last - first + 1
         /\ \A i \in 1..Len(s) : s[i] \in first..last
         /\ \A i, j \in 1..Len(s) : s[i] = s[j] => i = j
<1> DEFINE n == last - first + 1
<1>1. n \in Nat /\ s \in [1..n -> first..last]
  BY DEF Shuffles
<1>2. s \in [1..n -> Nat]
  BY <1>1
<1>3. s \in Seq(Nat) /\ Len(s) = n
  BY <1>1, <1>2, SeqDef, LenProperties
<1> QED
  BY <1>1, <1>3 DEF Shuffles

\* Taking the head off a queue of distinct identifiers leaves such a queue, and
\* the head is not in it.
LEMMA PopKeepsIds ==
  ASSUME NEW used, NEW queue, NEW current, IdsOK(used, queue, current), queue # <<>>
  PROVE  /\ Head(queue) \in Nat
         /\ Head(queue) \notin used
         /\ IdsOK(used \cup {Head(queue)}, Tail(queue), current)
<1>1. queue \in Seq(Nat) /\ Len(queue) > 0 /\ DOMAIN queue = 1..Len(queue)
  BY DEF IdsOK
<1>2. /\ Head(queue) = queue[1]
      /\ Tail(queue) \in Seq(Nat)
      /\ DOMAIN Tail(queue) = 1..(Len(queue) - 1)
      /\ \A i \in 1..(Len(queue) - 1) : Tail(queue)[i] = queue[i + 1]
  BY <1>1
<1>3. queue[1] \notin used /\ queue[1] \in 1..(current - 1)
  BY <1>1 DEF IdsOK
<1>4. \A i \in DOMAIN Tail(queue) :
        /\ Tail(queue)[i] \notin used \cup {Head(queue)}
        /\ Tail(queue)[i] \in 1..(current - 1)
  BY <1>1, <1>2, SMTT(30) DEF IdsOK
<1>5. \A i, j \in DOMAIN Tail(queue) : Tail(queue)[i] = Tail(queue)[j] => i = j
  <2> SUFFICES ASSUME NEW i \in 1..(Len(queue) - 1), NEW j \in 1..(Len(queue) - 1),
                      queue[i + 1] = queue[j + 1]
               PROVE  i = j
    BY <1>2, ZenonT(60)
  <2>1. i + 1 \in DOMAIN queue /\ j + 1 \in DOMAIN queue
    BY <1>1
  <2> QED
    BY <2>1, <1>1 DEF IdsOK
<1>6. current \in Nat \ {0} /\ used \subseteq 1..(current - 1)
  BY DEF IdsOK
<1>7. used \cup {Head(queue)} \subseteq 1..(current - 1)
  BY <1>2, <1>3, <1>6, ZenonT(60)
<1>8. IdsOK(used \cup {Head(queue)}, Tail(queue), current)
  BY <1>2, <1>4, <1>5, <1>6, <1>7 DEF IdsOK
<1> QED
  BY <1>2, <1>3, <1>6, <1>8

\* The identifier NextId hands out belongs to no live node, and the bookkeeping
\* holds with it in use.
LEMMA NextIdIsFresh ==
  ASSUME NEW id, IdsOK(Nodes, unusedIds, currentId), NextId(id)
  PROVE  id \notin Nodes /\ IdsOK(Nodes \cup {id}, unusedIds', currentId')
<1>1. CASE unusedIds # <<>>
  <2>1. id = Head(unusedIds) /\ unusedIds' = Tail(unusedIds) /\ currentId' = currentId
    BY <1>1 DEF NextId
  <2>2. Head(unusedIds) \notin Nodes /\ IdsOK(Nodes \cup {Head(unusedIds)}, Tail(unusedIds), currentId)
    BY <1>1, PopKeepsIds
  <2> QED
    BY <2>1, <2>2
<1>2. CASE unusedIds = <<>> /\ RandomizeIds
  <2>1. PICK s \in Shuffles(currentId, 2 * currentId - 1) :
          id = Head(s) /\ unusedIds' = Tail(s) /\ currentId' = 2 * currentId
    BY <1>2 DEF NextId
  <2>2. currentId \in Nat \ {0} /\ Nodes \subseteq 1..(currentId - 1)
    BY DEF IdsOK
  <2>3. /\ s \in Seq(Nat) /\ Len(s) = currentId
        /\ \A i \in 1..Len(s) : s[i] \in currentId..(2 * currentId - 1)
        /\ \A i, j \in 1..Len(s) : s[i] = s[j] => i = j
    BY <2>1, <2>2, ShuffleIsSequence
  <2>4. IdsOK(Nodes, s, 2 * currentId)
    BY <2>2, <2>3 DEF IdsOK
  <2>5. s # <<>>
    BY <2>2, <2>3
  <2> QED
    BY <2>1, <2>4, <2>5, PopKeepsIds
<1>3. CASE unusedIds = <<>> /\ ~RandomizeIds
  <2>1. id = currentId /\ currentId' = currentId + 1 /\ unusedIds' = <<>>
    BY <1>3 DEF NextId
  <2> QED
    BY <2>1, <1>3 DEF IdsOK
<1> QED
  BY <1>1, <1>2, <1>3, RandomizeIdsAssumption

\* A new graph satisfies the invariant.
LEMMA InitGraphInv == Init => GraphInv
<1> SUFFICES ASSUME Init PROVE GraphInv
  OBVIOUS
<1>1. Nodes = {} /\ DOMAIN arcs = {}
  BY DEF Init, GraphInit, Nodes
<1>2. CASE RandomizeIds
  <2>1. currentId = InitialIds /\ unusedIds \in Shuffles(1, InitialIds - 1)
    BY <1>2 DEF Init, GraphInit
  <2>2. InitialIds \in Nat \ {0, 1}
    BY InitialIdsAssumption
  <2>3. /\ unusedIds \in Seq(Nat)
        /\ \A i \in 1..Len(unusedIds) : unusedIds[i] \in 1..(InitialIds - 1)
        /\ \A i, j \in 1..Len(unusedIds) : unusedIds[i] = unusedIds[j] => i = j
    BY <2>1, <2>2, ShuffleIsSequence
  <2>4. DOMAIN unusedIds = 1..Len(unusedIds)
    BY <2>3
  <2>5. IdsNeverClash
    BY <1>1, <2>1, <2>2, <2>3, <2>4 DEF IdsNeverClash
  <2>6. NoDanglingArcs
    BY <1>1 DEF NoDanglingArcs
  <2> QED
    BY <2>1, <2>2, <2>3, <2>5, <2>6 DEF GraphInv
<1>3. CASE ~RandomizeIds
  BY <1>1, <1>3 DEF Init, GraphInit, GraphInv, IdsNeverClash, NoDanglingArcs
<1> QED
  BY <1>2, <1>3

\* No step of the change manager breaks the invariant.
LEMMA NextGraphInv == GraphInv /\ [Next]_vars => GraphInv'
<1> SUFFICES ASSUME GraphInv, [Next]_vars PROVE GraphInv'
  OBVIOUS
<1>0. /\ IdsOK(Nodes, unusedIds, currentId) /\ NoDanglingArcs
      /\ IdsOK(Nodes', unusedIds', currentId') /\ NoDanglingArcs' => GraphInv'
  BY GraphInvSplit DEF GraphInv, IdsOK, IdsNeverClash
<1>1. ASSUME NEW type \in NodeTypes, AddNode(type) PROVE GraphInv'
  <2>1. PICK id : GraphAddNode(id, type)
    BY <1>1 DEF AddNode
  <2>2. NextId(id) /\ Nodes' = Nodes \cup {id} /\ arcs' = arcs
    BY <2>1 DEF GraphAddNode, Nodes
  <2>3. IdsOK(Nodes', unusedIds', currentId')
    BY <1>0, <2>2, NextIdIsFresh
  <2> QED
    BY <1>0, <2>2, <2>3 DEF NoDanglingArcs
<1>2. ASSUME NEW src \in Nodes, NEW dst \in Nodes, NEW v, AddArc(src, dst, v)
      PROVE  GraphInv'
  BY <1>0, <1>2 DEF AddArc, GraphAddArc, WithArc, Nodes, NoDanglingArcs
<1>3. ASSUME NEW a \in DOMAIN arcs, NEW v, ChangeArc(a, v) PROVE GraphInv'
  BY <1>0, <1>3 DEF ChangeArc, GraphChangeArc, WithArc, Nodes, NoDanglingArcs
<1>4. ASSUME NEW a \in DOMAIN arcs, DeleteArc(a) PROVE GraphInv'
  BY <1>0, <1>4 DEF DeleteArc, GraphDeleteArc, WithoutArcs, Nodes, NoDanglingArcs
<1>5. ASSUME NEW n \in Nodes, DeleteNode(n) PROVE GraphInv'
  <2>1. /\ unusedIds' = Append(unusedIds, n) /\ currentId' = currentId
        /\ Nodes' = Nodes \ {n} /\ DOMAIN arcs' = DOMAIN arcs \ IncidentArcs(n)
    BY <1>5 DEF DeleteNode, GraphDeleteNode, WithoutArcs, Nodes
  <2>2. NoDanglingArcs'
    BY <1>0, <2>1 DEF NoDanglingArcs, IncidentArcs
  <2>3. /\ unusedIds \in Seq(Nat) /\ n \in Nat /\ n \in 1..(currentId - 1)
        /\ currentId \in Nat \ {0}
    BY <1>0 DEF IdsOK
  <2>4. /\ unusedIds' \in Seq(Nat)
        /\ DOMAIN unusedIds' = 1..(Len(unusedIds) + 1)
        /\ \A i \in 1..Len(unusedIds) : unusedIds'[i] = unusedIds[i]
        /\ unusedIds'[Len(unusedIds) + 1] = n
        /\ Len(unusedIds) \in Nat /\ DOMAIN unusedIds = 1..Len(unusedIds)
    BY <2>1, <2>3
  <2>5. \A i \in DOMAIN unusedIds :
          unusedIds[i] \notin Nodes /\ unusedIds[i] \in 1..(currentId - 1) /\ unusedIds[i] # n
    BY <1>0 DEF IdsOK
  <2>6. \A i \in DOMAIN unusedIds' :
          unusedIds'[i] \notin Nodes' /\ unusedIds'[i] \in 1..(currentId' - 1)
    BY <2>1, <2>3, <2>4, <2>5
  <2>7. \A i, j \in DOMAIN unusedIds' : unusedIds'[i] = unusedIds'[j] => i = j
    <3>1. \A i, j \in 1..Len(unusedIds) : unusedIds[i] = unusedIds[j] => i = j
      BY <1>0, <2>4, ZenonT(60) DEF IdsOK
    <3>2. \A i \in 1..Len(unusedIds) : unusedIds'[i] # n
      BY <2>4, <2>5
    <3>3. \A i \in DOMAIN unusedIds' : i \in 1..Len(unusedIds) \/ i = Len(unusedIds) + 1
      BY <2>4
    <3> QED
      BY <2>4, <3>1, <3>2, <3>3
  <2>8. Nodes' \subseteq 1..(currentId' - 1) /\ currentId' \in Nat \ {0}
    BY <1>0, <2>1 DEF IdsOK
  <2> QED
    BY <1>0, <2>2, <2>4, <2>6, <2>7, <2>8, ZenonT(60) DEF IdsOK
<1>6. ASSUME ExportToSolver PROVE GraphInv'
  BY <1>0, <1>6 DEF ExportToSolver, graphVars, Nodes, NoDanglingArcs
<1>7. ASSUME UNCHANGED vars PROVE GraphInv'
  BY <1>0, <1>7 DEF vars, graphVars, Nodes, NoDanglingArcs
<1> QED
  BY <1>1, <1>2, <1>3, <1>4, <1>5, <1>6, <1>7 DEF Next

\* FlowGraph::NextId never hands out an identifier that a live node has: the
\* CHECK in FlowGraph::AddNode cannot fail.
THEOREM IdentifiersNeverClash == Spec => []IdsNeverClash
<1>1. GraphInv => IdsNeverClash
  BY DEF GraphInv
<1> QED
  BY <1>1, InitGraphInv, NextGraphInv, PTL DEF Spec

\* FlowGraph::DeleteNode leaves no arc at a deleted node.
THEOREM ArcsNeverDangle == Spec => []NoDanglingArcs
<1>1. GraphInv => NoDanglingArcs
  BY DEF GraphInv
<1> QED
  BY <1>1, InitGraphInv, NextGraphInv, PTL DEF Spec
=============================================================================
