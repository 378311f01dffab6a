-------------------------- MODULE TopicTreeProofs --------------------------
(***************************************************************************)
(* The counters of the tree are what they count, whatever overlaps; and as *)
(* long as no insertion and removal overlap, nothing that is held in the   *)
(* tree is lost and a marked node is cut off. For any clients, filters,    *)
(* topics and number of nodes.                                             *)
(*                                                                         *)
(* The first induction (IInv) rests on the shape of the tree (TreeOK) and  *)
(* on where the walkers are: each at a node that is on the way to the one  *)
(* it wants, there when it stores or deletes (WalkOK). The sets of walkers *)
(* that a counter stands for change by one walker with a step              *)
(* (CountsMove), and so does the counter (CountsStep).                     *)
(*                                                                         *)
(* The second (Apart) is about what is linked: the nodes that their        *)
(* parents still have. A node that was ever a parent counts its children   *)
(* for ever and is never cut off, so what is linked is a tree (LinkOK);    *)
(* what the nodes hold they hold in it (ContentOK), and it is all that was *)
(* promised (SubsOK, RetainedOK). Insertions meet linked nodes only        *)
(* (InsertOK), and what a removal has found empty stays empty (RemoveOK)   *)
(* until it has cut it off (MarkOK). NodeAtIs says that the way down from  *)
(* the root finds the linked node, if there is one.                        *)
(*                                                                         *)
(* The third (SearchOK, DuesOK) is about the searches, which see the tree  *)
(* a child at a time while it changes. What may be found is bounded by     *)
(* sets of nodes that nobody leaves on the way down (Closed): a search has *)
(* such a set before it, in which it finds nothing but what it may         *)
(* (PublisherOK, ClientOK), and what is below the root is noted (NotedOK), *)
(* once a removal has been there (LooksOK). What must be found is at a     *)
(* node that stays linked, and there is always an item left to look at     *)
(* that is on the way to it and stays linked itself (LinkStays, DueOK,     *)
(* RetainedDueOK).                                                         *)
(***************************************************************************)
EXTENDS TopicTree, FiniteSetTheorems, SequenceTheorems, WellFoundedInduction, TLAPS

LEMMA Finite == IsFiniteSet(Walker)
  BY TopicTreeAssumption, FS_AddElement DEF TopicTreeAssumption, Walker
-----------------------------------------------------------------------------
(* Paths *)

\* p is what q begins with.
Under(p, q) == Len(p) <= Len(q) /\ \A i \in 1 .. Len(p) : p[i] = q[i]

LEMMA AppendIs ==
  ASSUME NEW S, NEW p \in Seq(S), NEW l \in S
  PROVE  /\ Append(p, l) \in Seq(S) /\ Append(p, l) # <<>>
         /\ Len(Append(p, l)) = Len(p) + 1
         /\ \A i \in 1 .. Len(p) : Append(p, l)[i] = p[i]
         /\ Append(p, l)[Len(p) + 1] = l
  OBVIOUS

LEMMA AppendParts ==
  ASSUME NEW S, NEW p \in Seq(S), NEW q \in Seq(S), NEW l \in S, NEW m \in S,
         Append(p, l) = Append(q, m)
  PROVE  p = q /\ l = m
  <1>1. Len(p) = Len(q) BY AppendIs
  <1>2. \A i \in 1 .. Len(p) : p[i] = q[i] BY AppendIs, <1>1
  <1>3. p = q BY <1>1, <1>2, SeqEqual
  <1>4. l = m BY AppendIs, <1>1
  <1>5. QED BY <1>3, <1>4

LEMMA UnderAppend ==
  ASSUME NEW S, NEW p \in Seq(S), NEW q \in Seq(S), Under(p, q), Len(p) < Len(q)
  PROVE  Under(Append(p, q[Len(p) + 1]), q)
  <1>1. q[Len(p) + 1] \in S BY ElementOfSeq, LenProperties
  <1>2. QED BY <1>1, AppendIs, LenProperties DEF Under

LEMMA UnderFront ==
  ASSUME NEW S, NEW p \in Seq(S), NEW l \in S, NEW q \in Seq(S), Under(Append(p, l), q)
  PROVE  Under(p, q) /\ Len(p) < Len(q) /\ q[Len(p) + 1] = l
  BY AppendIs, LenProperties DEF Under

LEMMA UnderAll ==
  ASSUME NEW S, NEW p \in Seq(S), NEW q \in Seq(S), Under(p, q), Len(p) = Len(q)
  PROVE  p = q
  BY SeqEqual DEF Under

LEMMA UnderEmpty == ASSUME NEW S, NEW q \in Seq(S) PROVE Under(<<>>, q)
  BY LenProperties DEF Under

LEMMA LevelsIn ==
  ASSUME NEW f \in Filter \cup Topic
  PROVE  f \in Seq(Level) /\ f # <<>>
  <1>1. f \in Seq(LevelsOf(f)) BY TopicTreeAssumption DEF TopicTreeAssumption
  <1>2. LevelsOf(f) \subseteq Level BY DEF Level
  <1>3. f \in Seq(Level) BY ONLY <1>1, <1>2
  <1>4. QED BY <1>3, TopicTreeAssumption DEF TopicTreeAssumption
-----------------------------------------------------------------------------
(* Counting walkers *)

One(P) == IF P THEN 1 ELSE 0

LEMMA OneMoves ==
  ASSUME NEW A, NEW B, IsFiniteSet(A), NEW w, \A v : v # w => (v \in A <=> v \in B)
  PROVE  /\ IsFiniteSet(B) /\ Cardinality(A) \in Nat /\ Cardinality(B) \in Nat
         /\ Cardinality(B) = Cardinality(A) + One(w \in B) - One(w \in A)
  <1>1. A \ {w} = B \ {w} OBVIOUS
  <1>2. IsFiniteSet(A \ {w}) BY FS_RemoveElement
  <1>3. B \subseteq (A \ {w}) \cup {w} OBVIOUS
  <1>4. IsFiniteSet((A \ {w}) \cup {w}) BY <1>2, FS_AddElement
  <1>5. IsFiniteSet(B) BY <1>3, <1>4, FS_Subset
  <1>6. Cardinality(A) \in Nat /\ Cardinality(B) \in Nat BY <1>5, FS_CardinalityType
  <1>7. Cardinality(A \ {w}) = Cardinality(A) - One(w \in A) BY <1>6, FS_RemoveElement DEF One
  <1>8. Cardinality(B \ {w}) = Cardinality(B) - One(w \in B) BY <1>5, <1>6, FS_RemoveElement DEF One
  <1>9. Cardinality(A \ {w}) = Cardinality(B \ {w}) BY <1>1
  <1>10. PICK a, b, c : a = Cardinality(A) /\ b = Cardinality(B) /\ c = Cardinality(A \ {w}) OBVIOUS
  <1>11. /\ a \in Nat /\ b \in Nat /\ c = a - One(w \in A) /\ c = b - One(w \in B)
    BY <1>6, <1>7, <1>8, <1>9, <1>10
  <1>12. b = a + One(w \in B) - One(w \in A) BY ONLY <1>11 DEF One
  <1>13. QED BY <1>5, <1>6, <1>10, <1>12

CutSteps == {"mark", "subsAgain", "kidsAgain", "retainedAgain", "cut", "letGo"}

\* What a walker at a step, with its place and kid, does to the counters of n:
\* it is about to delete a subscription that is no longer counted, holds the
\* node, has raised the number of its children, is about to cut it off.
Deletes(step, a, n)    == step = "delete" /\ a = n
Holds(step, a, k, n)   == \/ step \in {"lower", "check", "back", "enter"} /\ k = n
                          \/ step \in {"leaf", "release"} /\ a = n
Raised(step, ex, a, n) == a = n /\ (step \in {"load", "lower"} \/ (step = "count" /\ ex))
CutsOff(step, a, n)    == step \in CutSteps /\ a = n

Deleting(n)   == {w \in Walker : Deletes(pc[w], at[w], n)}
Holding(n)    == {w \in Walker : Holds(pc[w], at[w], kid[w], n)}
Raising(n)    == {w \in Walker : Raised(pc[w], existed[w], at[w], n)}
CuttingOff(n) == {w \in Walker : CutsOff(pc[w], at[w], n)}
Created == 1 .. nodes
Kids(n) == {k \in Created : parent[k] = n}

CountOK ==
  \A n \in Node :
    /\ subsCount[n] + Cardinality(Deleting(n)) = Cardinality(subs[n]) + Cardinality(Holding(n))
    /\ kidsCount[n] >= Cardinality(Kids(n)) + Cardinality(Raising(n))
    /\ wgDeleted[n] = Cardinality(CuttingOff(n))

\* A step of w leaves the others where they are.
OthersStay(w) ==
  \A v \in Walker \ {w} :
    /\ pc'[v] = pc[v] /\ op'[v] = op[v] /\ want'[v] = want[v]
    /\ at'[v] = at[v] /\ kid'[v] = kid[v] /\ existed'[v] = existed[v]

LEMMA CountsMove ==
  ASSUME NEW w \in Walker, OthersStay(w), NEW n
  PROVE  /\ Cardinality(Deleting(n)) \in Nat /\ Cardinality(Holding(n)) \in Nat
         /\ Cardinality(Raising(n)) \in Nat /\ Cardinality(CuttingOff(n)) \in Nat
         /\ Cardinality(Deleting(n)') \in Nat /\ Cardinality(Holding(n)') \in Nat
         /\ Cardinality(Raising(n)') \in Nat /\ Cardinality(CuttingOff(n)') \in Nat
         /\ Cardinality(Deleting(n)')
              = Cardinality(Deleting(n)) + One(Deletes(pc'[w], at'[w], n)) - One(Deletes(pc[w], at[w], n))
         /\ Cardinality(Holding(n)')
              = Cardinality(Holding(n)) + One(Holds(pc'[w], at'[w], kid'[w], n)) - One(Holds(pc[w], at[w], kid[w], n))
         /\ Cardinality(Raising(n)')
              = Cardinality(Raising(n)) + One(Raised(pc'[w], existed'[w], at'[w], n)) - One(Raised(pc[w], existed[w], at[w], n))
         /\ Cardinality(CuttingOff(n)')
              = Cardinality(CuttingOff(n)) + One(CutsOff(pc'[w], at'[w], n)) - One(CutsOff(pc[w], at[w], n))
  <1>1. IsFiniteSet(Deleting(n)) /\ IsFiniteSet(Holding(n)) /\ IsFiniteSet(Raising(n)) /\ IsFiniteSet(CuttingOff(n))
    BY Finite, FS_Subset DEF Deleting, Holding, Raising, CuttingOff
  <1>2. /\ w \in Deleting(n) <=> Deletes(pc[w], at[w], n)
        /\ w \in Deleting(n)' <=> Deletes(pc'[w], at'[w], n)
        /\ \A v : v # w => (v \in Deleting(n) <=> v \in Deleting(n)')
    BY DEF Deleting, OthersStay
  <1>3. /\ w \in Holding(n) <=> Holds(pc[w], at[w], kid[w], n)
        /\ w \in Holding(n)' <=> Holds(pc'[w], at'[w], kid'[w], n)
        /\ \A v : v # w => (v \in Holding(n) <=> v \in Holding(n)')
    BY DEF Holding, OthersStay
  <1>4. /\ w \in Raising(n) <=> Raised(pc[w], existed[w], at[w], n)
        /\ w \in Raising(n)' <=> Raised(pc'[w], existed'[w], at'[w], n)
        /\ \A v : v # w => (v \in Raising(n) <=> v \in Raising(n)')
    BY DEF Raising, OthersStay
  <1>5. /\ w \in CuttingOff(n) <=> CutsOff(pc[w], at[w], n)
        /\ w \in CuttingOff(n)' <=> CutsOff(pc'[w], at'[w], n)
        /\ \A v : v # w => (v \in CuttingOff(n) <=> v \in CuttingOff(n)')
    BY DEF CuttingOff, OthersStay
  <1>6. /\ Cardinality(Deleting(n)) \in Nat /\ Cardinality(Deleting(n)') \in Nat
        /\ Cardinality(Deleting(n)')
             = Cardinality(Deleting(n)) + One(Deletes(pc'[w], at'[w], n)) - One(Deletes(pc[w], at[w], n))
    <2>1. PICK A, B : /\ A = Deleting(n) /\ B = Deleting(n)' /\ IsFiniteSet(A)
                      /\ \A v : v # w => (v \in A <=> v \in B)
      BY <1>1, <1>2
    <2>2. Cardinality(A) \in Nat /\ Cardinality(B) \in Nat /\ Cardinality(B) = Cardinality(A) + One(w \in B) - One(w \in A)
      BY ONLY <2>1, OneMoves
    <2>3. QED BY <2>1, <2>2, <1>2 DEF One
  <1>7. /\ Cardinality(Holding(n)) \in Nat /\ Cardinality(Holding(n)') \in Nat
        /\ Cardinality(Holding(n)')
             = Cardinality(Holding(n)) + One(Holds(pc'[w], at'[w], kid'[w], n)) - One(Holds(pc[w], at[w], kid[w], n))
    <2>1. PICK A, B : /\ A = Holding(n) /\ B = Holding(n)' /\ IsFiniteSet(A)
                      /\ \A v : v # w => (v \in A <=> v \in B)
      BY <1>1, <1>3
    <2>2. Cardinality(A) \in Nat /\ Cardinality(B) \in Nat /\ Cardinality(B) = Cardinality(A) + One(w \in B) - One(w \in A)
      BY ONLY <2>1, OneMoves
    <2>3. QED BY <2>1, <2>2, <1>3 DEF One
  <1>8. /\ Cardinality(Raising(n)) \in Nat /\ Cardinality(Raising(n)') \in Nat
        /\ Cardinality(Raising(n)')
             = Cardinality(Raising(n)) + One(Raised(pc'[w], existed'[w], at'[w], n)) - One(Raised(pc[w], existed[w], at[w], n))
    <2>1. PICK A, B : /\ A = Raising(n) /\ B = Raising(n)' /\ IsFiniteSet(A)
                      /\ \A v : v # w => (v \in A <=> v \in B)
      BY <1>1, <1>4
    <2>2. Cardinality(A) \in Nat /\ Cardinality(B) \in Nat /\ Cardinality(B) = Cardinality(A) + One(w \in B) - One(w \in A)
      BY ONLY <2>1, OneMoves
    <2>3. QED BY <2>1, <2>2, <1>4 DEF One
  <1>9. /\ Cardinality(CuttingOff(n)) \in Nat /\ Cardinality(CuttingOff(n)') \in Nat
        /\ Cardinality(CuttingOff(n)')
             = Cardinality(CuttingOff(n)) + One(CutsOff(pc'[w], at'[w], n)) - One(CutsOff(pc[w], at[w], n))
    <2>1. PICK A, B : /\ A = CuttingOff(n) /\ B = CuttingOff(n)' /\ IsFiniteSet(A)
                      /\ \A v : v # w => (v \in A <=> v \in B)
      BY <1>1, <1>5
    <2>2. Cardinality(A) \in Nat /\ Cardinality(B) \in Nat /\ Cardinality(B) = Cardinality(A) + One(w \in B) - One(w \in A)
      BY ONLY <2>1, OneMoves
    <2>3. QED BY <2>1, <2>2, <1>5 DEF One
  <1>10. QED BY <1>6, <1>7, <1>8, <1>9
-----------------------------------------------------------------------------
(* Walkers and their places *)

TreeTypes ==
  /\ children \in [Node -> [Level -> Node \cup {None}]] /\ parent \in [Node -> Node \cup {None}]
  /\ path \in [Node -> Seq(Level)] /\ nodes \in Node

NodeTypes ==
  /\ kidsCount \in [Node -> Nat] /\ subsCount \in [Node -> Nat]
  /\ remove \in [Node -> BOOLEAN] /\ wgDeleted \in [Node -> Nat]
  /\ subs \in [Node -> SUBSET Client] /\ retained \in [Node -> Message \cup {None}]

Ops == {"none"} \cup Inserts \cup Removes \cup {"replace"}

WalkTypes ==
  /\ pc \in [Walker -> Steps] /\ op \in [Walker -> Ops]
  /\ want \in [Walker -> Filter \cup Topic \cup {<<>>}]
  /\ at \in [Walker -> Node] /\ kid \in [Walker -> Node] /\ existed \in [Walker -> BOOLEAN]

NoteTypes ==
  held \in [Client -> SUBSET Filter] /\ kept \in [Topic -> Message \cup {None}] /\ mixed \in BOOLEAN

Types == TreeTypes /\ NodeTypes /\ WalkTypes /\ NoteTypes

\* A node is a child of one created before it, and its path leads there.
TreeOK ==
  /\ path[Root] = <<>>
  /\ \A n \in Created :
       parent[n] \in 0 .. n - 1 /\ \E l \in Level : path[n] = Append(path[parent[n]], l)
  /\ \A n \in Node, l \in Level : children[n][l] # None =>
       /\ children[n][l] \in Created /\ parent[children[n][l]] = n
       /\ path[children[n][l]] = Append(path[n], l)

InsertSteps == {"raise", "load", "count", "lower", "check", "back", "wait", "enter", "leaf", "release"}
RemoveSteps == {"seek", "found", "uncount", "delete", "subs", "kids", "retained", "hold", "mark",
                "subsAgain", "kidsAgain", "retainedAgain", "cut", "letGo", "again"}
Descends == {"raise", "load", "count", "lower", "check", "back", "wait", "enter", "seek"}
HasKid   == {"count", "lower", "check", "back", "wait", "enter"}
AtEnd    == {"leaf", "release", "found", "uncount", "delete"}

\* The steps of a request, and who makes it.
RequestOK(w) ==
  /\ pc[w] = "idle" <=> op[w] = "none"
  /\ pc[w] = "idle" => want[w] = <<>> /\ at[w] = Root
  /\ pc[w] # "idle" => want[w] \in IF w = Retainer THEN Topic ELSE Filter
  /\ op[w] \in {"subscribe", "unsubscribe"} => w \in Client
  /\ op[w] \in {"store", "clear", "replace"} => w = Retainer
  /\ pc[w] \in InsertSteps => op[w] \in Inserts
  /\ pc[w] \in RemoveSteps => op[w] \in Removes \cup {"replace"}
  /\ pc[w] = "collect" => op[w] = "subscribe"
  /\ pc[w] = "answer" => op[w] # "replace"
  /\ pc[w] \in {"uncount", "delete"} => op[w] = "unsubscribe"
  /\ pc[w] = "again" => op[w] = "replace"

\* Where it is on the way to the node it wants, or back to the root.
PlaceOK(w) ==
  /\ at[w] \in 0 .. nodes /\ kid[w] \in 0 .. nodes
  /\ Under(path[at[w]], want[w])
  /\ pc[w] \in Descends => Len(path[at[w]]) < Len(want[w])
  /\ pc[w] \in HasKid => kid[w] \in Created /\ path[kid[w]] = Append(path[at[w]], NextLevel(w))
  /\ pc[w] \in AtEnd => path[at[w]] = want[w]
  /\ pc[w] \in {"uncount", "delete"} => w \in subs[at[w]]

WalkOK == \A w \in Walker : RequestOK(w) /\ PlaceOK(w)

IInv == Types /\ TreeOK /\ WalkOK /\ CountOK

walkerSteps == <<treeVars, countVars, subs, retained, walkVars, held, kept, mixed>>

LEMMA NodeFacts ==
  ASSUME TreeTypes
  PROVE  /\ nodes \in Nat /\ 0 .. nodes \subseteq Node /\ Created \subseteq 0 .. nodes /\ Root \in 0 .. nodes
         /\ \A n \in 0 .. nodes : n # Root => n \in Created
         /\ None \notin Node
  BY TopicTreeAssumption DEF TopicTreeAssumption, TreeTypes, Node, Root, Created

LEMMA OthersKept ==
  ASSUME IInv, NEW w \in Walker, OthersStay(w),
         nodes' \in Nat, nodes <= nodes', \A n \in 0 .. nodes : path'[n] = path[n],
         \A v \in Walker \ {w}, n \in Node : v \in subs[n] => v \in subs'[n]
  PROVE  \A v \in Walker \ {w} : RequestOK(v)' /\ PlaceOK(v)'
  <1> SUFFICES ASSUME NEW v \in Walker \ {w} PROVE RequestOK(v)' /\ PlaceOK(v)' OBVIOUS
  <1>1. RequestOK(v) /\ PlaceOK(v) BY DEF IInv, WalkOK
  <1>2. /\ pc'[v] = pc[v] /\ op'[v] = op[v] /\ want'[v] = want[v]
        /\ at'[v] = at[v] /\ kid'[v] = kid[v]
    BY DEF OthersStay
  <1>3. RequestOK(v)' BY <1>1, <1>2 DEF RequestOK
  <1>4. nodes \in Nat /\ Created \subseteq 0 .. nodes /\ Created \subseteq Created' /\ 0 .. nodes \subseteq 0 .. nodes'
    <2>1. nodes \in Nat /\ Created \subseteq 0 .. nodes BY NodeFacts DEF IInv, Types
    <2>2. QED BY <2>1 DEF Created
  <1>5. at[v] \in 0 .. nodes /\ kid[v] \in 0 .. nodes BY <1>1 DEF PlaceOK
  <1>6. path'[at'[v]] = path[at[v]] /\ path'[kid'[v]] = path[kid[v]] /\ NextLevel(v)' = NextLevel(v)
    BY <1>2, <1>5 DEF NextLevel
  <1>7. v \in subs[at[v]] => v \in subs'[at'[v]] BY <1>2, <1>5, NodeFacts DEF IInv, Types
  <1>8. PlaceOK(v)'
    BY <1>1, <1>2, <1>4, <1>5, <1>6, <1>7 DEF PlaceOK
  <1>9. QED BY <1>3, <1>8

LEMMA TreeTypesKept == ASSUME TreeTypes, UNCHANGED treeVars PROVE TreeTypes'
  BY DEF TreeTypes, treeVars

LEMMA NodeTypesKept == ASSUME NodeTypes, UNCHANGED <<countVars, subs, retained>> PROVE NodeTypes'
  BY DEF NodeTypes, countVars

LEMMA NoteTypesKept == ASSUME NoteTypes, UNCHANGED clientVars PROVE NoteTypes'
  BY DEF NoteTypes, clientVars

LEMMA TreeKept ==
  ASSUME TreeOK, UNCHANGED treeVars
  PROVE  TreeOK'
  BY DEF TreeOK, treeVars, Created

LEMMA KidsFinite ==
  ASSUME TreeTypes, NEW n
  PROVE  IsFiniteSet(Kids(n)) /\ Cardinality(Kids(n)) \in Nat
  <1>1. IsFiniteSet(Created) BY NodeFacts, FS_Interval DEF Created
  <1>2. Kids(n) \subseteq Created BY DEF Kids
  <1>3. QED BY <1>1, <1>2, FS_Subset, FS_CardinalityType

LEMMA SubsFinite ==
  ASSUME NodeTypes, NEW n \in Node
  PROVE  IsFiniteSet(subs[n]) /\ Cardinality(subs[n]) \in Nat
  <1>1. subs[n] \subseteq Client BY DEF NodeTypes
  <1>2. QED BY <1>1, TopicTreeAssumption, FS_Subset, FS_CardinalityType DEF TopicTreeAssumption

\* The counters change with what the walker stands for.
LEMMA CountsStep ==
  ASSUME IInv, NEW w \in Walker, OthersStay(w), UNCHANGED <<parent, nodes, subs>>,
         \A n \in Node :
           /\ subsCount'[n] = subsCount[n]
                + One(Holds(pc'[w], at'[w], kid'[w], n)) - One(Holds(pc[w], at[w], kid[w], n))
                - One(Deletes(pc'[w], at'[w], n)) + One(Deletes(pc[w], at[w], n))
           /\ kidsCount'[n] = kidsCount[n]
                + One(Raised(pc'[w], existed'[w], at'[w], n)) - One(Raised(pc[w], existed[w], at[w], n))
           /\ wgDeleted'[n] = wgDeleted[n]
                + One(CutsOff(pc'[w], at'[w], n)) - One(CutsOff(pc[w], at[w], n))
  PROVE  CountOK'
  <1> SUFFICES ASSUME NEW n \in Node
               PROVE  /\ subsCount'[n] + Cardinality(Deleting(n)') = Cardinality(subs'[n]) + Cardinality(Holding(n)')
                      /\ kidsCount'[n] >= Cardinality(Kids(n)') + Cardinality(Raising(n)')
                      /\ wgDeleted'[n] = Cardinality(CuttingOff(n)')
    BY DEF CountOK
  <1>1. Kids(n)' = Kids(n) /\ subs'[n] = subs[n] BY DEF Kids, Created
  <1>2. subsCount[n] \in Nat /\ kidsCount[n] \in Nat /\ wgDeleted[n] \in Nat BY DEF IInv, Types, NodeTypes
  <1>3. Cardinality(Kids(n)) \in Nat /\ Cardinality(subs[n]) \in Nat BY KidsFinite, SubsFinite DEF IInv, Types
  <1>4. PICK d, e, h, i, r, s, c, b :
          /\ d = One(Deletes(pc[w], at[w], n)) /\ e = One(Deletes(pc'[w], at'[w], n))
          /\ h = One(Holds(pc[w], at[w], kid[w], n)) /\ i = One(Holds(pc'[w], at'[w], kid'[w], n))
          /\ r = One(Raised(pc[w], existed[w], at[w], n)) /\ s = One(Raised(pc'[w], existed'[w], at'[w], n))
          /\ c = One(CutsOff(pc[w], at[w], n)) /\ b = One(CutsOff(pc'[w], at'[w], n))
    OBVIOUS
  <1>5. d \in 0 .. 1 /\ e \in 0 .. 1 /\ h \in 0 .. 1 /\ i \in 0 .. 1 /\ r \in 0 .. 1 /\ s \in 0 .. 1 /\ c \in 0 .. 1 /\ b \in 0 .. 1
    BY <1>4 DEF One
  <1>6. /\ Cardinality(Deleting(n)) \in Nat /\ Cardinality(Holding(n)) \in Nat
        /\ Cardinality(Raising(n)) \in Nat /\ Cardinality(CuttingOff(n)) \in Nat
        /\ Cardinality(Deleting(n)') = Cardinality(Deleting(n)) + e - d
        /\ Cardinality(Holding(n)') = Cardinality(Holding(n)) + i - h
        /\ Cardinality(Raising(n)') = Cardinality(Raising(n)) + s - r
        /\ Cardinality(CuttingOff(n)') = Cardinality(CuttingOff(n)) + b - c
    BY <1>4, CountsMove
  <1>7. /\ subsCount'[n] = subsCount[n] + i - h - e + d
        /\ kidsCount'[n] = kidsCount[n] + s - r /\ wgDeleted'[n] = wgDeleted[n] + b - c
    BY <1>4
  <1>8. /\ subsCount[n] + Cardinality(Deleting(n)) = Cardinality(subs[n]) + Cardinality(Holding(n))
        /\ kidsCount[n] >= Cardinality(Kids(n)) + Cardinality(Raising(n))
        /\ wgDeleted[n] = Cardinality(CuttingOff(n))
    BY DEF IInv, CountOK
  <1>9. subsCount'[n] + Cardinality(Deleting(n)') = Cardinality(subs'[n]) + Cardinality(Holding(n)')
    <2>1. PICK D, H, S, x : /\ D = Cardinality(Deleting(n)) /\ H = Cardinality(Holding(n))
                            /\ S = Cardinality(subs[n]) /\ x = subsCount[n]
      OBVIOUS
    <2>2. D \in Nat /\ H \in Nat /\ S \in Nat /\ x \in Nat /\ x + D = S + H BY <1>2, <1>3, <1>6, <1>8, <2>1
    <2>3. (x + i - h - e + d) + (D + e - d) = S + (H + i - h) BY ONLY <2>2, <1>5
    <2>4. QED BY <1>1, <1>6, <1>7, <2>1, <2>3
  <1>10. kidsCount'[n] >= Cardinality(Kids(n)') + Cardinality(Raising(n)')
    <2>1. PICK K, R, x : K = Cardinality(Kids(n)) /\ R = Cardinality(Raising(n)) /\ x = kidsCount[n] OBVIOUS
    <2>2. K \in Nat /\ R \in Nat /\ x \in Nat /\ x >= K + R BY <1>2, <1>3, <1>6, <1>8, <2>1
    <2>3. x + s - r >= K + (R + s - r) BY ONLY <2>2, <1>5
    <2>4. QED BY <1>1, <1>6, <1>7, <2>1, <2>3
  <1>11. wgDeleted'[n] = Cardinality(CuttingOff(n)')
    BY ONLY <1>2, <1>5, <1>6, <1>7, <1>8
  <1>12. QED BY <1>9, <1>10, <1>11

\* Whoever stands for something, a counter counts.
LEMMA Positive ==
  ASSUME IInv, NEW w \in Walker, NEW n \in Node
  PROVE  /\ Holds(pc[w], at[w], kid[w], n) => subsCount[n] >= 1
         /\ Raised(pc[w], existed[w], at[w], n) => kidsCount[n] >= 1
         /\ CutsOff(pc[w], at[w], n) => wgDeleted[n] >= 1
         /\ pc[w] = "uncount" /\ at[w] = n => subsCount[n] >= 1
  <1>1. IsFiniteSet(Deleting(n)) /\ IsFiniteSet(Holding(n)) /\ IsFiniteSet(Raising(n)) /\ IsFiniteSet(CuttingOff(n))
    BY Finite, FS_Subset DEF Deleting, Holding, Raising, CuttingOff
  <1>2. /\ Cardinality(Deleting(n)) \in Nat /\ Cardinality(Holding(n)) \in Nat
        /\ Cardinality(Raising(n)) \in Nat /\ Cardinality(CuttingOff(n)) \in Nat
        /\ Cardinality(Kids(n)) \in Nat /\ Cardinality(subs[n]) \in Nat /\ IsFiniteSet(subs[n])
        /\ subsCount[n] \in Nat /\ kidsCount[n] \in Nat /\ wgDeleted[n] \in Nat
    <2>1. IsFiniteSet(subs[n]) /\ Cardinality(subs[n]) \in Nat /\ Cardinality(Kids(n)) \in Nat
      BY SubsFinite, KidsFinite DEF IInv, Types
    <2>2. subsCount[n] \in Nat /\ kidsCount[n] \in Nat /\ wgDeleted[n] \in Nat BY DEF IInv, Types, NodeTypes
    <2>3. QED BY <1>1, <2>1, <2>2, FS_CardinalityType
  <1>3. /\ subsCount[n] + Cardinality(Deleting(n)) = Cardinality(subs[n]) + Cardinality(Holding(n))
        /\ kidsCount[n] >= Cardinality(Kids(n)) + Cardinality(Raising(n))
        /\ wgDeleted[n] = Cardinality(CuttingOff(n))
    BY DEF IInv, CountOK
  <1>4. Deleting(n) \subseteq subs[n] BY DEF Deleting, Deletes, IInv, WalkOK, PlaceOK
  <1>5. Cardinality(Deleting(n)) <= Cardinality(subs[n]) BY <1>2, <1>4, FS_Subset
  <1>6. Holds(pc[w], at[w], kid[w], n) => Cardinality(Holding(n)) # 0 BY <1>1, FS_EmptySet DEF Holding
  <1>7. Raised(pc[w], existed[w], at[w], n) => Cardinality(Raising(n)) # 0 BY <1>1, FS_EmptySet DEF Raising
  <1>8. CutsOff(pc[w], at[w], n) => Cardinality(CuttingOff(n)) # 0 BY <1>1, FS_EmptySet DEF CuttingOff
  <1>9. ASSUME pc[w] = "uncount", at[w] = n PROVE Cardinality(Deleting(n)) # Cardinality(subs[n])
    <2>1. w \in subs[n] /\ w \notin Deleting(n) BY <1>9 DEF Deleting, Deletes, IInv, WalkOK, PlaceOK
    <2>2. QED BY <2>1, <1>2, <1>4, FS_Subset
  <1>10. QED BY <1>2, <1>3, <1>5, <1>6, <1>7, <1>8, <1>9

LEMMA WalkKept ==
  ASSUME IInv, NEW w \in Walker, OthersStay(w), RequestOK(w)', PlaceOK(w)',
         UNCHANGED <<nodes, path>>, \A v \in Walker \ {w}, n \in Node : v \in subs[n] => v \in subs'[n]
  PROVE  WalkOK'
  BY OthersKept, NodeFacts DEF WalkOK, IInv, Types

\* What is common to all walkers.
LEMMA WalkerFacts ==
  ASSUME IInv, NEW w \in Walker
  PROVE  /\ at[w] \in Node /\ kid[w] \in Node /\ path[at[w]] \in Seq(Level) /\ path[kid[w]] \in Seq(Level)
         /\ want[w] \in Seq(Level)
         /\ pc[w] # "idle" => want[w] \in Filter \cup Topic
         /\ pc[w] \in Descends => NextLevel(w) \in Level
         /\ pc[w] \in Steps /\ existed[w] \in BOOLEAN
         /\ op[w] \in Ops
  <1>1. RequestOK(w) /\ PlaceOK(w) /\ Types BY DEF IInv, WalkOK
  <1>2. at[w] \in Node /\ kid[w] \in Node /\ pc[w] \in Steps /\ existed[w] \in BOOLEAN
        /\ op[w] \in Ops /\ want[w] \in Filter \cup Topic \cup {<<>>}
    BY <1>1 DEF Types, WalkTypes
  <1>3. path[at[w]] \in Seq(Level) /\ path[kid[w]] \in Seq(Level)
    <2>1. path \in [Node -> Seq(Level)] BY <1>1 DEF Types, TreeTypes
    <2>2. QED BY <1>2, <2>1
  <1>4. want[w] \in Seq(Level)
    <2>1. <<>> \in Seq(Level) OBVIOUS
    <2>2. QED BY <1>2, <2>1, LevelsIn
  <1>5. pc[w] # "idle" => want[w] \in Filter \cup Topic BY <1>1 DEF RequestOK
  <1>6. pc[w] \in Descends => NextLevel(w) \in Level
    <2> SUFFICES ASSUME pc[w] \in Descends PROVE NextLevel(w) \in Level OBVIOUS
    <2>1. Len(path[at[w]]) < Len(want[w]) BY <1>1 DEF PlaceOK
    <2>2. Len(path[at[w]]) \in Nat /\ Len(want[w]) \in Nat BY <1>3, <1>4
    <2>3. Len(path[at[w]]) + 1 \in 1 .. Len(want[w]) BY <2>1, <2>2
    <2>4. QED BY <2>3, <1>4, ElementOfSeq DEF NextLevel
  <1>7. QED BY <1>2, <1>3, <1>4, <1>5, <1>6
-----------------------------------------------------------------------------
(* The steps of an insertion *)

LEMMA RaiseStep ==
  ASSUME IInv, NEW w \in Walker, Raise(w)
  PROVE  IInv'
  <1>1. RequestOK(w) /\ PlaceOK(w) BY DEF IInv, WalkOK
  <1>2. /\ pc[w] = "raise" /\ pc'[w] = "load" /\ OthersStay(w)
        /\ at'[w] = at[w] /\ kid'[w] = kid[w] /\ existed'[w] = existed[w] /\ op'[w] = op[w] /\ want'[w] = want[w]
    BY DEF Raise, Goto, IInv, Types, WalkTypes, OthersStay
  <1>3. Types'
    <2>1. TreeTypes' BY TreeTypesKept DEF Raise, IInv, Types
    <2>2. NodeTypes' BY <1>1, <1>2, WalkerFacts DEF Raise, Add, IInv, Types, NodeTypes
    <2>3. WalkTypes' BY <1>1, <1>2 DEF Raise, Goto, IInv, Types, WalkTypes, Steps
    <2>4. NoteTypes' BY NoteTypesKept DEF Raise, IInv, Types
    <2>5. QED BY <2>1, <2>2, <2>3, <2>4 DEF Types
  <1>4. TreeOK' BY TreeKept DEF Raise, IInv
  <1>5. WalkOK'
    <2>1. UNCHANGED <<nodes, path, subs>> BY DEF Raise, treeVars
    <2>2. RequestOK(w)' BY <1>1, <1>2 DEF RequestOK, InsertSteps, RemoveSteps, Inserts, Removes
    <2>3. PlaceOK(w)' BY <1>1, <1>2, <2>1 DEF PlaceOK, Descends, HasKid, AtEnd, Created, NextLevel
    <2>4. QED BY <1>2, <2>1, <2>2, <2>3, WalkKept
  <1>6. CountOK'
    <2>1. UNCHANGED <<parent, nodes, subs, subsCount, wgDeleted>> BY DEF Raise, treeVars
    <2>2. \A n \in Node : /\ kidsCount[n] \in Nat /\ subsCount[n] \in Nat /\ wgDeleted[n] \in Nat
                         /\ kidsCount'[n] = kidsCount[n] + One(n = at[w])
      BY WalkerFacts DEF Raise, Add, One, IInv, Types, NodeTypes
    <2>3. QED BY <1>2, <2>1, <2>2, CountsStep DEF One, Deletes, Holds, Raised, CutsOff, CutSteps
  <1>7. QED BY <1>3, <1>4, <1>5, <1>6 DEF IInv

LEMMA LoadChildStep ==
  ASSUME IInv, NEW w \in Walker, LoadChild(w)
  PROVE  IInv'
  <1>1. RequestOK(w) /\ PlaceOK(w) BY DEF IInv, WalkOK
  <1>2. /\ pc[w] = "load" /\ pc'[w] = "count" /\ OthersStay(w)
        /\ at'[w] = at[w] /\ existed'[w] = TRUE /\ op'[w] = op[w] /\ want'[w] = want[w]
        /\ kid'[w] = children[at[w]][NextLevel(w)] /\ kid'[w] # None
    BY DEF LoadChild, Goto, IInv, Types, WalkTypes, OthersStay
  <1>8. kid'[w] \in Created /\ path[kid'[w]] = Append(path[at[w]], NextLevel(w))
    <2>1. at[w] \in Node /\ NextLevel(w) \in Level BY <1>2, WalkerFacts DEF Descends
    <2>2. QED BY <1>2, <2>1 DEF IInv, TreeOK
  <1>9. Created \subseteq 0 .. nodes /\ Created \subseteq Node BY NodeFacts DEF IInv, Types
  <1>3. Types'
    <2>1. TreeTypes' BY TreeTypesKept DEF LoadChild, IInv, Types
    <2>2. NodeTypes' BY NodeTypesKept DEF LoadChild, IInv, Types, clientVars
    <2>3. WalkTypes' BY <1>1, <1>2, <1>8, <1>9 DEF LoadChild, Goto, IInv, Types, WalkTypes, Steps
    <2>4. NoteTypes' BY NoteTypesKept DEF LoadChild, IInv, Types
    <2>5. QED BY <2>1, <2>2, <2>3, <2>4 DEF Types
  <1>4. TreeOK' BY TreeKept DEF LoadChild, IInv
  <1>5. WalkOK'
    <2>1. UNCHANGED <<nodes, path, subs>> BY DEF LoadChild, treeVars
    <2>2. RequestOK(w)'
      <3>1. pc[w] = "load" /\ pc'[w] = "count" /\ op'[w] = op[w] /\ want'[w] = want[w] /\ at'[w] = at[w] BY <1>2
      <3>2. QED BY <1>1, <3>1 DEF RequestOK, InsertSteps, RemoveSteps, Inserts, Removes
    <2>3. PlaceOK(w)'
      <3>1. NextLevel(w)' = NextLevel(w) /\ Created' = Created BY <1>2, <2>1 DEF NextLevel, Created
      <3>2. /\ pc[w] = "load" /\ pc'[w] = "count" /\ want'[w] = want[w] /\ at'[w] = at[w]
            /\ kid'[w] \in Created /\ kid'[w] \in 0 .. nodes /\ path'[kid'[w]] = Append(path[at[w]], NextLevel(w))
        BY <1>2, <1>8, <1>9, <2>1
      <3>3. QED BY <1>1, <2>1, <3>1, <3>2, Zenon DEF PlaceOK, Descends, HasKid, AtEnd
    <2>4. QED BY <1>2, <2>1, <2>2, <2>3, WalkKept
  <1>6. CountOK'
    <2>1. UNCHANGED <<parent, nodes, subs, subsCount, kidsCount, wgDeleted>> BY DEF LoadChild, treeVars, countVars
    <2>2. \A n \in Node : kidsCount[n] \in Nat /\ subsCount[n] \in Nat /\ wgDeleted[n] \in Nat
      BY DEF IInv, Types, NodeTypes
    <2>3. QED BY <1>2, <2>1, <2>2, CountsStep DEF One, Deletes, Holds, Raised, CutsOff, CutSteps
  <1>7. QED BY <1>3, <1>4, <1>5, <1>6 DEF IInv

LEMMA StoreChildStep ==
  ASSUME IInv, NEW w \in Walker, StoreChild(w)
  PROVE  IInv'
  <1>1. RequestOK(w) /\ PlaceOK(w) BY DEF IInv, WalkOK
  <1> DEFINE l == NextLevel(w)
             k == nodes + 1
  <1>2. /\ pc[w] = "load" /\ pc'[w] = "count" /\ OthersStay(w)
        /\ at'[w] = at[w] /\ existed'[w] = FALSE /\ op'[w] = op[w] /\ want'[w] = want[w]
        /\ kid'[w] = k
    BY DEF StoreChild, Goto, IInv, Types, WalkTypes, OthersStay
  <1>3. /\ nodes \in Nat /\ nodes < MaxNodes /\ nodes' = k /\ k \in Node /\ k \notin 0 .. nodes
        /\ at[w] \in 0 .. nodes /\ at[w] \in Node /\ l \in Level /\ children[at[w]][l] = None
        /\ 0 .. nodes \subseteq Node /\ 0 .. k \subseteq Node /\ Created = 1 .. nodes /\ Created' = 1 .. k /\ k \in Nat
    <2>1. at[w] \in 0 .. nodes /\ at[w] \in Node /\ l \in Level BY <1>1, <1>2, WalkerFacts DEF PlaceOK, Descends
    <2>2. nodes \in Nat /\ MaxNodes \in Nat BY NodeFacts, TopicTreeAssumption DEF IInv, Types, TopicTreeAssumption
    <2>3. nodes < MaxNodes /\ nodes' = k /\ children[at[w]][l] = None BY DEF StoreChild
    <2>4. QED BY <2>1, <2>2, <2>3 DEF Node, Root, Created
  <1>4. /\ path[at[w]] \in Seq(Level) /\ path \in [Node -> Seq(Level)]
        /\ parent \in [Node -> Node \cup {None}] /\ children \in [Node -> [Level -> Node \cup {None}]]
    BY WalkerFacts DEF IInv, Types, TreeTypes
  <1>5. /\ path' = [path EXCEPT ![k] = Append(path[at[w]], l)]
        /\ parent' = [parent EXCEPT ![k] = at[w]]
        /\ children' = [children EXCEPT ![at[w]][l] = k]
    BY <1>3 DEF StoreChild
  <1>6. Append(path[at[w]], l) \in Seq(Level) BY <1>3, <1>4, AppendIs
  <1> HIDE DEF l, k
  <1>7. /\ path'[k] = Append(path[at[w]], l) /\ parent'[k] = at[w]
        /\ \A n \in Node \ {k} : path'[n] = path[n] /\ parent'[n] = parent[n]
        /\ \A n \in Node, j \in Level : children'[n][j] = IF n = at[w] /\ j = l THEN k ELSE children[n][j]
    BY <1>3, <1>4, <1>5
  <1>8. Types'
    <2>1. TreeTypes' BY <1>3, <1>4, <1>5, <1>6 DEF TreeTypes
    <2>2. NodeTypes' BY NodeTypesKept DEF StoreChild, IInv, Types, clientVars
    <2>3. WalkTypes' BY <1>3 DEF StoreChild, Goto, IInv, Types, WalkTypes, Steps, k
    <2>4. NoteTypes' BY NoteTypesKept DEF StoreChild, IInv, Types
    <2>5. QED BY <2>1, <2>2, <2>3, <2>4 DEF Types
  <1>9. TreeOK'
    <2>1. TreeOK BY DEF IInv
    <2>2. path'[Root] = <<>> BY <2>1, <1>3, <1>7 DEF TreeOK, Root
    <2>3. ASSUME NEW n \in Created'
          PROVE  parent'[n] \in 0 .. n - 1 /\ \E j \in Level : path'[n] = Append(path'[parent'[n]], j)
      <3>1. CASE n = k
        <4>1. parent'[n] = at[w] /\ path'[at[w]] = path[at[w]] BY <1>3, <1>7, <3>1
        <4>2. at[w] \in 0 .. k - 1 BY <1>3 DEF k
        <4>3. QED BY <4>1, <4>2, <1>3, <1>7, <3>1
      <3>2. CASE n # k
        <4>1. n \in Created /\ n \in Node /\ n \in Nat BY <1>3, <3>2 DEF k
        <4>2. parent[n] \in 0 .. n - 1 /\ \E j \in Level : path[n] = Append(path[parent[n]], j)
          BY <4>1, <2>1 DEF TreeOK
        <4>3. parent[n] \in Node \ {k} BY <4>1, <4>2, <1>3 DEF Created
        <4>4. QED BY <4>1, <4>2, <4>3, <3>2, <1>7
      <3>3. QED BY <3>1, <3>2
    <2>4. ASSUME NEW n \in Node, NEW j \in Level, children'[n][j] # None
          PROVE  /\ children'[n][j] \in Created' /\ parent'[children'[n][j]] = n
                 /\ path'[children'[n][j]] = Append(path'[n], j)
      <3>1. CASE n = at[w] /\ j = l
        <4>1. children'[n][j] = k /\ n # k BY <1>3, <1>7, <3>1
        <4>2. k \in Created' BY <1>3 DEF k
        <4>3. QED BY <4>1, <4>2, <1>7, <3>1
      <3>2. CASE ~(n = at[w] /\ j = l)
        <4>1. children'[n][j] = children[n][j] BY <1>7, <3>2
        <4>2. /\ children[n][j] \in Created /\ parent[children[n][j]] = n
              /\ path[children[n][j]] = Append(path[n], j)
          BY <2>4, <4>1, <2>1 DEF TreeOK
        <4>3. children[n][j] \in Node \ {k} /\ children[n][j] \in Created' BY <4>2, <1>3 DEF k
        <4>4. n # k
          <5>1. n \in 0 .. children[n][j] - 1 BY <4>2, <2>1 DEF TreeOK
          <5>2. QED BY <5>1, <4>2, <1>3
        <4>5. QED BY <4>1, <4>2, <4>3, <4>4, <1>7
      <3>3. QED BY <3>1, <3>2
    <2>5. QED BY <2>2, <2>3, <2>4 DEF TreeOK
  <1>10. WalkOK'
    <2>1. nodes' \in Nat /\ nodes <= nodes' /\ (\A n \in 0 .. nodes : path'[n] = path[n]) /\ subs' = subs
      BY <1>3, <1>7 DEF StoreChild, k
    <2>2. RequestOK(w)' BY <1>1, <1>2 DEF RequestOK, InsertSteps, RemoveSteps, Inserts, Removes
    <2>3. PlaceOK(w)'
      <3>1. at'[w] \in 0 .. nodes' /\ kid'[w] \in 0 .. nodes' /\ kid'[w] \in Created'
        BY <1>2, <1>3 DEF k
      <3>2. path'[at'[w]] = path[at[w]] BY <1>2, <1>3, <2>1
      <3>3. NextLevel(w)' = l BY <1>2, <3>2 DEF NextLevel, l
      <3>4. path'[kid'[w]] = Append(path'[at'[w]], NextLevel(w)') BY <1>2, <1>7, <3>2, <3>3
      <3>5. QED BY <1>1, <1>2, <3>1, <3>2, <3>4 DEF PlaceOK, Descends, HasKid, AtEnd
    <2>4. QED BY <1>2, <2>1, <2>2, <2>3, OthersKept DEF WalkOK
  <1>11. CountOK'
    <2> SUFFICES ASSUME NEW n \in Node
                 PROVE  /\ subsCount'[n] + Cardinality(Deleting(n)') = Cardinality(subs'[n]) + Cardinality(Holding(n)')
                        /\ kidsCount'[n] >= Cardinality(Kids(n)') + Cardinality(Raising(n)')
                        /\ wgDeleted'[n] = Cardinality(CuttingOff(n)')
      BY DEF CountOK
    <2>1. /\ Cardinality(Deleting(n)') = Cardinality(Deleting(n)) /\ Cardinality(Holding(n)') = Cardinality(Holding(n))
          /\ Cardinality(CuttingOff(n)') = Cardinality(CuttingOff(n))
          /\ Cardinality(Raising(n)') = Cardinality(Raising(n)) - One(n = at[w])
          /\ Cardinality(Raising(n)) \in Nat
      BY <1>2, CountsMove DEF One, Deletes, Holds, Raised, CutsOff, CutSteps
    <2>2. UNCHANGED <<kidsCount, subsCount, wgDeleted, subs>> BY DEF StoreChild, countVars
    <2>3. Kids(n)' = IF n = at[w] THEN Kids(n) \cup {k} ELSE Kids(n)
      <3>1. \A j \in Created : parent'[j] = parent[j] BY <1>3, <1>7
      <3>2. Created' = Created \cup {k} BY <1>3 DEF k
      <3>3. QED BY <3>1, <3>2, <1>7 DEF Kids
    <2>4. k \notin Kids(n) /\ IsFiniteSet(Kids(n)) /\ Cardinality(Kids(n)) \in Nat
      <3>1. Created \subseteq 0 .. nodes BY NodeFacts DEF IInv, Types
      <3>2. k \notin Kids(n) BY <1>3, <3>1 DEF Kids
      <3>3. QED BY <3>2, KidsFinite DEF IInv, Types
    <2>5. Cardinality(Kids(n)') = Cardinality(Kids(n)) + One(n = at[w])
      <3>1. Cardinality(Kids(n) \cup {k}) = Cardinality(Kids(n)) + 1 BY <2>4, FS_AddElement
      <3>2. QED BY <2>3, <2>4, <3>1 DEF One
    <2>6. kidsCount[n] \in Nat /\ kidsCount[n] >= Cardinality(Kids(n)) + Cardinality(Raising(n))
      BY DEF IInv, CountOK, Types, NodeTypes
    <2>7. kidsCount'[n] >= Cardinality(Kids(n)') + Cardinality(Raising(n)')
      <3>1. One(n = at[w]) \in Nat BY DEF One
      <3>2. QED BY ONLY <3>1, <2>1, <2>2, <2>4, <2>5, <2>6
    <2>8. QED BY <2>1, <2>2, <2>7 DEF IInv, CountOK
  <1>12. QED BY <1>8, <1>9, <1>10, <1>11 DEF IInv

LEMMA CountStep ==
  ASSUME IInv, NEW w \in Walker, Count(w)
  PROVE  IInv'
  <1>1. RequestOK(w) /\ PlaceOK(w) BY DEF IInv, WalkOK
  <1>2. /\ pc[w] = "count" /\ pc'[w] = (IF existed[w] THEN "lower" ELSE "enter") /\ OthersStay(w)
        /\ at'[w] = at[w] /\ kid'[w] = kid[w] /\ existed'[w] = existed[w] /\ op'[w] = op[w] /\ want'[w] = want[w]
    BY DEF Count, Goto, IInv, Types, WalkTypes, OthersStay
  <1>3. Types'
    <2>1. TreeTypes' BY TreeTypesKept DEF Count, IInv, Types
    <2>2. NodeTypes' BY <1>1, <1>2, WalkerFacts DEF Count, Add, IInv, Types, NodeTypes
    <2>3. WalkTypes' BY <1>1, <1>2 DEF Count, Goto, IInv, Types, WalkTypes, Steps
    <2>4. NoteTypes' BY NoteTypesKept DEF Count, IInv, Types
    <2>5. QED BY <2>1, <2>2, <2>3, <2>4 DEF Types
  <1>4. TreeOK' BY TreeKept DEF Count, IInv
  <1>5. WalkOK'
    <2>1. UNCHANGED <<nodes, path, subs>> BY DEF Count, treeVars
    <2>2. RequestOK(w)' BY <1>1, <1>2 DEF RequestOK, InsertSteps, RemoveSteps, Inserts, Removes
    <2>3. PlaceOK(w)' BY <1>1, <1>2, <2>1 DEF PlaceOK, Descends, HasKid, AtEnd, Created, NextLevel
    <2>4. QED BY <1>2, <2>1, <2>2, <2>3, WalkKept
  <1>6. CountOK'
    <2>1. UNCHANGED <<parent, nodes, subs, kidsCount, wgDeleted>> BY DEF Count, treeVars
    <2>2. \A n \in Node : /\ kidsCount[n] \in Nat /\ subsCount[n] \in Nat /\ wgDeleted[n] \in Nat
                         /\ subsCount'[n] = subsCount[n] + One(n = kid[w])
      BY WalkerFacts DEF Count, Add, One, IInv, Types, NodeTypes
    <2>3. QED BY <1>2, <2>1, <2>2, CountsStep DEF One, Deletes, Holds, Raised, CutsOff, CutSteps
  <1>7. QED BY <1>3, <1>4, <1>5, <1>6 DEF IInv

LEMMA LowerStep ==
  ASSUME IInv, NEW w \in Walker, Lower(w)
  PROVE  IInv'
  <1>1. RequestOK(w) /\ PlaceOK(w) BY DEF IInv, WalkOK
  <1>2. /\ pc[w] = "lower" /\ pc'[w] = "check" /\ OthersStay(w)
        /\ at'[w] = at[w] /\ kid'[w] = kid[w] /\ existed'[w] = existed[w] /\ op'[w] = op[w] /\ want'[w] = want[w]
    BY DEF Lower, Goto, IInv, Types, WalkTypes, OthersStay
  <1>3. Types'
    <2>1. TreeTypes' BY TreeTypesKept DEF Lower, IInv, Types
    <2>2. NodeTypes'
      <3>1. at[w] \in Node /\ kidsCount[at[w]] >= 1 BY <1>2, WalkerFacts, Positive DEF Raised
      <3>2. QED BY <3>1 DEF Lower, Sub, IInv, Types, NodeTypes
    <2>3. WalkTypes' BY <1>1, <1>2 DEF Lower, Goto, IInv, Types, WalkTypes, Steps
    <2>4. NoteTypes' BY NoteTypesKept DEF Lower, IInv, Types
    <2>5. QED BY <2>1, <2>2, <2>3, <2>4 DEF Types
  <1>4. TreeOK' BY TreeKept DEF Lower, IInv
  <1>5. WalkOK'
    <2>1. UNCHANGED <<nodes, path, subs>> BY DEF Lower, treeVars
    <2>2. RequestOK(w)' BY <1>1, <1>2 DEF RequestOK, InsertSteps, RemoveSteps, Inserts, Removes
    <2>3. PlaceOK(w)' BY <1>1, <1>2, <2>1 DEF PlaceOK, Descends, HasKid, AtEnd, Created, NextLevel
    <2>4. QED BY <1>2, <2>1, <2>2, <2>3, WalkKept
  <1>6. CountOK'
    <2>1. UNCHANGED <<parent, nodes, subs, subsCount, wgDeleted>> BY DEF Lower, treeVars
    <2>2. \A n \in Node : /\ kidsCount[n] \in Nat /\ subsCount[n] \in Nat /\ wgDeleted[n] \in Nat
                         /\ kidsCount'[n] = kidsCount[n] - One(n = at[w])
      BY WalkerFacts DEF Lower, Sub, One, IInv, Types, NodeTypes
    <2>3. QED BY <1>2, <2>1, <2>2, CountsStep DEF One, Deletes, Holds, Raised, CutsOff, CutSteps
  <1>7. QED BY <1>3, <1>4, <1>5, <1>6 DEF IInv

LEMMA CheckRemoveStep ==
  ASSUME IInv, NEW w \in Walker, CheckRemove(w)
  PROVE  IInv'
  <1>1. RequestOK(w) /\ PlaceOK(w) BY DEF IInv, WalkOK
  <1>2. /\ pc[w] = "check" /\ pc'[w] \in {"back", "enter"} /\ OthersStay(w)
        /\ at'[w] = at[w] /\ kid'[w] = kid[w] /\ existed'[w] = existed[w] /\ op'[w] = op[w] /\ want'[w] = want[w]
    BY DEF CheckRemove, Goto, IInv, Types, WalkTypes, OthersStay
  <1>3. Types'
    <2>1. TreeTypes' BY TreeTypesKept DEF CheckRemove, IInv, Types
    <2>2. NodeTypes' BY NodeTypesKept DEF CheckRemove, IInv, Types, clientVars
    <2>3. WalkTypes' BY <1>1, <1>2 DEF CheckRemove, Goto, IInv, Types, WalkTypes, Steps
    <2>4. NoteTypes' BY NoteTypesKept DEF CheckRemove, IInv, Types
    <2>5. QED BY <2>1, <2>2, <2>3, <2>4 DEF Types
  <1>4. TreeOK' BY TreeKept DEF CheckRemove, IInv
  <1>5. WalkOK'
    <2>1. UNCHANGED <<nodes, path, subs>> BY DEF CheckRemove, treeVars
    <2>2. RequestOK(w)' BY <1>1, <1>2 DEF RequestOK, InsertSteps, RemoveSteps, Inserts, Removes
    <2>3. PlaceOK(w)' BY <1>1, <1>2, <2>1 DEF PlaceOK, Descends, HasKid, AtEnd, Created, NextLevel
    <2>4. QED BY <1>2, <2>1, <2>2, <2>3, WalkKept
  <1>6. CountOK'
    <2>1. UNCHANGED <<parent, nodes, subs, subsCount, kidsCount, wgDeleted>> BY DEF CheckRemove, treeVars, countVars
    <2>2. \A n \in Node : kidsCount[n] \in Nat /\ subsCount[n] \in Nat /\ wgDeleted[n] \in Nat
      BY DEF IInv, Types, NodeTypes
    <2>3. QED BY <1>2, <2>1, <2>2, CountsStep DEF One, Deletes, Holds, Raised, CutsOff, CutSteps
  <1>7. QED BY <1>3, <1>4, <1>5, <1>6 DEF IInv

LEMMA BackOffStep ==
  ASSUME IInv, NEW w \in Walker, BackOff(w)
  PROVE  IInv'
  <1>1. RequestOK(w) /\ PlaceOK(w) BY DEF IInv, WalkOK
  <1>2. /\ pc[w] = "back" /\ pc'[w] = "wait" /\ OthersStay(w)
        /\ at'[w] = at[w] /\ kid'[w] = kid[w] /\ existed'[w] = existed[w] /\ op'[w] = op[w] /\ want'[w] = want[w]
    BY DEF BackOff, Goto, IInv, Types, WalkTypes, OthersStay
  <1>3. Types'
    <2>1. TreeTypes' BY TreeTypesKept DEF BackOff, IInv, Types
    <2>2. NodeTypes'
      <3>1. kid[w] \in Node /\ subsCount[kid[w]] >= 1 BY <1>2, WalkerFacts, Positive DEF Holds
      <3>2. QED BY <3>1 DEF BackOff, Sub, IInv, Types, NodeTypes
    <2>3. WalkTypes' BY <1>1, <1>2 DEF BackOff, Goto, IInv, Types, WalkTypes, Steps
    <2>4. NoteTypes' BY NoteTypesKept DEF BackOff, IInv, Types
    <2>5. QED BY <2>1, <2>2, <2>3, <2>4 DEF Types
  <1>4. TreeOK' BY TreeKept DEF BackOff, IInv
  <1>5. WalkOK'
    <2>1. UNCHANGED <<nodes, path, subs>> BY DEF BackOff, treeVars
    <2>2. RequestOK(w)' BY <1>1, <1>2 DEF RequestOK, InsertSteps, RemoveSteps, Inserts, Removes
    <2>3. PlaceOK(w)' BY <1>1, <1>2, <2>1 DEF PlaceOK, Descends, HasKid, AtEnd, Created, NextLevel
    <2>4. QED BY <1>2, <2>1, <2>2, <2>3, WalkKept
  <1>6. CountOK'
    <2>1. UNCHANGED <<parent, nodes, subs, kidsCount, wgDeleted>> BY DEF BackOff, treeVars
    <2>2. \A n \in Node : /\ kidsCount[n] \in Nat /\ subsCount[n] \in Nat /\ wgDeleted[n] \in Nat
                         /\ subsCount'[n] = subsCount[n] - One(n = kid[w])
      BY WalkerFacts DEF BackOff, Sub, One, IInv, Types, NodeTypes
    <2>3. QED BY <1>2, <2>1, <2>2, CountsStep DEF One, Deletes, Holds, Raised, CutsOff, CutSteps
  <1>7. QED BY <1>3, <1>4, <1>5, <1>6 DEF IInv

LEMMA WaitDeletedStep ==
  ASSUME IInv, NEW w \in Walker, WaitDeleted(w)
  PROVE  IInv'
  <1>1. RequestOK(w) /\ PlaceOK(w) BY DEF IInv, WalkOK
  <1>2. /\ pc[w] = "wait" /\ pc'[w] = "raise" /\ OthersStay(w)
        /\ at'[w] = at[w] /\ kid'[w] = kid[w] /\ existed'[w] = existed[w] /\ op'[w] = op[w] /\ want'[w] = want[w]
    BY DEF WaitDeleted, Goto, IInv, Types, WalkTypes, OthersStay
  <1>3. Types'
    <2>1. TreeTypes' BY TreeTypesKept DEF WaitDeleted, IInv, Types
    <2>2. NodeTypes' BY NodeTypesKept DEF WaitDeleted, IInv, Types, clientVars
    <2>3. WalkTypes' BY <1>1, <1>2 DEF WaitDeleted, Goto, IInv, Types, WalkTypes, Steps
    <2>4. NoteTypes' BY NoteTypesKept DEF WaitDeleted, IInv, Types
    <2>5. QED BY <2>1, <2>2, <2>3, <2>4 DEF Types
  <1>4. TreeOK' BY TreeKept DEF WaitDeleted, IInv
  <1>5. WalkOK'
    <2>1. UNCHANGED <<nodes, path, subs>> BY DEF WaitDeleted, treeVars
    <2>2. RequestOK(w)' BY <1>1, <1>2 DEF RequestOK, InsertSteps, RemoveSteps, Inserts, Removes
    <2>3. PlaceOK(w)' BY <1>1, <1>2, <2>1 DEF PlaceOK, Descends, HasKid, AtEnd, Created, NextLevel
    <2>4. QED BY <1>2, <2>1, <2>2, <2>3, WalkKept
  <1>6. CountOK'
    <2>1. UNCHANGED <<parent, nodes, subs, subsCount, kidsCount, wgDeleted>> BY DEF WaitDeleted, treeVars, countVars
    <2>2. \A n \in Node : kidsCount[n] \in Nat /\ subsCount[n] \in Nat /\ wgDeleted[n] \in Nat
      BY DEF IInv, Types, NodeTypes
    <2>3. QED BY <1>2, <2>1, <2>2, CountsStep DEF One, Deletes, Holds, Raised, CutsOff, CutSteps
  <1>7. QED BY <1>3, <1>4, <1>5, <1>6 DEF IInv

LEMMA EnterStep ==
  ASSUME IInv, NEW w \in Walker, Enter(w)
  PROVE  IInv'
  <1>1. RequestOK(w) /\ PlaceOK(w) BY DEF IInv, WalkOK
  <1>2. /\ pc[w] = "enter" /\ OthersStay(w)
        /\ pc'[w] = (IF Len(path[kid[w]]) = Len(want[w]) THEN "leaf" ELSE "raise")
        /\ at'[w] = kid[w] /\ kid'[w] = kid[w] /\ existed'[w] = existed[w] /\ op'[w] = op[w] /\ want'[w] = want[w]
    BY DEF Enter, AtLeaf, Goto, IInv, Types, WalkTypes, OthersStay
  <1>3. /\ path[kid[w]] \in Seq(Level) /\ want[w] \in Seq(Level) /\ kid[w] \in Created
        /\ Under(path[kid[w]], want[w])
    <2>1. /\ kid[w] \in Created /\ path[kid[w]] = Append(path[at[w]], NextLevel(w)) /\ Under(path[at[w]], want[w])
          /\ Len(path[at[w]]) < Len(want[w])
      BY <1>1, <1>2 DEF PlaceOK, HasKid, Descends
    <2>2. path[kid[w]] \in Seq(Level) /\ want[w] \in Seq(Level) /\ path[at[w]] \in Seq(Level) BY WalkerFacts
    <2>3. QED BY <2>1, <2>2, UnderAppend DEF NextLevel
  <1>4. Len(path[kid[w]]) = Len(want[w]) => path[kid[w]] = want[w] BY <1>3, UnderAll
  <1>5. Len(path[kid[w]]) # Len(want[w]) => Len(path[kid[w]]) < Len(want[w]) BY <1>3, LenProperties DEF Under
  <1>6. Types'
    <2>1. TreeTypes' BY TreeTypesKept DEF Enter, IInv, Types
    <2>2. NodeTypes'
      <3>1. kid[w] \in Node /\ subsCount[kid[w]] >= 1 BY <1>2, WalkerFacts, Positive DEF Holds
      <3>2. subsCount \in [Node -> Nat] BY DEF IInv, Types, NodeTypes
      <3>3. subsCount' \in [Node -> Nat] BY <3>1, <3>2 DEF Enter, Sub
      <3>4. UNCHANGED <<kidsCount, remove, wgDeleted, subs, retained>> BY DEF Enter
      <3>5. QED BY <3>3, <3>4 DEF IInv, Types, NodeTypes
    <2>3. WalkTypes' BY WalkerFacts DEF Enter, Goto, IInv, Types, WalkTypes, Steps
    <2>4. NoteTypes' BY NoteTypesKept DEF Enter, IInv, Types
    <2>5. QED BY <2>1, <2>2, <2>3, <2>4 DEF Types
  <1>7. TreeOK' BY TreeKept DEF Enter, IInv
  <1>8. WalkOK'
    <2>1. UNCHANGED <<nodes, path, subs>> BY DEF Enter, treeVars
    <2>2. RequestOK(w)' BY <1>1, <1>2 DEF RequestOK, InsertSteps, RemoveSteps, Inserts, Removes
    <2>3. PlaceOK(w)' BY <1>1, <1>2, <1>3, <1>4, <1>5, <2>1 DEF PlaceOK, Descends, HasKid, AtEnd, Created
    <2>4. QED BY <1>2, <2>1, <2>2, <2>3, WalkKept
  <1>9. CountOK'
    <2>1. UNCHANGED <<parent, nodes, subs, kidsCount, wgDeleted>> BY DEF Enter, treeVars
    <2>2. \A n \in Node : kidsCount[n] \in Nat /\ subsCount[n] \in Nat /\ wgDeleted[n] \in Nat
      BY DEF IInv, Types, NodeTypes
    <2>3. \A n \in Node : subsCount'[n] = subsCount[n] - One(pc'[w] = "raise" /\ n = kid[w])
      BY <1>2, <2>2, WalkerFacts DEF Enter, AtLeaf, Sub, One, IInv, Types, NodeTypes
    <2>4. \A n \in Node : /\ Holds(pc[w], at[w], kid[w], n) <=> n = kid[w]
                          /\ Holds(pc'[w], at'[w], kid'[w], n) <=> n = kid[w] /\ pc'[w] # "raise"
                          /\ ~Deletes(pc[w], at[w], n) /\ ~Deletes(pc'[w], at'[w], n)
                          /\ ~Raised(pc[w], existed[w], at[w], n) /\ ~Raised(pc'[w], existed'[w], at'[w], n)
                          /\ ~CutsOff(pc[w], at[w], n) /\ ~CutsOff(pc'[w], at'[w], n)
      BY <1>2 DEF Deletes, Holds, Raised, CutsOff, CutSteps
    <2>5. QED BY <1>2, <2>1, <2>2, <2>3, <2>4, CountsStep DEF One
  <1>10. QED BY <1>6, <1>7, <1>8, <1>9 DEF IInv

LEMMA StoreSubStep ==
  ASSUME IInv, NEW w \in Walker, StoreSub(w)
  PROVE  IInv'
  <1>1. RequestOK(w) /\ PlaceOK(w) BY DEF IInv, WalkOK
  <1>2. /\ pc[w] = "leaf" /\ op[w] = "subscribe" /\ OthersStay(w)
        /\ pc'[w] = (IF w \in subs[at[w]] THEN "release" ELSE "collect")
        /\ at'[w] = at[w] /\ kid'[w] = kid[w] /\ existed'[w] = existed[w] /\ op'[w] = op[w] /\ want'[w] = want[w]
    BY DEF StoreSub, BeginSearch, Goto, IInv, Types, WalkTypes, OthersStay
  <1>3. w \in Client /\ at[w] \in Node BY <1>1, <1>2, WalkerFacts DEF RequestOK
  <1>4. \A n \in Node : subs'[n] = IF n = at[w] THEN subs[n] \cup {w} ELSE subs[n]
    BY <1>3 DEF StoreSub, IInv, Types, NodeTypes
  <1>5. Types'
    <2>1. TreeTypes' BY TreeTypesKept DEF StoreSub, IInv, Types
    <2>2. NodeTypes'
      <3>1. subs' \in [Node -> SUBSET Client] BY <1>3 DEF StoreSub, IInv, Types, NodeTypes
      <3>2. UNCHANGED <<countVars, retained>> BY DEF StoreSub
      <3>3. QED BY <3>1, <3>2 DEF IInv, Types, NodeTypes, countVars
    <2>3. WalkTypes' BY DEF StoreSub, BeginSearch, Goto, IInv, Types, WalkTypes, Steps
    <2>4. NoteTypes' BY NoteTypesKept DEF StoreSub, IInv, Types
    <2>5. QED BY <2>1, <2>2, <2>3, <2>4 DEF Types
  <1>6. TreeOK' BY TreeKept DEF StoreSub, IInv
  <1>7. WalkOK'
    <2>1. UNCHANGED <<nodes, path>> BY DEF StoreSub, treeVars
    <2>2. \A v \in Walker \ {w}, n \in Node : v \in subs[n] => v \in subs'[n] BY <1>4
    <2>3. RequestOK(w)' BY <1>1, <1>2 DEF RequestOK, InsertSteps, RemoveSteps, Inserts, Removes
    <2>4. PlaceOK(w)' BY <1>1, <1>2, <2>1 DEF PlaceOK, Descends, HasKid, AtEnd, Created
    <2>5. QED BY <1>2, <2>1, <2>2, <2>3, <2>4, WalkKept
  <1>8. CountOK'
    <2> SUFFICES ASSUME NEW n \in Node
                 PROVE  /\ subsCount'[n] + Cardinality(Deleting(n)') = Cardinality(subs'[n]) + Cardinality(Holding(n)')
                        /\ kidsCount'[n] >= Cardinality(Kids(n)') + Cardinality(Raising(n)')
                        /\ wgDeleted'[n] = Cardinality(CuttingOff(n)')
      BY DEF CountOK
    <2>1. /\ Cardinality(Deleting(n)') = Cardinality(Deleting(n))
          /\ Cardinality(Holding(n)') = Cardinality(Holding(n)) - One(n = at[w] /\ w \notin subs[n])
          /\ Cardinality(CuttingOff(n)') = Cardinality(CuttingOff(n)) /\ Cardinality(Raising(n)') = Cardinality(Raising(n))
          /\ Cardinality(Deleting(n)) \in Nat /\ Cardinality(Holding(n)) \in Nat
      BY <1>2, CountsMove DEF One, Deletes, Holds, Raised, CutsOff, CutSteps
    <2>2. UNCHANGED <<kidsCount, subsCount, wgDeleted, parent, nodes>> BY DEF StoreSub, countVars, treeVars
    <2>3. Kids(n)' = Kids(n) BY <2>2 DEF Kids, Created
    <2>4. IsFiniteSet(subs[n]) /\ Cardinality(subs[n]) \in Nat BY SubsFinite DEF IInv, Types
    <2>5. Cardinality(subs'[n]) = Cardinality(subs[n]) + One(n = at[w] /\ w \notin subs[n])
      <3>1. Cardinality(subs[n] \cup {w}) = IF w \in subs[n] THEN Cardinality(subs[n]) ELSE Cardinality(subs[n]) + 1
        BY <2>4, FS_AddElement
      <3>2. QED BY <3>1, <1>4, <2>4 DEF One
    <2>6. /\ subsCount[n] + Cardinality(Deleting(n)) = Cardinality(subs[n]) + Cardinality(Holding(n))
          /\ kidsCount[n] >= Cardinality(Kids(n)) + Cardinality(Raising(n))
          /\ wgDeleted[n] = Cardinality(CuttingOff(n)) /\ subsCount[n] \in Nat
      BY DEF IInv, CountOK, Types, NodeTypes
    <2>7. One(n = at[w] /\ w \notin subs[n]) \in Nat BY DEF One
    <2>8. subsCount'[n] + Cardinality(Deleting(n)') = Cardinality(subs'[n]) + Cardinality(Holding(n)')
      BY ONLY <2>1, <2>2, <2>4, <2>5, <2>6, <2>7
    <2>9. QED BY <2>1, <2>2, <2>3, <2>6, <2>8
  <1>9. QED BY <1>5, <1>6, <1>7, <1>8 DEF IInv

LEMMA StoreRetainedStep ==
  ASSUME IInv, NEW w \in Walker, StoreRetained(w)
  PROVE  IInv'
  <1>1. RequestOK(w) /\ PlaceOK(w) BY DEF IInv, WalkOK
  <1>2. /\ pc[w] = "leaf" /\ pc'[w] = "release" /\ OthersStay(w)
        /\ at'[w] = at[w] /\ kid'[w] = kid[w] /\ existed'[w] = existed[w] /\ op'[w] = op[w] /\ want'[w] = want[w]
    BY DEF StoreRetained, Goto, IInv, Types, WalkTypes, OthersStay
  <1>3. Types'
    <2>1. TreeTypes' BY TreeTypesKept DEF StoreRetained, IInv, Types
    <2>2. NodeTypes'
      <3>1. kept[want[w]] \in Message \cup {None} BY <1>1, <1>2 DEF StoreRetained, RequestOK, IInv, Types, NoteTypes
      <3>2. QED BY <3>1, WalkerFacts DEF StoreRetained, countVars, IInv, Types, NodeTypes
    <2>3. WalkTypes' BY <1>1, <1>2 DEF StoreRetained, Goto, IInv, Types, WalkTypes, Steps
    <2>4. NoteTypes' BY NoteTypesKept DEF StoreRetained, IInv, Types
    <2>5. QED BY <2>1, <2>2, <2>3, <2>4 DEF Types
  <1>4. TreeOK' BY TreeKept DEF StoreRetained, IInv
  <1>5. WalkOK'
    <2>1. UNCHANGED <<nodes, path, subs>> BY DEF StoreRetained, treeVars
    <2>2. RequestOK(w)' BY <1>1, <1>2 DEF RequestOK, InsertSteps, RemoveSteps, Inserts, Removes
    <2>3. PlaceOK(w)' BY <1>1, <1>2, <2>1 DEF PlaceOK, Descends, HasKid, AtEnd, Created, NextLevel
    <2>4. QED BY <1>2, <2>1, <2>2, <2>3, WalkKept
  <1>6. CountOK'
    <2>1. UNCHANGED <<parent, nodes, subs, subsCount, kidsCount, wgDeleted>> BY DEF StoreRetained, treeVars, countVars
    <2>2. \A n \in Node : kidsCount[n] \in Nat /\ subsCount[n] \in Nat /\ wgDeleted[n] \in Nat
      BY DEF IInv, Types, NodeTypes
    <2>3. QED BY <1>2, <2>1, <2>2, CountsStep DEF One, Deletes, Holds, Raised, CutsOff, CutSteps
  <1>7. QED BY <1>3, <1>4, <1>5, <1>6 DEF IInv

LEMMA ReleaseLeafStep ==
  ASSUME IInv, NEW w \in Walker, ReleaseLeaf(w)
  PROVE  IInv'
  <1>1. RequestOK(w) /\ PlaceOK(w) BY DEF IInv, WalkOK
  <1>2. /\ pc[w] = "release" /\ OthersStay(w)
        /\ pc'[w] = (IF op[w] = "subscribe" THEN "collect" ELSE "answer")
        /\ at'[w] = at[w] /\ kid'[w] = kid[w] /\ existed'[w] = existed[w] /\ op'[w] = op[w] /\ want'[w] = want[w]
    BY DEF ReleaseLeaf, Goto, IInv, Types, WalkTypes, OthersStay, BeginSearch
  <1>3. Types'
    <2>1. TreeTypes' BY TreeTypesKept DEF ReleaseLeaf, IInv, Types
    <2>2. NodeTypes'
      <3>1. at[w] \in Node /\ subsCount[at[w]] >= 1 BY <1>2, WalkerFacts, Positive DEF Holds
      <3>2. subsCount \in [Node -> Nat] BY DEF IInv, Types, NodeTypes
      <3>3. subsCount' = [subsCount EXCEPT ![at[w]] = @ - 1] BY DEF ReleaseLeaf, Released, Sub
      <3>4. subsCount' \in [Node -> Nat] BY <3>1, <3>2, <3>3
      <3>5. UNCHANGED <<kidsCount, remove, wgDeleted, subs, retained>> BY DEF ReleaseLeaf
      <3>6. QED BY <3>4, <3>5 DEF IInv, Types, NodeTypes
    <2>3. WalkTypes'
      <3>1. pc' \in [Walker -> Steps]
        <4>1. PICK step \in {"collect", "answer"} : pc' = [pc EXCEPT ![w] = step] BY DEF ReleaseLeaf, BeginSearch, Goto
        <4>2. QED BY <4>1 DEF IInv, Types, WalkTypes, Steps
      <3>2. UNCHANGED <<op, want, at, kid, existed>> BY DEF ReleaseLeaf
      <3>3. QED BY <3>1, <3>2 DEF IInv, Types, WalkTypes
    <2>4. NoteTypes' BY NoteTypesKept DEF ReleaseLeaf, IInv, Types
    <2>5. QED BY <2>1, <2>2, <2>3, <2>4 DEF Types
  <1>4. TreeOK' BY TreeKept DEF ReleaseLeaf, IInv
  <1>5. WalkOK'
    <2>1. UNCHANGED <<nodes, path, subs>> BY DEF ReleaseLeaf, treeVars
    <2>2. RequestOK(w)' BY <1>1, <1>2 DEF RequestOK, InsertSteps, RemoveSteps, Inserts, Removes
    <2>3. PlaceOK(w)' BY <1>1, <1>2, <2>1 DEF PlaceOK, Descends, HasKid, AtEnd, Created, NextLevel
    <2>4. QED BY <1>2, <2>1, <2>2, <2>3, WalkKept
  <1>6. CountOK'
    <2>1. UNCHANGED <<parent, nodes, subs, kidsCount, wgDeleted>> BY DEF ReleaseLeaf, treeVars
    <2>2. \A n \in Node : /\ kidsCount[n] \in Nat /\ subsCount[n] \in Nat /\ wgDeleted[n] \in Nat
                         /\ subsCount'[n] = subsCount[n] - One(n = at[w])
      BY WalkerFacts DEF ReleaseLeaf, Sub, Released, One, IInv, Types, NodeTypes
    <2>3. QED BY <1>2, <2>1, <2>2, CountsStep DEF One, Deletes, Holds, Raised, CutsOff, CutSteps
  <1>7. QED BY <1>3, <1>4, <1>5, <1>6 DEF IInv
-----------------------------------------------------------------------------
(* The steps of a removal *)

LEMMA LoadSubStep ==
  ASSUME IInv, NEW w \in Walker, LoadSub(w)
  PROVE  IInv'
  <1>1. RequestOK(w) /\ PlaceOK(w) BY DEF IInv, WalkOK
  <1>2. /\ pc[w] = "found" /\ pc'[w] = (IF w \in subs[at[w]] THEN "uncount" ELSE "subs") /\ OthersStay(w)
        /\ op[w] = "unsubscribe"
        /\ at'[w] = at[w] /\ kid'[w] = kid[w] /\ existed'[w] = existed[w] /\ op'[w] = op[w] /\ want'[w] = want[w]
    BY DEF LoadSub, Goto, IInv, Types, WalkTypes, OthersStay, Present
  <1>3. Types'
    <2>1. TreeTypes' BY TreeTypesKept DEF LoadSub, IInv, Types
    <2>2. NodeTypes' BY NodeTypesKept DEF LoadSub, IInv, Types, clientVars
    <2>3. WalkTypes' BY <1>1, <1>2 DEF LoadSub, Goto, IInv, Types, WalkTypes, Steps
    <2>4. NoteTypes' BY NoteTypesKept DEF LoadSub, IInv, Types
    <2>5. QED BY <2>1, <2>2, <2>3, <2>4 DEF Types
  <1>4. TreeOK' BY TreeKept DEF LoadSub, IInv
  <1>5. WalkOK'
    <2>1. UNCHANGED <<nodes, path, subs>> BY DEF LoadSub, treeVars
    <2>2. RequestOK(w)' BY <1>1, <1>2 DEF RequestOK, InsertSteps, RemoveSteps, Inserts, Removes
    <2>3. PlaceOK(w)' BY <1>1, <1>2, <2>1 DEF PlaceOK, Descends, HasKid, AtEnd, Created, NextLevel
    <2>4. QED BY <1>2, <2>1, <2>2, <2>3, WalkKept
  <1>6. CountOK'
    <2>1. UNCHANGED <<parent, nodes, subs, subsCount, kidsCount, wgDeleted>> BY DEF LoadSub, treeVars, countVars
    <2>2. \A n \in Node : kidsCount[n] \in Nat /\ subsCount[n] \in Nat /\ wgDeleted[n] \in Nat
      BY DEF IInv, Types, NodeTypes
    <2>3. QED BY <1>2, <2>1, <2>2, CountsStep DEF One, Deletes, Holds, Raised, CutsOff, CutSteps
  <1>7. QED BY <1>3, <1>4, <1>5, <1>6 DEF IInv

LEMMA UncountStep ==
  ASSUME IInv, NEW w \in Walker, Uncount(w)
  PROVE  IInv'
  <1>1. RequestOK(w) /\ PlaceOK(w) BY DEF IInv, WalkOK
  <1>2. /\ pc[w] = "uncount" /\ pc'[w] = "delete" /\ OthersStay(w)
        /\ at'[w] = at[w] /\ kid'[w] = kid[w] /\ existed'[w] = existed[w] /\ op'[w] = op[w] /\ want'[w] = want[w]
    BY DEF Uncount, Goto, IInv, Types, WalkTypes, OthersStay
  <1>3. Types'
    <2>1. TreeTypes' BY TreeTypesKept DEF Uncount, IInv, Types
    <2>2. NodeTypes'
      <3>1. at[w] \in Node /\ subsCount[at[w]] >= 1 BY <1>2, WalkerFacts, Positive DEF Holds
      <3>2. QED BY <3>1 DEF Uncount, Sub, IInv, Types, NodeTypes
    <2>3. WalkTypes' BY <1>1, <1>2 DEF Uncount, Goto, IInv, Types, WalkTypes, Steps
    <2>4. NoteTypes' BY NoteTypesKept DEF Uncount, IInv, Types
    <2>5. QED BY <2>1, <2>2, <2>3, <2>4 DEF Types
  <1>4. TreeOK' BY TreeKept DEF Uncount, IInv
  <1>5. WalkOK'
    <2>1. UNCHANGED <<nodes, path, subs>> BY DEF Uncount, treeVars
    <2>2. RequestOK(w)' BY <1>1, <1>2 DEF RequestOK, InsertSteps, RemoveSteps, Inserts, Removes
    <2>3. PlaceOK(w)' BY <1>1, <1>2, <2>1 DEF PlaceOK, Descends, HasKid, AtEnd, Created, NextLevel
    <2>4. QED BY <1>2, <2>1, <2>2, <2>3, WalkKept
  <1>6. CountOK'
    <2>1. UNCHANGED <<parent, nodes, subs, kidsCount, wgDeleted>> BY DEF Uncount, treeVars
    <2>2. \A n \in Node : /\ kidsCount[n] \in Nat /\ subsCount[n] \in Nat /\ wgDeleted[n] \in Nat
                         /\ subsCount'[n] = subsCount[n] - One(n = at[w])
      BY WalkerFacts DEF Uncount, Sub, One, IInv, Types, NodeTypes
    <2>3. QED BY <1>2, <2>1, <2>2, CountsStep DEF One, Deletes, Holds, Raised, CutsOff, CutSteps
  <1>7. QED BY <1>3, <1>4, <1>5, <1>6 DEF IInv

LEMMA DeleteSubStep ==
  ASSUME IInv, NEW w \in Walker, DeleteSub(w)
  PROVE  IInv'
  <1>1. RequestOK(w) /\ PlaceOK(w) BY DEF IInv, WalkOK
  <1>2. /\ pc[w] = "delete" /\ pc'[w] = "subs" /\ OthersStay(w)
        /\ at'[w] = at[w] /\ kid'[w] = kid[w] /\ existed'[w] = existed[w] /\ op'[w] = op[w] /\ want'[w] = want[w]
    BY DEF DeleteSub, Goto, IInv, Types, WalkTypes, OthersStay
  <1>3. at[w] \in Node /\ w \in subs[at[w]] BY <1>1, <1>2, WalkerFacts DEF PlaceOK
  <1>4. \A n \in Node : subs'[n] = IF n = at[w] THEN subs[n] \ {w} ELSE subs[n]
    BY <1>3 DEF DeleteSub, Others, IInv, Types, NodeTypes
  <1>5. Types'
    <2>1. TreeTypes' BY TreeTypesKept DEF DeleteSub, IInv, Types
    <2>2. NodeTypes'
      <3>1. subs' \in [Node -> SUBSET Client] BY <1>3 DEF DeleteSub, Others, IInv, Types, NodeTypes
      <3>2. UNCHANGED <<countVars, retained>> BY DEF DeleteSub
      <3>3. QED BY <3>1, <3>2 DEF IInv, Types, NodeTypes, countVars
    <2>3. WalkTypes' BY DEF DeleteSub, Goto, IInv, Types, WalkTypes, Steps
    <2>4. NoteTypes' BY NoteTypesKept DEF DeleteSub, IInv, Types
    <2>5. QED BY <2>1, <2>2, <2>3, <2>4 DEF Types
  <1>6. TreeOK' BY TreeKept DEF DeleteSub, IInv
  <1>7. WalkOK'
    <2>1. UNCHANGED <<nodes, path>> BY DEF DeleteSub, treeVars
    <2>2. \A v \in Walker \ {w}, n \in Node : v \in subs[n] => v \in subs'[n] BY <1>4
    <2>3. RequestOK(w)' BY <1>1, <1>2 DEF RequestOK, InsertSteps, RemoveSteps, Inserts, Removes
    <2>4. PlaceOK(w)' BY <1>1, <1>2, <2>1 DEF PlaceOK, Descends, HasKid, AtEnd, Created
    <2>5. QED BY <1>2, <2>1, <2>2, <2>3, <2>4, WalkKept
  <1>8. CountOK'
    <2> SUFFICES ASSUME NEW n \in Node
                 PROVE  /\ subsCount'[n] + Cardinality(Deleting(n)') = Cardinality(subs'[n]) + Cardinality(Holding(n)')
                        /\ kidsCount'[n] >= Cardinality(Kids(n)') + Cardinality(Raising(n)')
                        /\ wgDeleted'[n] = Cardinality(CuttingOff(n)')
      BY DEF CountOK
    <2>1. /\ Cardinality(Deleting(n)') = Cardinality(Deleting(n)) - One(n = at[w])
          /\ Cardinality(Holding(n)') = Cardinality(Holding(n))
          /\ Cardinality(CuttingOff(n)') = Cardinality(CuttingOff(n)) /\ Cardinality(Raising(n)') = Cardinality(Raising(n))
          /\ Cardinality(Deleting(n)) \in Nat /\ Cardinality(Holding(n)) \in Nat
      BY <1>2, CountsMove DEF One, Deletes, Holds, Raised, CutsOff, CutSteps
    <2>2. UNCHANGED <<kidsCount, subsCount, wgDeleted, parent, nodes>> BY DEF DeleteSub, countVars, treeVars
    <2>3. Kids(n)' = Kids(n) BY <2>2 DEF Kids, Created
    <2>4. IsFiniteSet(subs[n]) /\ Cardinality(subs[n]) \in Nat BY SubsFinite DEF IInv, Types
    <2>5. Cardinality(subs'[n]) = Cardinality(subs[n]) - One(n = at[w])
      <3>1. w \in subs[n] => Cardinality(subs[n] \ {w}) = Cardinality(subs[n]) - 1
        BY <2>4, FS_RemoveElement
      <3>2. CASE n = at[w]
        <4>1. w \in subs[n] /\ subs'[n] = subs[n] \ {w} BY <3>2, <1>3, <1>4
        <4>2. Cardinality(subs'[n]) = Cardinality(subs[n]) - 1 BY <3>1, <4>1
        <4>3. QED BY <3>2, <4>2 DEF One
      <3>3. CASE n # at[w]
        <4>1. subs'[n] = subs[n] /\ One(n = at[w]) = 0 BY <3>3, <1>4 DEF One
        <4>2. QED BY <4>1, <2>4
      <3>4. QED BY <3>2, <3>3
    <2>6. /\ subsCount[n] + Cardinality(Deleting(n)) = Cardinality(subs[n]) + Cardinality(Holding(n))
          /\ kidsCount[n] >= Cardinality(Kids(n)) + Cardinality(Raising(n))
          /\ wgDeleted[n] = Cardinality(CuttingOff(n)) /\ subsCount[n] \in Nat
      BY DEF IInv, CountOK, Types, NodeTypes
    <2>7. One(n = at[w]) \in Nat BY DEF One
    <2>8. subsCount'[n] + Cardinality(Deleting(n)') = Cardinality(subs'[n]) + Cardinality(Holding(n)')
      BY ONLY <2>1, <2>2, <2>4, <2>5, <2>6, <2>7
    <2>9. QED BY <2>1, <2>2, <2>3, <2>6, <2>8
  <1>9. QED BY <1>5, <1>6, <1>7, <1>8 DEF IInv

LEMMA ClearRetainedStep ==
  ASSUME IInv, NEW w \in Walker, ClearRetained(w)
  PROVE  IInv'
  <1>1. RequestOK(w) /\ PlaceOK(w) BY DEF IInv, WalkOK
  <1>2. /\ pc[w] = "found" /\ pc'[w] = "subs" /\ OthersStay(w)
        /\ at'[w] = at[w] /\ kid'[w] = kid[w] /\ existed'[w] = existed[w] /\ op'[w] = op[w] /\ want'[w] = want[w]
    BY DEF ClearRetained, Goto, IInv, Types, WalkTypes, OthersStay
  <1>3. Types'
    <2>1. TreeTypes' BY TreeTypesKept DEF ClearRetained, IInv, Types
    <2>2. NodeTypes' BY DEF ClearRetained, countVars, IInv, Types, NodeTypes
    <2>3. WalkTypes' BY <1>1, <1>2 DEF ClearRetained, Goto, IInv, Types, WalkTypes, Steps
    <2>4. NoteTypes' BY NoteTypesKept DEF ClearRetained, IInv, Types
    <2>5. QED BY <2>1, <2>2, <2>3, <2>4 DEF Types
  <1>4. TreeOK' BY TreeKept DEF ClearRetained, IInv
  <1>5. WalkOK'
    <2>1. UNCHANGED <<nodes, path, subs>> BY DEF ClearRetained, treeVars
    <2>2. RequestOK(w)' BY <1>1, <1>2 DEF RequestOK, InsertSteps, RemoveSteps, Inserts, Removes
    <2>3. PlaceOK(w)' BY <1>1, <1>2, <2>1 DEF PlaceOK, Descends, HasKid, AtEnd, Created, NextLevel
    <2>4. QED BY <1>2, <2>1, <2>2, <2>3, WalkKept
  <1>6. CountOK'
    <2>1. UNCHANGED <<parent, nodes, subs, subsCount, kidsCount, wgDeleted>> BY DEF ClearRetained, treeVars, countVars
    <2>2. \A n \in Node : kidsCount[n] \in Nat /\ subsCount[n] \in Nat /\ wgDeleted[n] \in Nat
      BY DEF IInv, Types, NodeTypes
    <2>3. QED BY <1>2, <2>1, <2>2, CountsStep DEF One, Deletes, Holds, Raised, CutsOff, CutSteps
  <1>7. QED BY <1>3, <1>4, <1>5, <1>6 DEF IInv

LEMMA HoldDeletedStep ==
  ASSUME IInv, NEW w \in Walker, HoldDeleted(w)
  PROVE  IInv'
  <1>1. RequestOK(w) /\ PlaceOK(w) BY DEF IInv, WalkOK
  <1>2. /\ pc[w] = "hold" /\ pc'[w] = "mark" /\ OthersStay(w)
        /\ at'[w] = at[w] /\ kid'[w] = kid[w] /\ existed'[w] = existed[w] /\ op'[w] = op[w] /\ want'[w] = want[w]
    BY DEF HoldDeleted, Goto, IInv, Types, WalkTypes, OthersStay
  <1>3. Types'
    <2>1. TreeTypes' BY TreeTypesKept DEF HoldDeleted, IInv, Types
    <2>2. NodeTypes' BY <1>1, <1>2, WalkerFacts DEF HoldDeleted, Add, IInv, Types, NodeTypes
    <2>3. WalkTypes' BY <1>1, <1>2 DEF HoldDeleted, Goto, IInv, Types, WalkTypes, Steps
    <2>4. NoteTypes' BY NoteTypesKept DEF HoldDeleted, IInv, Types
    <2>5. QED BY <2>1, <2>2, <2>3, <2>4 DEF Types
  <1>4. TreeOK' BY TreeKept DEF HoldDeleted, IInv
  <1>5. WalkOK'
    <2>1. UNCHANGED <<nodes, path, subs>> BY DEF HoldDeleted, treeVars
    <2>2. RequestOK(w)' BY <1>1, <1>2 DEF RequestOK, InsertSteps, RemoveSteps, Inserts, Removes
    <2>3. PlaceOK(w)' BY <1>1, <1>2, <2>1 DEF PlaceOK, Descends, HasKid, AtEnd, Created, NextLevel
    <2>4. QED BY <1>2, <2>1, <2>2, <2>3, WalkKept
  <1>6. CountOK'
    <2>1. UNCHANGED <<parent, nodes, subs, kidsCount, subsCount>> BY DEF HoldDeleted, treeVars
    <2>2. \A n \in Node : /\ kidsCount[n] \in Nat /\ subsCount[n] \in Nat /\ wgDeleted[n] \in Nat
                         /\ wgDeleted'[n] = wgDeleted[n] + One(n = at[w])
      BY WalkerFacts DEF HoldDeleted, Add, One, IInv, Types, NodeTypes
    <2>3. QED BY <1>2, <2>1, <2>2, CountsStep DEF One, Deletes, Holds, Raised, CutsOff, CutSteps
  <1>7. QED BY <1>3, <1>4, <1>5, <1>6 DEF IInv

LEMMA MarkStep ==
  ASSUME IInv, NEW w \in Walker, Mark(w)
  PROVE  IInv'
  <1>1. RequestOK(w) /\ PlaceOK(w) BY DEF IInv, WalkOK
  <1>2. /\ pc[w] = "mark" /\ pc'[w] = "subsAgain" /\ OthersStay(w)
        /\ at'[w] = at[w] /\ kid'[w] = kid[w] /\ existed'[w] = existed[w] /\ op'[w] = op[w] /\ want'[w] = want[w]
    BY DEF Mark, Goto, IInv, Types, WalkTypes, OthersStay
  <1>3. Types'
    <2>1. TreeTypes' BY TreeTypesKept DEF Mark, IInv, Types
    <2>2. NodeTypes' BY DEF Mark, IInv, Types, NodeTypes
    <2>3. WalkTypes' BY <1>1, <1>2 DEF Mark, Goto, IInv, Types, WalkTypes, Steps
    <2>4. NoteTypes' BY NoteTypesKept DEF Mark, IInv, Types
    <2>5. QED BY <2>1, <2>2, <2>3, <2>4 DEF Types
  <1>4. TreeOK' BY TreeKept DEF Mark, IInv
  <1>5. WalkOK'
    <2>1. UNCHANGED <<nodes, path, subs>> BY DEF Mark, treeVars
    <2>2. RequestOK(w)' BY <1>1, <1>2 DEF RequestOK, InsertSteps, RemoveSteps, Inserts, Removes
    <2>3. PlaceOK(w)' BY <1>1, <1>2, <2>1 DEF PlaceOK, Descends, HasKid, AtEnd, Created, NextLevel
    <2>4. QED BY <1>2, <2>1, <2>2, <2>3, WalkKept
  <1>6. CountOK'
    <2>1. UNCHANGED <<parent, nodes, subs, subsCount, kidsCount, wgDeleted>> BY DEF Mark, treeVars
    <2>2. \A n \in Node : kidsCount[n] \in Nat /\ subsCount[n] \in Nat /\ wgDeleted[n] \in Nat
      BY DEF IInv, Types, NodeTypes
    <2>3. QED BY <1>2, <2>1, <2>2, CountsStep DEF One, Deletes, Holds, Raised, CutsOff, CutSteps
  <1>7. QED BY <1>3, <1>4, <1>5, <1>6 DEF IInv

LEMMA Upward ==
  ASSUME IInv, NEW w \in Walker, at[w] # Root
  PROVE  /\ at[w] \in Created /\ parent[at[w]] \in 0 .. nodes /\ parent[at[w]] \in Node
         /\ path[at[w]] # <<>> /\ path[at[w]][Len(path[at[w]])] \in Level
         /\ Under(path[parent[at[w]]], want[w])
  <1>1. at[w] \in Created BY NodeFacts DEF IInv, Types, WalkOK, PlaceOK
  <1>2. PICK l \in Level : parent[at[w]] \in 0 .. at[w] - 1 /\ path[at[w]] = Append(path[parent[at[w]]], l)
    BY <1>1 DEF IInv, TreeOK
  <1>3. parent[at[w]] \in 0 .. nodes /\ parent[at[w]] \in Node
    <2>1. nodes \in Nat /\ 0 .. nodes \subseteq Node BY NodeFacts DEF IInv, Types
    <2>2. QED BY <1>1, <1>2, <2>1 DEF Created
  <1>4. path[parent[at[w]]] \in Seq(Level) /\ want[w] \in Seq(Level)
    BY <1>3, WalkerFacts DEF IInv, Types, TreeTypes
  <1>5. Under(path[at[w]], want[w]) BY DEF IInv, WalkOK, PlaceOK
  <1>6. Under(path[parent[at[w]]], want[w])
    <2>1. PICK p, q : p = path[parent[at[w]]] /\ q = want[w] OBVIOUS
    <2>2. p \in Seq(Level) /\ q \in Seq(Level) /\ Under(Append(p, l), q) BY <1>2, <1>4, <1>5, <2>1
    <2>3. Under(p, q) BY ONLY <2>2, UnderFront
    <2>4. QED BY <2>1, <2>3, Zenon
  <1>7. path[at[w]] # <<>> /\ path[at[w]][Len(path[at[w]])] = l
    <2>1. PICK p, q : p = path[parent[at[w]]] /\ q = path[at[w]] OBVIOUS
    <2>2. p \in Seq(Level) /\ q = Append(p, l) BY <1>2, <1>4, <2>1
    <2>3. q # <<>> /\ q[Len(q)] = l BY ONLY <2>2, AppendIs
    <2>4. QED BY <2>1, <2>3
  <1>8. QED BY <1>1, <1>3, <1>6, <1>7

LEMMA SeekStep ==
  ASSUME IInv, NEW w \in Walker, Seek(w)
  PROVE  IInv'
  <1>1. RequestOK(w) /\ PlaceOK(w) BY DEF IInv, WalkOK
  <1>2. PICK n : n = children[at[w]][NextLevel(w)] OBVIOUS
  <1>3. /\ pc[w] = "seek" /\ OthersStay(w)
        /\ at'[w] = (IF n = None THEN at[w] ELSE n)
        /\ pc'[w] = (IF n = None THEN (IF op[w] = "replace" THEN "again" ELSE "answer")
                     ELSE IF Len(path[n]) = Len(want[w]) THEN "found" ELSE "seek")
        /\ kid'[w] = kid[w] /\ existed'[w] = existed[w] /\ op'[w] = op[w] /\ want'[w] = want[w]
    BY <1>2 DEF Seek, AtLeaf, Goto, IInv, Types, WalkTypes, OthersStay
  <1>4. n # None => /\ n \in Created /\ n \in 0 .. nodes /\ n \in Node
                    /\ path[n] \in Seq(Level) /\ want[w] \in Seq(Level) /\ Under(path[n], want[w])
    <2> SUFFICES ASSUME n # None PROVE /\ n \in Created /\ n \in 0 .. nodes /\ n \in Node
                    /\ path[n] \in Seq(Level) /\ want[w] \in Seq(Level) /\ Under(path[n], want[w]) OBVIOUS
    <2>1. at[w] \in Node /\ NextLevel(w) \in Level /\ path[at[w]] \in Seq(Level) /\ want[w] \in Seq(Level)
      BY <1>3, WalkerFacts DEF Descends
    <2>2. n \in Created /\ path[n] = Append(path[at[w]], NextLevel(w)) BY <1>2, <2>1 DEF IInv, TreeOK
    <2>3. n \in 0 .. nodes /\ n \in Node BY <2>2, NodeFacts DEF IInv, Types
    <2>4. Under(path[at[w]], want[w]) /\ Len(path[at[w]]) < Len(want[w]) BY <1>1, <1>3 DEF PlaceOK, Descends
    <2>5. Under(path[n], want[w]) BY <2>1, <2>2, <2>4, UnderAppend DEF NextLevel
    <2>6. QED BY <2>1, <2>2, <2>3, <2>5 DEF IInv, Types, TreeTypes
  <1>5. n # None /\ Len(path[n]) = Len(want[w]) => path[n] = want[w] BY <1>4, UnderAll
  <1>6. n # None /\ Len(path[n]) # Len(want[w]) => Len(path[n]) < Len(want[w]) BY <1>4, LenProperties DEF Under
  <1>7. Types'
    <2>1. TreeTypes' BY TreeTypesKept DEF Seek, IInv, Types
    <2>2. NodeTypes' BY NodeTypesKept DEF Seek, IInv, Types
    <2>3. WalkTypes'
      <3>1. at' \in [Walker -> Node] BY <1>2, <1>4 DEF Seek, IInv, Types, WalkTypes
      <3>2. pc' \in [Walker -> Steps] BY DEF Seek, Goto, IInv, Types, WalkTypes, Steps
      <3>3. QED BY <3>1, <3>2 DEF Seek, IInv, Types, WalkTypes
    <2>4. NoteTypes' BY NoteTypesKept DEF Seek, IInv, Types
    <2>5. QED BY <2>1, <2>2, <2>3, <2>4 DEF Types
  <1>8. TreeOK' BY TreeKept DEF Seek, IInv
  <1>9. WalkOK'
    <2>1. UNCHANGED <<nodes, path, subs>> BY DEF Seek, treeVars
    <2>2. RequestOK(w)' BY <1>1, <1>3 DEF RequestOK, InsertSteps, RemoveSteps, Inserts, Removes
    <2>3. PlaceOK(w)' BY <1>1, <1>3, <1>4, <1>5, <1>6, <2>1 DEF PlaceOK, Descends, HasKid, AtEnd, Created
    <2>4. QED BY <1>3, <2>1, <2>2, <2>3, WalkKept
  <1>10. CountOK'
    <2>1. UNCHANGED <<parent, nodes, subs, subsCount, kidsCount, wgDeleted>> BY DEF Seek, treeVars, countVars
    <2>2. \A m \in Node : kidsCount[m] \in Nat /\ subsCount[m] \in Nat /\ wgDeleted[m] \in Nat
      BY DEF IInv, Types, NodeTypes
    <2>3. pc'[w] \in {"found", "seek", "again", "answer"} BY <1>3
    <2>4. QED BY <1>3, <2>1, <2>2, <2>3, CountsStep DEF One, Deletes, Holds, Raised, CutsOff, CutSteps
  <1>11. QED BY <1>7, <1>8, <1>9, <1>10 DEF IInv

\* To the parent, or at the root to the end of the removal.
GoesUp(w) ==
  \/ at[w] # Root /\ at'[w] = parent[at[w]] /\ pc'[w] = "subs"
  \/ at'[w] = at[w] /\ pc'[w] = IF op[w] = "replace" THEN "again" ELSE "answer"

LEMMA LooksEmptyStep ==
  ASSUME IInv, NEW w \in Walker, LooksEmpty(w)
  PROVE  IInv'
  <1>1. RequestOK(w) /\ PlaceOK(w) BY DEF IInv, WalkOK
  <1>2. PICK step, empty, next : /\ Look(w, step, empty, next, Up(w))
                                 /\ step \in {"subs", "kids", "retained"} /\ next \in {"kids", "retained", "hold"}
    BY DEF LooksEmpty
  <1>3. /\ pc[w] \in {"subs", "kids", "retained"} /\ OthersStay(w)
        /\ (at'[w] = at[w] /\ pc'[w] \in {"kids", "retained", "hold"}) \/ GoesUp(w)
        /\ kid'[w] = kid[w] /\ existed'[w] = existed[w] /\ op'[w] = op[w] /\ want'[w] = want[w]
    BY <1>2 DEF Look, Up, GoesUp, Goto, IInv, Types, WalkTypes, OthersStay
  <1>4. UNCHANGED <<treeVars, countVars, subs, retained, op, want, kid, existed, clientVars>>
    BY <1>2 DEF Look
  <1>5. Types'
    <2>1. TreeTypes' BY <1>4, TreeTypesKept DEF IInv, Types
    <2>2. NodeTypes' BY <1>4, NodeTypesKept DEF IInv, Types
    <2>3. WalkTypes'
      <3>1. at' \in [Walker -> Node] BY <1>2, Upward DEF Look, Up, IInv, Types, WalkTypes
      <3>2. pc' \in [Walker -> Steps] BY <1>2 DEF Look, Up, Goto, IInv, Types, WalkTypes, Steps
      <3>3. QED BY <1>4, <3>1, <3>2 DEF IInv, Types, WalkTypes
    <2>4. NoteTypes' BY <1>4, NoteTypesKept DEF IInv, Types
    <2>5. QED BY <2>1, <2>2, <2>3, <2>4 DEF Types
  <1>6. TreeOK' BY <1>4, TreeKept DEF IInv
  <1>7. WalkOK'
    <2>1. UNCHANGED <<nodes, path, subs>> BY <1>4 DEF treeVars
    <2>2. RequestOK(w)' BY <1>1, <1>3 DEF GoesUp, RequestOK, InsertSteps, RemoveSteps, Inserts, Removes
    <2>3. PlaceOK(w)' BY <1>1, <1>3, <2>1, Upward DEF GoesUp, PlaceOK, Descends, HasKid, AtEnd
    <2>4. QED BY <1>3, <2>1, <2>2, <2>3, WalkKept
  <1>8. CountOK'
    <2>1. UNCHANGED <<parent, nodes, subs, subsCount, kidsCount, wgDeleted>> BY <1>4 DEF treeVars, countVars
    <2>2. \A m \in Node : kidsCount[m] \in Nat /\ subsCount[m] \in Nat /\ wgDeleted[m] \in Nat
      BY DEF IInv, Types, NodeTypes
    <2>3. QED BY <1>3, <2>1, <2>2, CountsStep DEF GoesUp, One, Deletes, Holds, Raised, CutsOff, CutSteps
  <1>9. QED BY <1>5, <1>6, <1>7, <1>8 DEF IInv

LEMMA StillEmptyStep ==
  ASSUME IInv, NEW w \in Walker, StillEmpty(w)
  PROVE  IInv'
  <1>1. RequestOK(w) /\ PlaceOK(w) BY DEF IInv, WalkOK
  <1>2. PICK step, empty, next :
          /\ Look(w, step, empty, next, Goto(w, "letGo") /\ UNCHANGED at)
          /\ step \in {"subsAgain", "kidsAgain", "retainedAgain"} /\ next \in {"kidsAgain", "retainedAgain", "cut"}
    BY DEF StillEmpty
  <1>3. /\ pc[w] \in {"subsAgain", "kidsAgain", "retainedAgain"} /\ OthersStay(w)
        /\ at'[w] = at[w] /\ pc'[w] \in {"kidsAgain", "retainedAgain", "cut", "letGo"}
        /\ kid'[w] = kid[w] /\ existed'[w] = existed[w] /\ op'[w] = op[w] /\ want'[w] = want[w]
    BY <1>2 DEF Look, Goto, IInv, Types, WalkTypes, OthersStay
  <1>4. UNCHANGED <<treeVars, countVars, subs, retained, op, want, at, kid, existed, clientVars>>
    BY <1>2 DEF Look
  <1>5. Types'
    <2>1. TreeTypes' BY <1>4, TreeTypesKept DEF IInv, Types
    <2>2. NodeTypes' BY <1>4, NodeTypesKept DEF IInv, Types
    <2>3. WalkTypes' BY <1>2, <1>4 DEF Look, Goto, IInv, Types, WalkTypes, Steps
    <2>4. NoteTypes' BY <1>4, NoteTypesKept DEF IInv, Types
    <2>5. QED BY <2>1, <2>2, <2>3, <2>4 DEF Types
  <1>6. TreeOK' BY <1>4, TreeKept DEF IInv
  <1>7. WalkOK'
    <2>1. UNCHANGED <<nodes, path, subs>> BY <1>4 DEF treeVars
    <2>2. RequestOK(w)' BY <1>1, <1>3 DEF RequestOK, InsertSteps, RemoveSteps, Inserts, Removes
    <2>3. PlaceOK(w)' BY <1>1, <1>3, <2>1 DEF PlaceOK, Descends, HasKid, AtEnd
    <2>4. QED BY <1>3, <2>1, <2>2, <2>3, WalkKept
  <1>8. CountOK'
    <2>1. UNCHANGED <<parent, nodes, subs, subsCount, kidsCount, wgDeleted>> BY <1>4 DEF treeVars, countVars
    <2>2. \A m \in Node : kidsCount[m] \in Nat /\ subsCount[m] \in Nat /\ wgDeleted[m] \in Nat
      BY DEF IInv, Types, NodeTypes
    <2>3. QED BY <1>3, <2>1, <2>2, CountsStep DEF One, Deletes, Holds, Raised, CutsOff, CutSteps
  <1>9. QED BY <1>5, <1>6, <1>7, <1>8 DEF IInv

LEMMA CutStep ==
  ASSUME IInv, NEW w \in Walker, Cut(w)
  PROVE  IInv'
  <1>1. RequestOK(w) /\ PlaceOK(w) BY DEF IInv, WalkOK
  <1>2. /\ pc[w] = "cut" /\ pc'[w] = "letGo" /\ OthersStay(w)
        /\ at'[w] = at[w] /\ kid'[w] = kid[w] /\ existed'[w] = existed[w] /\ op'[w] = op[w] /\ want'[w] = want[w]
    BY DEF Cut, Goto, IInv, Types, WalkTypes, OthersStay
  <1>3. /\ children' \in [Node -> [Level -> Node \cup {None}]]
        /\ \A n \in Node, l \in Level : children'[n][l] \in {None, children[n][l]}
    <2>1. CASE at[w] = Root BY <2>1 DEF Cut, CutOff, IInv, Types, TreeTypes
    <2>2. CASE at[w] # Root
      <3>1. PICK n, l : n = parent[at[w]] /\ l = path[at[w]][Len(path[at[w]])] OBVIOUS
      <3>2. n \in Node /\ l \in Level BY <2>2, <3>1, Upward
      <3>3. children' = [children EXCEPT ![n][l] = None] BY <2>2, <3>1 DEF Cut, CutOff, Forgotten
      <3>4. QED BY <3>2, <3>3 DEF IInv, Types, TreeTypes
    <2>3. QED BY <2>1, <2>2
  <1>4. Types'
    <2>1. TreeTypes' BY <1>3 DEF Cut, IInv, Types, TreeTypes
    <2>2. NodeTypes' BY NodeTypesKept DEF Cut, IInv, Types
    <2>3. WalkTypes' BY DEF Cut, Goto, IInv, Types, WalkTypes, Steps
    <2>4. NoteTypes' BY NoteTypesKept DEF Cut, IInv, Types
    <2>5. QED BY <2>1, <2>2, <2>3, <2>4 DEF Types
  <1>5. TreeOK'
    <2>1. UNCHANGED <<parent, path, nodes>> BY DEF Cut
    <2>2. ASSUME NEW n \in Node, NEW l \in Level, children'[n][l] # None
          PROVE  /\ children'[n][l] \in Created' /\ parent'[children'[n][l]] = n
                 /\ path'[children'[n][l]] = Append(path'[n], l)
      <3>1. children'[n][l] = children[n][l] BY <1>3, <2>2
      <3>2. QED BY <2>1, <2>2, <3>1 DEF IInv, TreeOK, Created
    <2>3. TreeOK BY DEF IInv
    <2>4. \A n \in Created' : parent'[n] \in 0 .. n - 1 /\ \E l \in Level : path'[n] = Append(path'[parent'[n]], l)
      BY <2>1, <2>3 DEF TreeOK, Created
    <2>5. path'[Root] = <<>> BY <2>1, <2>3 DEF TreeOK
    <2>6. QED BY <2>2, <2>4, <2>5 DEF TreeOK
  <1>6. WalkOK'
    <2>1. UNCHANGED <<nodes, path, subs>> BY DEF Cut
    <2>2. RequestOK(w)' BY <1>1, <1>2 DEF RequestOK, InsertSteps, RemoveSteps, Inserts, Removes
    <2>3. PlaceOK(w)' BY <1>1, <1>2, <2>1 DEF PlaceOK, Descends, HasKid, AtEnd
    <2>4. QED BY <1>2, <2>1, <2>2, <2>3, WalkKept
  <1>7. CountOK'
    <2>1. UNCHANGED <<parent, nodes, subs, subsCount, kidsCount, wgDeleted>> BY DEF Cut, countVars
    <2>2. \A m \in Node : kidsCount[m] \in Nat /\ subsCount[m] \in Nat /\ wgDeleted[m] \in Nat
      BY DEF IInv, Types, NodeTypes
    <2>3. QED BY <1>2, <2>1, <2>2, CountsStep DEF One, Deletes, Holds, Raised, CutsOff, CutSteps
  <1>8. QED BY <1>4, <1>5, <1>6, <1>7 DEF IInv

LEMMA LetGoStep ==
  ASSUME IInv, NEW w \in Walker, LetGo(w)
  PROVE  IInv'
  <1>1. RequestOK(w) /\ PlaceOK(w) BY DEF IInv, WalkOK
  <1>2. /\ pc[w] = "letGo" /\ OthersStay(w) /\ GoesUp(w)
        /\ kid'[w] = kid[w] /\ existed'[w] = existed[w] /\ op'[w] = op[w] /\ want'[w] = want[w]
    BY DEF LetGo, Up, GoesUp, Goto, IInv, Types, WalkTypes, OthersStay
  <1>3. at[w] \in Node /\ wgDeleted[at[w]] >= 1 /\ wgDeleted \in [Node -> Nat]
    BY <1>2, WalkerFacts, Positive DEF CutsOff, CutSteps, IInv, Types, NodeTypes
  <1>4. Types'
    <2>1. TreeTypes' BY TreeTypesKept DEF LetGo, IInv, Types
    <2>2. NodeTypes'
      <3>1. wgDeleted' \in [Node -> Nat] BY <1>3 DEF LetGo, Sub
      <3>2. UNCHANGED <<kidsCount, subsCount, remove, subs, retained>> BY DEF LetGo
      <3>3. QED BY <3>1, <3>2 DEF IInv, Types, NodeTypes
    <2>3. WalkTypes'
      <3>1. at' \in [Walker -> Node] BY Upward DEF LetGo, Up, IInv, Types, WalkTypes
      <3>2. pc' \in [Walker -> Steps] BY DEF LetGo, Up, Goto, IInv, Types, WalkTypes, Steps
      <3>3. QED BY <3>1, <3>2 DEF LetGo, IInv, Types, WalkTypes
    <2>4. NoteTypes' BY NoteTypesKept DEF LetGo, IInv, Types
    <2>5. QED BY <2>1, <2>2, <2>3, <2>4 DEF Types
  <1>5. TreeOK' BY TreeKept DEF LetGo, IInv
  <1>6. WalkOK'
    <2>1. UNCHANGED <<nodes, path, subs>> BY DEF LetGo, treeVars
    <2>2. RequestOK(w)' BY <1>1, <1>2 DEF GoesUp, RequestOK, InsertSteps, RemoveSteps, Inserts, Removes
    <2>3. PlaceOK(w)' BY <1>1, <1>2, <2>1, Upward DEF GoesUp, PlaceOK, Descends, HasKid, AtEnd
    <2>4. QED BY <1>2, <2>1, <2>2, <2>3, WalkKept
  <1>7. CountOK'
    <2>1. UNCHANGED <<parent, nodes, subs, subsCount, kidsCount>> BY DEF LetGo, treeVars
    <2>2. \A n \in Node : /\ kidsCount[n] \in Nat /\ subsCount[n] \in Nat /\ wgDeleted[n] \in Nat
                         /\ wgDeleted'[n] = wgDeleted[n] - One(n = at[w])
      BY <1>3 DEF LetGo, Sub, One, IInv, Types, NodeTypes
    <2>3. QED BY <1>2, <2>1, <2>2, CountsStep DEF GoesUp, One, Deletes, Holds, Raised, CutsOff, CutSteps
  <1>8. QED BY <1>4, <1>5, <1>6, <1>7 DEF IInv

LEMMA RootPlace ==
  ASSUME IInv, NEW w \in Walker, NEW f \in Filter \cup Topic
  PROVE  Under(path[Root], f) /\ Len(path[Root]) < Len(f) /\ Root \in 0 .. nodes /\ Root \in Node
  <1>1. f \in Seq(Level) /\ f # <<>> BY LevelsIn
  <1>2. path[Root] = <<>> BY DEF IInv, TreeOK
  <1>3. Len(f) \in Nat /\ Len(f) # 0 BY <1>1, EmptySeq, LenProperties
  <1>4. QED BY <1>1, <1>2, <1>3, UnderEmpty, NodeFacts DEF IInv, Types

LEMMA AgainStep ==
  ASSUME IInv, NEW w \in Walker, Again(w)
  PROVE  IInv'
  <1>1. RequestOK(w) /\ PlaceOK(w) BY DEF IInv, WalkOK
  <1>2. /\ pc[w] = "again" /\ pc'[w] = "raise" /\ OthersStay(w) /\ op'[w] = "store" /\ at'[w] = Root
        /\ kid'[w] = kid[w] /\ existed'[w] = existed[w] /\ want'[w] = want[w]
    BY DEF Again, Goto, IInv, Types, WalkTypes, OthersStay
  <1>3. want[w] \in Filter \cup Topic BY <1>2, WalkerFacts
  <1>4. Types'
    <2>1. TreeTypes' BY TreeTypesKept DEF Again, IInv, Types
    <2>2. NodeTypes' BY NodeTypesKept DEF Again, IInv, Types
    <2>3. WalkTypes' BY <1>3, RootPlace DEF Again, Goto, IInv, Types, WalkTypes, Steps, Ops, Inserts
    <2>4. NoteTypes' BY NoteTypesKept DEF Again, IInv, Types
    <2>5. QED BY <2>1, <2>2, <2>3, <2>4 DEF Types
  <1>5. TreeOK' BY TreeKept DEF Again, IInv
  <1>6. WalkOK'
    <2>1. UNCHANGED <<nodes, path, subs>> BY DEF Again, treeVars
    <2>2. RequestOK(w)' BY <1>1, <1>2 DEF RequestOK, InsertSteps, RemoveSteps, Inserts, Removes
    <2>3. PlaceOK(w)' BY <1>1, <1>2, <1>3, <2>1, RootPlace DEF PlaceOK, Descends, HasKid, AtEnd
    <2>4. QED BY <1>2, <2>1, <2>2, <2>3, WalkKept
  <1>7. CountOK'
    <2>1. UNCHANGED <<parent, nodes, subs, subsCount, kidsCount, wgDeleted>> BY DEF Again, treeVars, countVars
    <2>2. \A m \in Node : kidsCount[m] \in Nat /\ subsCount[m] \in Nat /\ wgDeleted[m] \in Nat
      BY DEF IInv, Types, NodeTypes
    <2>3. QED BY <1>2, <2>1, <2>2, CountsStep DEF One, Deletes, Holds, Raised, CutsOff, CutSteps
  <1>8. QED BY <1>4, <1>5, <1>6, <1>7 DEF IInv

LEMMA AnswerStep ==
  ASSUME IInv, NEW w \in Walker, Answer(w)
  PROVE  IInv'
  <1>1. RequestOK(w) /\ PlaceOK(w) BY DEF IInv, WalkOK
  <1>2. /\ pc[w] = "answer" /\ pc'[w] = "idle" /\ OthersStay(w) /\ op'[w] = "none" /\ want'[w] = <<>>
        /\ at'[w] = Root /\ kid'[w] = Root /\ existed'[w] = FALSE
    BY DEF Answer, Goto, IInv, Types, WalkTypes, OthersStay
  <1>3. Root \in Node /\ Root \in 0 .. nodes BY NodeFacts DEF IInv, Types
  <1>4. Types'
    <2>1. TreeTypes' BY TreeTypesKept DEF Answer, IInv, Types
    <2>2. NodeTypes' BY NodeTypesKept DEF Answer, IInv, Types
    <2>3. WalkTypes' BY <1>3 DEF Answer, Goto, IInv, Types, WalkTypes, Steps, Ops
    <2>4. NoteTypes'
      <3>1. op[w] = "subscribe" => w \in Client /\ want[w] \in Filter
        BY <1>1, <1>2, TopicTreeAssumption DEF RequestOK, TopicTreeAssumption
      <3>2. held \in [Client -> SUBSET Filter] BY DEF IInv, Types, NoteTypes
      <3>3. held' = CASE op[w] = "subscribe"   -> [held EXCEPT ![w] = @ \cup {want[w]}]
                      [] op[w] = "unsubscribe" -> [held EXCEPT ![w] = @ \ {want[w]}]
                      [] OTHER                 -> held
        BY DEF Answer
      <3>4. held' \in [Client -> SUBSET Filter] BY <3>1, <3>2, <3>3
      <3>5. UNCHANGED <<kept, mixed>> BY DEF Answer
      <3>6. QED BY <3>4, <3>5 DEF IInv, Types, NoteTypes
    <2>5. QED BY <2>1, <2>2, <2>3, <2>4 DEF Types
  <1>5. TreeOK' BY TreeKept DEF Answer, IInv
  <1>6. WalkOK'
    <2>1. UNCHANGED <<nodes, path, subs>> BY DEF Answer, treeVars
    <2>2. RequestOK(w)' BY <1>1, <1>2 DEF RequestOK, InsertSteps, RemoveSteps, Inserts, Removes
    <2>3. PlaceOK(w)'
      <3>1. path[Root] = <<>> /\ Under(<<>>, <<>>) BY UnderEmpty, EmptySeq DEF IInv, TreeOK
      <3>2. QED BY <1>2, <1>3, <2>1, <3>1 DEF PlaceOK, Descends, HasKid, AtEnd
    <2>4. QED BY <1>2, <2>1, <2>2, <2>3, WalkKept
  <1>7. CountOK'
    <2>1. UNCHANGED <<parent, nodes, subs, subsCount, kidsCount, wgDeleted>> BY DEF Answer, treeVars, countVars
    <2>2. \A m \in Node : kidsCount[m] \in Nat /\ subsCount[m] \in Nat /\ wgDeleted[m] \in Nat
      BY DEF IInv, Types, NodeTypes
    <2>3. QED BY <1>2, <2>1, <2>2, CountsStep DEF One, Deletes, Holds, Raised, CutsOff, CutSteps
  <1>8. QED BY <1>4, <1>5, <1>6, <1>7 DEF IInv
-----------------------------------------------------------------------------
(* Requests, and the searches *)

LEMMA RequestStep ==
  ASSUME IInv, NEW w \in Walker, NEW o \in Inserts \cup Removes \cup {"replace"},
         NEW f \in (IF w = Retainer THEN Topic ELSE Filter), NEW first,
         Request(w, o, f, first), first = IF o \in Inserts THEN "raise" ELSE "seek",
         o \in {"subscribe", "unsubscribe"} <=> w \in Client,
         held' = held, kept' \in [Topic -> Message \cup {None}]
  PROVE  IInv'
  <1>1. RequestOK(w) /\ PlaceOK(w) BY DEF IInv, WalkOK
  <1>2. /\ pc[w] = "idle" /\ pc'[w] = first /\ OthersStay(w) /\ op'[w] = o /\ want'[w] = f
        /\ at'[w] = at[w] /\ kid'[w] = kid[w] /\ existed'[w] = existed[w]
    BY DEF Request, Goto, IInv, Types, WalkTypes, OthersStay
  <1>3. at[w] = Root /\ f \in Filter \cup Topic BY <1>1, <1>2 DEF RequestOK
  <1>4. w \notin Client => w = Retainer BY DEF Walker
  <1>5. w = Retainer => w \notin Client BY TopicTreeAssumption DEF TopicTreeAssumption
  <1>6. Types'
    <2>1. TreeTypes' BY TreeTypesKept DEF Request, IInv, Types
    <2>2. NodeTypes' BY NodeTypesKept DEF Request, IInv, Types
    <2>3. WalkTypes' BY <1>3 DEF Request, Goto, IInv, Types, WalkTypes, Steps, Ops
    <2>4. NoteTypes' BY DEF Request, Mixes, IInv, Types, NoteTypes
    <2>5. QED BY <2>1, <2>2, <2>3, <2>4 DEF Types
  <1>7. TreeOK' BY TreeKept DEF Request, IInv
  <1>8. WalkOK'
    <2>1. UNCHANGED <<nodes, path, subs>> BY DEF Request, treeVars
    <2>2. RequestOK(w)' BY <1>1, <1>2, <1>3, <1>4, <1>5 DEF RequestOK, InsertSteps, RemoveSteps, Inserts, Removes
    <2>3. PlaceOK(w)' BY <1>1, <1>2, <1>3, <2>1, RootPlace DEF PlaceOK, Descends, HasKid, AtEnd
    <2>4. QED BY <1>2, <2>1, <2>2, <2>3, WalkKept
  <1>9. CountOK'
    <2>1. UNCHANGED <<parent, nodes, subs, subsCount, kidsCount, wgDeleted>> BY DEF Request, treeVars, countVars
    <2>2. \A m \in Node : kidsCount[m] \in Nat /\ subsCount[m] \in Nat /\ wgDeleted[m] \in Nat
      BY DEF IInv, Types, NodeTypes
    <2>3. QED BY <1>2, <2>1, <2>2, CountsStep DEF One, Deletes, Holds, Raised, CutsOff, CutSteps
  <1>10. QED BY <1>6, <1>7, <1>8, <1>9 DEF IInv

LEMMA CollectStep ==
  ASSUME IInv, NEW c \in Client, NEW step, NEW next, Collect(c, step, next)
  PROVE  IInv'
  <1>1. c \in Walker /\ RequestOK(c) /\ PlaceOK(c) BY DEF Walker, IInv, WalkOK
  <1>2. /\ pc[c] = "collect" /\ pc'[c] \in {"collect", "answer"} /\ OthersStay(c)
        /\ at'[c] = at[c] /\ kid'[c] = kid[c] /\ existed'[c] = existed[c] /\ op'[c] = op[c] /\ want'[c] = want[c]
    BY <1>1 DEF Collect, Goto, IInv, Types, WalkTypes, OthersStay
  <1>3. Types'
    <2>1. TreeTypes' BY TreeTypesKept DEF Collect, IInv, Types
    <2>2. NodeTypes' BY NodeTypesKept DEF Collect, IInv, Types
    <2>3. WalkTypes' BY DEF Collect, Goto, IInv, Types, WalkTypes, Steps
    <2>4. NoteTypes' BY NoteTypesKept DEF Collect, IInv, Types
    <2>5. QED BY <2>1, <2>2, <2>3, <2>4 DEF Types
  <1>4. TreeOK' BY TreeKept DEF Collect, IInv
  <1>5. WalkOK'
    <2>1. UNCHANGED <<nodes, path, subs>> BY DEF Collect, treeVars
    <2>2. RequestOK(c)' BY <1>1, <1>2 DEF RequestOK, InsertSteps, RemoveSteps, Inserts, Removes
    <2>3. PlaceOK(c)' BY <1>1, <1>2, <2>1 DEF PlaceOK, Descends, HasKid, AtEnd
    <2>4. QED BY <1>1, <1>2, <2>1, <2>2, <2>3, WalkKept
  <1>6. CountOK'
    <2>1. UNCHANGED <<parent, nodes, subs, subsCount, kidsCount, wgDeleted>> BY DEF Collect, treeVars, countVars
    <2>2. \A m \in Node : kidsCount[m] \in Nat /\ subsCount[m] \in Nat /\ wgDeleted[m] \in Nat
      BY DEF IInv, Types, NodeTypes
    <2>3. QED BY <1>1, <1>2, <2>1, <2>2, CountsStep DEF One, Deletes, Holds, Raised, CutsOff, CutSteps
  <1>7. QED BY <1>3, <1>4, <1>5, <1>6 DEF IInv

LEMMA Unseen ==
  ASSUME IInv, UNCHANGED walkerSteps
  PROVE  IInv'
  <1>1. UNCHANGED <<treeVars, countVars, subs, retained, walkVars, held, kept, mixed>> BY DEF walkerSteps
  <1>2. Types'
    <2>1. TreeTypes' BY <1>1, TreeTypesKept DEF IInv, Types
    <2>2. NodeTypes' BY <1>1, NodeTypesKept DEF IInv, Types
    <2>3. WalkTypes' BY <1>1 DEF IInv, Types, WalkTypes, walkVars
    <2>4. NoteTypes' BY <1>1 DEF IInv, Types, NoteTypes
    <2>5. QED BY <2>1, <2>2, <2>3, <2>4 DEF Types
  <1>3. TreeOK' BY <1>1, TreeKept DEF IInv
  <1>4. WalkOK' BY <1>1 DEF IInv, WalkOK, RequestOK, PlaceOK, NextLevel, Under, Created, treeVars, walkVars
  <1>5. CountOK'
    BY <1>1 DEF IInv, CountOK, Deleting, Holding, Raising, CuttingOff, Kids, Created, treeVars, walkVars, countVars
  <1>6. QED BY <1>2, <1>3, <1>4, <1>5 DEF IInv
-----------------------------------------------------------------------------
(* The invariant *)

LEMMA InitOK ==
  ASSUME Init
  PROVE  IInv
  <1>1. Root \in Node /\ 0 .. 0 = {Root} /\ 1 .. 0 = {} /\ Node \subseteq Nat
    BY TopicTreeAssumption DEF TopicTreeAssumption, Node, Root
  <1>2. <<>> \in Seq(Level) OBVIOUS
  <1>3. Types
    <2>1. TreeTypes
      <3>1. children \in [Node -> [Level -> Node \cup {None}]] BY DEF Init
      <3>2. parent \in [Node -> Node \cup {None}] /\ nodes \in Node BY <1>1 DEF Init, Root
      <3>3. path \in [Node -> Seq(Level)] BY <1>2 DEF Init
      <3>4. QED BY <3>1, <3>2, <3>3 DEF TreeTypes
    <2>2. NodeTypes BY DEF Init, NodeTypes
    <2>3. WalkTypes BY <1>1 DEF Init, WalkTypes, Steps, Ops
    <2>4. NoteTypes BY DEF Init, NoteTypes
    <2>5. QED BY <2>1, <2>2, <2>3, <2>4 DEF Types
  <1>4. Created = {} /\ nodes = 0 BY <1>1 DEF Init, Created
  <1>5. TreeOK BY <1>1, <1>4 DEF Init, TreeOK
  <1>6. ASSUME NEW w \in Walker PROVE RequestOK(w) /\ PlaceOK(w)
    <2>1. pc[w] = "idle" /\ op[w] = "none" /\ want[w] = <<>> /\ at[w] = Root /\ kid[w] = Root BY DEF Init
    <2>2. RequestOK(w) BY <2>1 DEF RequestOK, InsertSteps, RemoveSteps
    <2>3. path[Root] = <<>> /\ Under(<<>>, <<>>) BY <1>1, UnderEmpty, EmptySeq DEF Init
    <2>4. PlaceOK(w) BY <1>1, <1>4, <2>1, <2>3 DEF PlaceOK, Descends, HasKid, AtEnd
    <2>5. QED BY <2>2, <2>4
  <1>7. ASSUME NEW n \in Node
        PROVE  /\ subsCount[n] + Cardinality(Deleting(n)) = Cardinality(subs[n]) + Cardinality(Holding(n))
               /\ kidsCount[n] >= Cardinality(Kids(n)) + Cardinality(Raising(n))
               /\ wgDeleted[n] = Cardinality(CuttingOff(n))
    <2>1. \A w \in Walker : pc[w] = "idle" BY DEF Init
    <2>2. Deleting(n) = {} /\ Holding(n) = {} /\ Raising(n) = {} /\ CuttingOff(n) = {} /\ Kids(n) = {}
      BY <1>4, <2>1 DEF Deleting, Deletes, Holding, Holds, Raising, Raised, CuttingOff, CutsOff, CutSteps, Kids
    <2>3. subs[n] = {} /\ subsCount[n] = 0 /\ kidsCount[n] = 0 /\ wgDeleted[n] = 0 BY DEF Init
    <2>4. Cardinality({}) = 0 BY FS_EmptySet
    <2>5. QED BY <2>2, <2>3, <2>4
  <1>8. QED BY <1>3, <1>5, <1>6, <1>7 DEF IInv, WalkOK, CountOK

LEMMA EnvironmentStep ==
  ASSUME IInv, Environment
  PROVE  IInv'
  <1>1. kept \in [Topic -> Message \cup {None}] BY DEF IInv, Types, NoteTypes
  <1>2. \A c \in Client : c \in Walker /\ c # Retainer BY TopicTreeAssumption DEF TopicTreeAssumption, Walker
  <1>3. Retainer \in Walker /\ Retainer \notin Client BY TopicTreeAssumption DEF TopicTreeAssumption, Walker
  <1>4. ASSUME NEW c \in Client, NEW f \in Filter, Subscribe(c, f) PROVE IInv'
    <2>1. Request(c, "subscribe", f, "raise") /\ held' = held /\ kept' = kept BY <1>4 DEF Subscribe
    <2>2. QED BY <1>1, <1>2, <2>1, RequestStep DEF Inserts, Removes
  <1>5. ASSUME NEW c \in Client, NEW f \in Filter, UnSubscribe(c, f) PROVE IInv'
    <2>1. Request(c, "unsubscribe", f, "seek") /\ held' = held /\ kept' = kept BY <1>5 DEF UnSubscribe
    <2>2. QED BY <1>1, <1>2, <2>1, RequestStep DEF Inserts, Removes
  <1>6. ASSUME NEW t \in Topic, NEW m \in Message \cup {None}, NEW o \in {"store", "clear", "replace"}, Retain(t, o, m)
        PROVE  IInv'
    <2>1. Request(Retainer, o, t, IF o = "store" THEN "raise" ELSE "seek") /\ held' = held
          /\ kept' = [kept EXCEPT ![t] = m]
      BY <1>6 DEF Retain
    <2>2. kept' \in [Topic -> Message \cup {None}] BY <1>1, <2>1
    <2>3. QED BY <1>3, <2>1, <2>2, RequestStep DEF Inserts, Removes
  <1>7. ASSUME NEW p \in Publisher, NEW t \in Topic, Publish(p, t) PROVE IInv'
    BY <1>7, Unseen DEF Publish, walkerSteps
  <1>8. QED BY <1>4, <1>5, <1>6, <1>7 DEF Environment

LEMMA InsertStep ==
  ASSUME IInv, NEW w \in Walker, Insert(w)
  PROVE  IInv'
  BY RaiseStep, LoadChildStep, StoreChildStep, CountStep, LowerStep, CheckRemoveStep, BackOffStep,
     WaitDeletedStep, EnterStep, StoreSubStep, StoreRetainedStep, ReleaseLeafStep DEF Insert

LEMMA RemoveStep ==
  ASSUME IInv, NEW w \in Walker, Remove(w)
  PROVE  IInv'
  BY SeekStep, LoadSubStep, UncountStep, DeleteSubStep, ClearRetainedStep, LooksEmptyStep, HoldDeletedStep,
     MarkStep, StillEmptyStep, CutStep, LetGoStep, AgainStep DEF Remove

LEMMA SearchStep ==
  ASSUME IInv, (\E c \in Client : SearchRetained(c)) \/ (\E p \in Publisher : Search(p)) \/ Quiet
  PROVE  IInv'
  <1>1. ASSUME NEW c \in Client, SearchRetained(c) PROVE IInv'
    <2>1. CASE LoadKid(c) BY <2>1, CollectStep DEF LoadKid
    <2>2. CASE LoadRetained(c) BY <2>2, CollectStep DEF LoadRetained
    <2>3. CASE RangeChildren(c) BY <2>3, CollectStep, Zenon DEF RangeChildren
    <2>4. QED BY <1>1, <2>1, <2>2, <2>3 DEF SearchRetained
  <1>2. ASSUME NEW p \in Publisher, Search(p) PROVE IInv'
    <2>1. CASE LoadLevel(p) BY <2>1, Unseen DEF LoadLevel, clientVars, walkerSteps
    <2>2. CASE TakeSubscribers(p) BY <2>2, Unseen DEF TakeSubscribers, clientVars, walkerSteps
    <2>3. CASE Deliver(p) BY <2>3, Unseen DEF Deliver, clientVars, walkerSteps
    <2>4. QED BY <1>2, <2>1, <2>2, <2>3, ZenonT(30) DEF Search
  <1>3. CASE Quiet BY <1>3, Unseen DEF Quiet, vars, clientVars, walkerSteps
  <1>4. QED BY <1>1, <1>2, <1>3

LEMMA NextStep ==
  ASSUME IInv, [Next]_vars
  PROVE  IInv'
  <1>1. CASE UNCHANGED vars BY <1>1, Unseen DEF vars, clientVars, walkerSteps
  <1>2. CASE Next
    BY <1>2, InsertStep, RemoveStep, AnswerStep, EnvironmentStep, SearchStep DEF Next, Walk
  <1>3. QED BY <1>1, <1>2

\* The types, the tree, the walkers' places and the counters are kept by every
\* step of the walkers, the searches and the environment (topics.go:86-142,
\* node.go:50-165).
THEOREM Invariant == Spec => []IInv
  <1>1. Init => IInv BY InitOK
  <1>2. IInv /\ [Next]_vars => IInv' BY NextStep
  <1>3. QED BY <1>1, <1>2, PTL DEF Spec

\* No counter ever drops below zero: who lowers one is counted by it (node.go:79,
\* 85, 111, 137, 142, 156).
THEOREM TypeCorrect == Spec => []TypeOK
  <1>1. IInv => TypeOK BY DEF IInv, Types, TreeTypes, NodeTypes, WalkTypes, NoteTypes, TypeOK
  <1>2. QED BY <1>1, Invariant, PTL

\* A level is taken by one child only.
LEMMA LevelsKids ==
  ASSUME IInv, NEW n \in Node
  PROVE  IsFiniteSet({l \in Level : children[n][l] # None})
         /\ Cardinality({l \in Level : children[n][l] # None}) \in Nat
         /\ Cardinality({l \in Level : children[n][l] # None}) <= Cardinality(Kids(n))
  <1> DEFINE taken == {l \in Level : children[n][l] # None}
             child == [l \in taken |-> children[n][l]]
  <1>1. \A l \in taken : children[n][l] \in Kids(n) /\ path[children[n][l]] = Append(path[n], l)
    BY DEF IInv, TreeOK, Kids
  <1>2. child \in [taken -> Kids(n)] BY <1>1
  <1>3. ASSUME NEW l \in taken, NEW m \in taken, child[l] = child[m] PROVE l = m
    <2>1. Append(path[n], l) = Append(path[n], m) BY <1>1, <1>3
    <2>2. QED BY <2>1, AppendParts DEF IInv, Types, TreeTypes
  <1>4. IsInjective(child) BY <1>3 DEF IsInjective
  <1>5. child \in Injection(taken, Kids(n)) BY <1>2, <1>3 DEF Injection, IsInjective
  <1>6. IsFiniteSet(Kids(n)) BY KidsFinite DEF IInv, Types
  <1>7. IsFiniteSet(taken) /\ Cardinality(taken) <= Cardinality(Kids(n)) BY <1>5, <1>6, FS_Injection
  <1>8. QED BY <1>7, FS_CardinalityType

LEMMA BalancedHolds ==
  ASSUME IInv
  PROVE  Balanced
  <1>1. TypeOK BY DEF IInv, Types, TreeTypes, NodeTypes, WalkTypes, NoteTypes, TypeOK
  <1>2. ASSUME NEW n \in Node
        PROVE  /\ subsCount[n] + Walking({"delete"}, at, n)
                    = Cardinality(subs[n])
                      + Walking({"lower", "check", "back", "enter"}, kid, n)
                      + Walking({"leaf", "release"}, at, n)
               /\ kidsCount[n] >= Cardinality({l \in Level : children[n][l] # None}) + Walking({"load"}, at, n)
               /\ wgDeleted[n] = Walking({"mark", "subsAgain", "kidsAgain", "retainedAgain", "cut", "letGo"}, at, n)
    <2>1. /\ subsCount[n] + Cardinality(Deleting(n)) = Cardinality(subs[n]) + Cardinality(Holding(n))
          /\ kidsCount[n] >= Cardinality(Kids(n)) + Cardinality(Raising(n))
          /\ wgDeleted[n] = Cardinality(CuttingOff(n))
          /\ kidsCount[n] \in Nat
      BY DEF IInv, CountOK, Types, NodeTypes
    <2>2. Walking({"delete"}, at, n) = Cardinality(Deleting(n))
      <3>1. Deleting(n) = {w \in Walker : pc[w] \in {"delete"} /\ at[w] = n} BY DEF Deleting, Deletes
      <3>2. QED BY <3>1 DEF Walking
    <2>3. Walking(CutSteps, at, n) = Cardinality(CuttingOff(n))
      <3>1. CuttingOff(n) = {w \in Walker : pc[w] \in CutSteps /\ at[w] = n} BY DEF CuttingOff, CutsOff
      <3>2. QED BY <3>1 DEF Walking
    <2>4. Cardinality(Holding(n)) = Walking({"lower", "check", "back", "enter"}, kid, n) + Walking({"leaf", "release"}, at, n)
      <3> DEFINE passing == {w \in Walker : pc[w] \in {"lower", "check", "back", "enter"} /\ kid[w] = n}
                 staying == {w \in Walker : pc[w] \in {"leaf", "release"} /\ at[w] = n}
      <3>1. Holding(n) = passing \cup staying /\ passing \cap staying = {} BY DEF Holding, Holds
      <3>2. IsFiniteSet(passing) /\ IsFiniteSet(staying) BY Finite, FS_Subset
      <3>3. Cardinality(passing \cup staying) = Cardinality(passing) + Cardinality(staying)
        <4>1. Cardinality(passing \cup staying)
                = Cardinality(passing) + Cardinality(staying) - Cardinality(passing \cap staying)
          BY <3>2, FS_Union
        <4>2. Cardinality(passing \cap staying) = 0 BY <3>1, FS_EmptySet
        <4>3. Cardinality(passing) \in Nat /\ Cardinality(staying) \in Nat BY <3>2, FS_CardinalityType
        <4>4. QED BY <4>1, <4>2, <4>3
      <3>4. QED BY <3>1, <3>3 DEF Walking
    <2>5. Cardinality(Raising(n)) \in Nat /\ Walking({"load"}, at, n) \in Nat
          /\ Walking({"load"}, at, n) <= Cardinality(Raising(n))
      <3>1. {w \in Walker : pc[w] \in {"load"} /\ at[w] = n} \subseteq Raising(n) BY DEF Raising, Raised
      <3>2. IsFiniteSet(Raising(n)) BY Finite, FS_Subset DEF Raising
      <3>3. QED BY <3>1, <3>2, FS_Subset, FS_CardinalityType DEF Walking
    <2>6. Cardinality(Kids(n)) \in Nat BY KidsFinite DEF IInv, Types
    <2>7. PICK a, b, c, d :
            /\ a = Cardinality({l \in Level : children[n][l] # None}) /\ b = Walking({"load"}, at, n)
            /\ c = Cardinality(Kids(n)) /\ d = Cardinality(Raising(n))
      OBVIOUS
    <2>8. a \in Nat /\ b \in Nat /\ c \in Nat /\ d \in Nat /\ a <= c /\ b <= d BY <2>5, <2>6, <2>7, LevelsKids
    <2>9. kidsCount[n] \in Nat /\ kidsCount[n] >= c + d BY <2>1, <2>7
    <2>10. kidsCount[n] >= a + b BY ONLY <2>8, <2>9
    <2>11. subsCount[n] + Walking({"delete"}, at, n)
             = Cardinality(subs[n]) + (Walking({"lower", "check", "back", "enter"}, kid, n) + Walking({"leaf", "release"}, at, n))
      BY <2>1, <2>2, <2>4
    <2>12. /\ Cardinality(subs[n]) \in Nat
           /\ Walking({"lower", "check", "back", "enter"}, kid, n) \in Nat /\ Walking({"leaf", "release"}, at, n) \in Nat
      <3>1. Cardinality(subs[n]) \in Nat BY SubsFinite DEF IInv, Types
      <3>2. /\ IsFiniteSet({w \in Walker : pc[w] \in {"lower", "check", "back", "enter"} /\ kid[w] = n})
            /\ IsFiniteSet({w \in Walker : pc[w] \in {"leaf", "release"} /\ at[w] = n})
        BY Finite, FS_Subset
      <3>3. QED BY <3>1, <3>2, FS_CardinalityType DEF Walking
    <2>13. subsCount[n] + Walking({"delete"}, at, n)
             = Cardinality(subs[n]) + Walking({"lower", "check", "back", "enter"}, kid, n) + Walking({"leaf", "release"}, at, n)
      BY ONLY <2>11, <2>12
    <2>14. QED BY <2>1, <2>3, <2>7, <2>10, <2>13 DEF CutSteps
  <1>3. QED BY <1>1, <1>2 DEF Balanced

\* A node's counters are what they count, its subscriptions and those that hold it
\* on their way, whatever insertions and removals overlap (node.go:64-90, 120-122,
\* 156-162).
THEOREM BalancedCorrect == Spec => []Balanced
  BY BalancedHolds, Invariant, PTL
-----------------------------------------------------------------------------
(* What is linked, as long as no insertion and removal overlap *)

\* What the parent of n has at the level of n, and whether that is n.
Slot(n)   == children[parent[n]][path[n][Len(path[n])]]
Linked(n) == n = Root \/ Slot(n) = n

PhaseOK ==
  \A v, w \in Walker : v # w /\ op[v] # "none" /\ op[w] # "none" =>
     {op[v], op[w]} \subseteq Inserts \/ {op[v], op[w]} \subseteq Removes

\* A node that was ever a parent is never cut off, for it counts its children for
\* ever; so what is linked is a tree.
LinkOK ==
  /\ \A k \in Created : Linked(parent[k])
  /\ \A m, n \in 0 .. nodes : Linked(m) /\ Linked(n) /\ path[m] = path[n] => m = n

\* What nodes hold they hold in the tree.
ContentOK ==
  /\ \A n \in Node, c \in Client : c \in subs[n] =>
       n \in 0 .. nodes /\ (Linked(n) \/ (pc[c] = "delete" /\ at[c] = n))
  /\ \A n \in Node : retained[n] # None => n \in 0 .. nodes /\ Linked(n)

InsertAt(w) == pc[w] \in InsertSteps => Linked(at[w]) /\ (pc[w] \in HasKid => Linked(kid[w]))
InsertOK == \A w \in Walker : InsertAt(w)

\* A removal may find itself at a node that another has cut off, in whose place
\* there is no other. Once a node has been found empty it stays empty.
EmptySteps == {"kids", "retained", "hold", "mark", "subsAgain", "kidsAgain", "retainedAgain", "cut"}
RemoveAt(w) ==
  pc[w] \in RemoveSteps =>
    /\ Linked(at[w]) \/ Slot(at[w]) = None
    /\ pc[w] \in EmptySteps => subsCount[at[w]] = 0
    /\ pc[w] \in EmptySteps \ {"kids"} => kidsCount[at[w]] = 0
    /\ pc[w] \in EmptySteps \ {"kids", "retained"} => retained[at[w]] = None
RemoveOK == \A w \in Walker : RemoveAt(w)

\* Whoever marks a node cuts it off.
Ending == {"subsAgain", "kidsAgain", "retainedAgain", "cut"}
MarkOK ==
  \A n \in Node \ {Root} : remove[n] =>
    n \in Created /\ (~Linked(n) \/ \E w \in Walker : pc[w] \in Ending /\ at[w] = n)

Stands(c, f) == \E n \in 0 .. nodes : Linked(n) /\ path[n] = f /\ c \in subs[n]
Subscribed == {"release", "collect", "answer"}
SubsOK ==
  /\ \A x \in Settled : Stands(x[1], x[2])
  /\ \A c \in Client : op[c] = "subscribe" /\ pc[c] \in Subscribed => Stands(c, want[c])

\* What the tree retains for a topic.
RetainedIs(t, m) ==
  /\ m # None => \E n \in 0 .. nodes : Linked(n) /\ path[n] = t
  /\ \A n \in 0 .. nodes : Linked(n) /\ path[n] = t => retained[n] = m
Cleared == {"subs", "kids", "retained", "hold", "mark", "subsAgain", "kidsAgain", "retainedAgain",
            "cut", "letGo", "again"}
RetainedOK ==
  /\ \A t \in Topic : want[Retainer] # t => RetainedIs(t, kept[t])
  /\ op[Retainer] = "store" /\ pc[Retainer] \in {"release", "answer"}
       => RetainedIs(want[Retainer], kept[want[Retainer]])
  /\ op[Retainer] = "clear" => kept[want[Retainer]] = None
  /\ (op[Retainer] = "clear" /\ pc[Retainer] = "answer") \/ pc[Retainer] \in Cleared
       => RetainedIs(want[Retainer], None)

Apart == PhaseOK /\ LinkOK /\ ContentOK /\ InsertOK /\ RemoveOK /\ MarkOK /\ SubsOK /\ RetainedOK

LEMMA LinkedSame ==
  ASSUME UNCHANGED treeVars, NEW n
  PROVE  (Linked(n)' <=> Linked(n)) /\ Slot(n)' = Slot(n) /\ Created' = Created
  BY DEF treeVars, Linked, Slot, Created

LEMMA InsertersOnly ==
  ASSUME IInv, PhaseOK, NEW w \in Walker, op[w] \in Inserts
  PROVE  \A v \in Walker : op[v] \notin Removes \cup {"replace"} /\ pc[v] \notin RemoveSteps
  <1> SUFFICES ASSUME NEW v \in Walker
               PROVE  op[v] \notin Removes \cup {"replace"} /\ pc[v] \notin RemoveSteps
    OBVIOUS
  <1>1. RequestOK(v) BY DEF IInv, WalkOK
  <1>2. op[v] \notin Removes \cup {"replace"} BY DEF PhaseOK, Inserts, Removes
  <1>3. QED BY <1>1, <1>2 DEF RequestOK

LEMMA RemoversOnly ==
  ASSUME IInv, PhaseOK, NEW w \in Walker, op[w] \in Removes \cup {"replace"}
  PROVE  \A v \in Walker : op[v] \notin Inserts /\ pc[v] \notin InsertSteps
  <1> SUFFICES ASSUME NEW v \in Walker PROVE op[v] \notin Inserts /\ pc[v] \notin InsertSteps
    OBVIOUS
  <1>1. RequestOK(v) BY DEF IInv, WalkOK
  <1>2. op[v] \notin Inserts BY DEF PhaseOK, Inserts, Removes
  <1>3. QED BY <1>1, <1>2 DEF RequestOK

LEMMA PhaseKept ==
  ASSUME PhaseOK, NEW w \in Walker, OthersStay(w), op'[w] \in {op[w], "none"}
  PROVE  PhaseOK'
  BY DEF PhaseOK, OthersStay

LEMMA SubsKept ==
  ASSUME IInv, SubsOK, NEW w \in Walker, OthersStay(w), op'[w] = op[w], want'[w] = want[w], held' = held,
         op[w] = "subscribe" /\ pc'[w] \in Subscribed =>
           \/ pc[w] \in Subscribed
           \/ \E n \in (0 .. nodes)' : Linked(n)' /\ path'[n] = want[w] /\ w \in subs'[n],
         \A n \in 0 .. nodes, c \in Client :
           Linked(n) /\ c \in subs[n] /\ ~(op[c] = "unsubscribe" /\ want[c] = path[n])
             => n \in (0 .. nodes)' /\ Linked(n)' /\ path'[n] = path[n] /\ c \in subs'[n]
  PROVE  SubsOK'
  <1>1. \A v \in Walker : op'[v] = op[v] /\ want'[v] = want[v] BY DEF OthersStay
  <1>2. Client \subseteq Walker BY DEF Walker
  <1>3. ASSUME NEW c \in Client, NEW f, Stands(c, f), ~(op[c] = "unsubscribe" /\ want[c] = f)
        PROVE  Stands(c, f)'
    BY <1>3 DEF Stands
  <1>4. ASSUME NEW x \in Settled' PROVE Stands(x[1], x[2])'
    <2>1. x \in Settled /\ x[1] \in Client /\ ~(op[x[1]] = "unsubscribe" /\ want[x[1]] = x[2])
      BY <1>1, <1>2 DEF Settled
    <2>2. QED BY <1>3, <2>1 DEF SubsOK
  <1>5. ASSUME NEW c \in Client, op'[c] = "subscribe", pc'[c] \in Subscribed
        PROVE  \E n \in (0 .. nodes)' : Linked(n)' /\ path'[n] = want'[c] /\ c \in subs'[n]
    <2>1. op[c] = "subscribe" /\ want'[c] = want[c] BY <1>1, <1>2, <1>5
    <2>2. CASE pc[c] \in Subscribed
      <3>1. PICK f : f = want[c] OBVIOUS
      <3>2. Stands(c, f) BY <2>1, <2>2, <3>1 DEF SubsOK
      <3>3. Stands(c, f)' BY <1>3, <2>1, <3>2
      <3>4. QED BY <2>1, <3>1, <3>3 DEF Stands
    <2>3. CASE pc[c] \notin Subscribed
      <3>1. c = w BY <1>2, <1>5, <2>3 DEF OthersStay
      <3>2. QED BY <1>5, <2>1, <2>3, <3>1
    <2>4. QED BY <2>2, <2>3
  <1>6. QED BY <1>4, <1>5 DEF SubsOK, Stands

LEMMA RetainedSame ==
  ASSUME UNCHANGED <<treeVars, retained>>, NEW t, NEW m
  PROVE  RetainedIs(t, m)' <=> RetainedIs(t, m)
  BY LinkedSame DEF RetainedIs, treeVars

LEMMA RetainedKept ==
  ASSUME IInv, RetainedOK, NEW w \in Walker, OthersStay(w), pc[w] # "idle", op'[w] = op[w], want'[w] = want[w], kept' = kept,
         \A t \in Topic, m \in Message \cup {None} : RetainedIs(t, m) => RetainedIs(t, m)',
         w = Retainer /\ op[w] = "store" /\ pc'[w] \in {"release", "answer"} => pc[w] = "release",
         w = Retainer /\ ((op[w] = "clear" /\ pc'[w] = "answer") \/ pc'[w] \in Cleared)
           => pc[w] \in Cleared \/ RetainedIs(want[w], None)
  PROVE  RetainedOK'
  <1>1. Retainer \in Walker BY DEF Walker
  <1>2. PICK f : f = want[Retainer] OBVIOUS
  <1>3. op'[Retainer] = op[Retainer] /\ want'[Retainer] = f BY <1>1, <1>2 DEF OthersStay
  <1>4. pc[Retainer] \notin {"idle"} => f \in Topic BY <1>1, <1>2 DEF IInv, WalkOK, RequestOK
  <1>5. kept \in [Topic -> Message \cup {None}] BY DEF IInv, Types, NoteTypes
  <1>6. ASSUME NEW t \in Topic, f # t PROVE RetainedIs(t, kept[t])'
    <2>1. PICK m : m = kept[t] OBVIOUS
    <2>2. RetainedIs(t, m) /\ m \in Message \cup {None} BY <1>2, <1>5, <1>6, <2>1 DEF RetainedOK
    <2>3. RetainedIs(t, m)' BY <2>2
    <2>4. QED BY <2>1, <2>3 DEF RetainedIs
  <1>7. ASSUME op[Retainer] = "store", pc'[Retainer] \in {"release", "answer"} PROVE RetainedIs(f, kept[f])'
    <2>1. pc[Retainer] \in {"release", "answer"} BY <1>1, <1>7 DEF OthersStay
    <2>2. PICK m : m = kept[f] OBVIOUS
    <2>3. f \in Topic /\ RetainedIs(f, m) /\ m \in Message \cup {None}
      BY <1>2, <1>4, <1>5, <1>7, <2>1, <2>2 DEF RetainedOK
    <2>4. RetainedIs(f, m)' BY <2>3
    <2>5. QED BY <2>2, <2>4 DEF RetainedIs
  <1>8. ASSUME (op[Retainer] = "clear" /\ pc'[Retainer] = "answer") \/ pc'[Retainer] \in Cleared
        PROVE  RetainedIs(f, None)'
    <2>1. RetainedIs(f, None) BY <1>1, <1>2, <1>8 DEF OthersStay, RetainedOK
    <2>2. f \in Topic
      <3>1. pc[Retainer] # "idle"
        <4>1. RequestOK(Retainer) BY <1>1 DEF IInv, WalkOK
        <4>2. op[Retainer] = "clear" => pc[Retainer] # "idle" BY <4>1 DEF RequestOK
        <4>3. CASE w # Retainer BY <1>1, <1>8, <4>2, <4>3 DEF OthersStay, Cleared
        <4>4. QED BY <4>3
      <3>2. QED BY <3>1, <1>4
    <2>3. QED BY <2>1, <2>2
  <1>9. op[Retainer] = "clear" => kept[f] = None BY <1>2 DEF RetainedOK
  <1>10. QED BY <1>3, <1>6, <1>7, <1>8, <1>9 DEF RetainedOK, RetainedIs

\* What is loaded from a node is linked.
LEMMA ChildLinked ==
  ASSUME IInv, NEW n \in Node, NEW l \in Level, children[n][l] # None
  PROVE  /\ Linked(children[n][l]) /\ children[n][l] \in Created
         /\ path[children[n][l]] = Append(path[n], l) /\ parent[children[n][l]] = n
  <1>1. PICK k : k = children[n][l] OBVIOUS
  <1>2. k \in Created /\ parent[k] = n /\ path[k] = Append(path[n], l) BY <1>1 DEF IInv, TreeOK
  <1>3. path[k][Len(path[k])] = l
    <2>1. path[n] \in Seq(Level) BY DEF IInv, Types, TreeTypes
    <2>2. QED BY <1>2, <2>1, AppendIs
  <1>4. Slot(k) = k BY <1>1, <1>2, <1>3 DEF Slot
  <1>5. QED BY <1>1, <1>2, <1>4 DEF Linked

LEMMA LeastOf ==
  ASSUME NEW T, T \subseteq Nat, T # {}
  PROVE  \E x \in T : \A y \in T : x <= y
  <1>1. PICK R : R = OpToRel(<, Nat) OBVIOUS
  <1>2. IsWellFoundedOn(R, Nat) BY <1>1, NatLessThanWellFounded
  <1>3. PICK x \in T : \A y \in T : <<y, x>> \notin R BY <1>2, WFMin
  <1>4. ASSUME NEW y \in T PROVE x <= y
    <2>1. ~(y < x) BY <1>1, <1>3 DEF OpToRel
    <2>2. QED BY <2>1
  <1>5. QED BY <1>4

LEMMA UnderSame ==
  ASSUME NEW S, NEW p \in Seq(S), NEW q \in Seq(S), NEW f, Under(p, f), Under(q, f), Len(p) = Len(q)
  PROVE  p = q
  BY SeqEqual DEF Under

\* A node, its parent and the level between them.
LEMMA ParentOf ==
  ASSUME IInv, LinkOK, NEW n \in Created
  PROVE  /\ n \in 0 .. nodes /\ n # Root /\ parent[n] \in 0 .. nodes /\ parent[n] \in Node
         /\ Linked(parent[n]) /\ path[parent[n]] \in Seq(Level) /\ path[n] \in Seq(Level)
         /\ path[n][Len(path[n])] \in Level
         /\ path[n] = Append(path[parent[n]], path[n][Len(path[n])])
         /\ Len(path[n]) = Len(path[parent[n]]) + 1
  <1>1. PICK l \in Level : parent[n] \in 0 .. n - 1 /\ path[n] = Append(path[parent[n]], l) BY DEF IInv, TreeOK
  <1>2. nodes \in Nat /\ 0 .. nodes \subseteq Node /\ n \in 0 .. nodes /\ n # Root
    BY NodeFacts DEF IInv, Types, Created, Root
  <1>3. parent[n] \in 0 .. nodes /\ parent[n] \in Node BY <1>1, <1>2
  <1>4. path[parent[n]] \in Seq(Level) BY <1>3 DEF IInv, Types, TreeTypes
  <1>5. path[n] \in Seq(Level) /\ Len(path[n]) = Len(path[parent[n]]) + 1 /\ path[n][Len(path[n])] = l
    BY <1>1, <1>4, AppendIs
  <1>6. Linked(parent[n]) BY DEF LinkOK
  <1>7. QED BY <1>1, <1>2, <1>3, <1>4, <1>5, <1>6

\* Two nodes with one path have one place in the tree.
LEMMA SamePlace ==
  ASSUME IInv, LinkOK, NEW m \in Created, NEW n \in Created, path[m] = path[n]
  PROVE  parent[m] = parent[n] /\ Slot(m) = Slot(n)
  <1>1. PICK p, q, l : p = path[parent[m]] /\ q = path[parent[n]] /\ l = path[n][Len(path[n])] OBVIOUS
  <1>2. /\ p \in Seq(Level) /\ q \in Seq(Level) /\ l \in Level /\ Append(p, l) = Append(q, l)
        /\ parent[m] \in 0 .. nodes /\ parent[n] \in 0 .. nodes /\ Linked(parent[m]) /\ Linked(parent[n])
    BY <1>1, ParentOf
  <1>3. p = q BY <1>2, AppendParts
  <1>4. parent[m] = parent[n] BY <1>1, <1>2, <1>3 DEF LinkOK
  <1>5. QED BY <1>4 DEF Slot

\* Where the place of a node is free, no linked node has its path.
LEMMA FreePlace ==
  ASSUME IInv, LinkOK, NEW a \in 0 .. nodes, a # Root, Slot(a) = None,
         NEW m \in 0 .. nodes, Linked(m), path[m] = path[a]
  PROVE  FALSE
  <1>1. a \in Created /\ (m # Root => m \in Created) /\ None \notin Node /\ 0 .. nodes \subseteq Node
    BY NodeFacts DEF IInv, Types
  <1>2. m # Root
    <2>1. path[Root] = <<>> /\ path[a] # <<>>
      <3>1. PICK l \in Level : path[a] = Append(path[parent[a]], l) BY <1>1 DEF IInv, TreeOK
      <3>2. path[parent[a]] \in Seq(Level) BY <1>1, ParentOf
      <3>3. QED BY <3>1, <3>2, AppendIs DEF IInv, TreeOK
    <2>2. QED BY <2>1
  <1>3. Slot(m) = Slot(a) BY <1>1, <1>2, SamePlace
  <1>4. QED BY <1>1, <1>2, <1>3 DEF Linked

\* On the way to a linked node there is one at every level.
LEMMA Ancestor ==
  ASSUME IInv, LinkOK, NEW m \in 0 .. nodes, Linked(m), NEW i \in 0 .. Len(path[m])
  PROVE  \E a \in 0 .. nodes : Linked(a) /\ Len(path[a]) = i /\ Under(path[a], path[m])
  <1> DEFINE above(j) == \E a \in 0 .. nodes : Linked(a) /\ Len(path[a]) = j /\ Under(path[a], path[m])
             T == {j \in Nat : i <= j /\ above(j)}
  <1>1. nodes \in Nat /\ 0 .. nodes \subseteq Node /\ path \in [Node -> Seq(Level)] /\ path[m] \in Seq(Level)
    <2>1. nodes \in Nat /\ 0 .. nodes \subseteq Node BY NodeFacts DEF IInv, Types
    <2>2. QED BY <2>1 DEF IInv, Types, TreeTypes
  <1>2. Len(path[m]) \in Nat BY <1>1, LenProperties
  <1>3. Under(path[m], path[m]) BY <1>2 DEF Under
  <1>4. Len(path[m]) \in T BY <1>2, <1>3
  <1>5. PICK j \in T : \A y \in T : j <= y
    <2> HIDE DEF above
    <2>1. T \subseteq Nat /\ T # {} BY <1>4
    <2> HIDE DEF T
    <2>2. QED BY <2>1, LeastOf
  <1>6. PICK a \in 0 .. nodes : Linked(a) /\ Len(path[a]) = j /\ Under(path[a], path[m]) BY <1>5
  <1>7. CASE j = i BY <1>6, <1>7
  <1>8. CASE j # i
    <2>1. j > i /\ j > 0 /\ j - 1 \in Nat /\ j - 1 >= i BY <1>2, <1>5, <1>8
    <2>2. a \in Created
      <3>1. a # Root
        <4>1. path[Root] = <<>> BY DEF IInv, TreeOK
        <4>2. Len(<<>>) = 0 OBVIOUS
        <4>3. QED BY <1>6, <2>1, <4>1, <4>2
      <3>2. QED BY <3>1, NodeFacts DEF IInv, Types
    <2>3. PICK p, l : p = path[parent[a]] /\ l = path[a][Len(path[a])] OBVIOUS
    <2>4. /\ p \in Seq(Level) /\ l \in Level /\ path[a] = Append(p, l) /\ Len(p) + 1 = j
          /\ parent[a] \in 0 .. nodes /\ Linked(parent[a])
      BY <1>6, <2>2, <2>3, ParentOf
    <2>5. Under(p, path[m]) BY <1>1, <1>6, <2>4, UnderFront
    <2>6. Len(p) = j - 1
      <3>1. Len(p) \in Nat BY <2>4, LenProperties
      <3>2. QED BY <2>4, <3>1
    <2>7. above(j - 1) BY <2>3, <2>4, <2>5, <2>6
    <2>8. j - 1 \in T BY <2>1, <2>7
    <2>9. j \in Nat BY <1>5
    <2>10. QED BY <1>5, <2>8, <2>9
  <1>9. QED BY <1>7, <1>8

\* Where the way to a node is broken there is no linked node at its end.
LEMMA WayBroken ==
  ASSUME IInv, LinkOK, NEW a \in 0 .. nodes, Linked(a) \/ Slot(a) = None, NEW f \in Seq(Level),
         Under(path[a], f), Len(path[a]) < Len(f), children[a][f[Len(path[a]) + 1]] = None,
         NEW m \in 0 .. nodes, Linked(m), path[m] = f
  PROVE  FALSE
  <1>1. nodes \in Nat /\ 0 .. nodes \subseteq Node /\ path \in [Node -> Seq(Level)] /\ None \notin Node
    BY NodeFacts DEF IInv, Types, TreeTypes
  <1>2. PICK i : i = Len(path[a]) OBVIOUS
  <1>3. i \in Nat /\ Len(f) \in Nat /\ i + 1 \in 0 .. Len(f)
    <2>1. i \in Nat /\ Len(f) \in Nat BY <1>1, <1>2, LenProperties
    <2>2. QED BY <1>2, <2>1
  <1>4. PICK b \in 0 .. nodes : Linked(b) /\ Len(path[b]) = i + 1 /\ Under(path[b], f) BY <1>3, Ancestor
  <1>5. b \in Created
    <2>1. path[Root] = <<>> /\ Len(<<>>) = 0 BY DEF IInv, TreeOK
    <2>2. b # Root BY <1>3, <1>4, <2>1
    <2>3. QED BY <2>2, NodeFacts DEF IInv, Types
  <1>6. PICK p, l, n : p = path[parent[b]] /\ l = path[b][Len(path[b])] /\ n = parent[b] OBVIOUS
  <1>7. /\ p \in Seq(Level) /\ l \in Level /\ path[b] = Append(p, l) /\ Len(p) + 1 = i + 1
        /\ n \in 0 .. nodes /\ Linked(n) /\ b # Root
    BY <1>4, <1>5, <1>6, ParentOf
  <1>8. Under(p, f) /\ f[Len(p) + 1] = l BY <1>4, <1>7, UnderFront
  <1>9. Len(p) = i
    <2>1. Len(p) \in Nat BY <1>7, LenProperties
    <2>2. QED BY <1>3, <1>7, <2>1
  <1>10. path[n] = path[a] BY <1>1, <1>2, <1>6, <1>7, <1>8, <1>9, UnderSame
  <1>11. CASE Linked(a)
    <2>1. n = a BY <1>7, <1>10, <1>11 DEF LinkOK
    <2>2. Slot(b) = b BY <1>4, <1>7 DEF Linked
    <2>3. children[a][l] = b BY <1>6, <2>1, <2>2 DEF Slot
    <2>4. QED BY <1>1, <1>2, <1>8, <1>9, <2>3
  <1>12. CASE ~Linked(a) /\ Slot(a) = None
    <2>1. a # Root BY <1>12 DEF Linked
    <2>2. QED BY <1>7, <1>10, <1>12, <2>1, FreePlace
  <1>13. QED BY <1>11, <1>12

\* One step down from a node, or from where there is none.
Down(n, l) == IF n = None THEN None ELSE children[n][l]

\* The nodes on the way along f can be listed.
LEMMA WayExists ==
  ASSUME NEW f, NEW L \in Nat
  PROVE  \E g : g = [i \in 0 .. L |-> IF i = 0 THEN Root ELSE Down(g[i - 1], f[i])]
  <1> DEFINE way(n) == \E g : g = [i \in 0 .. n |-> IF i = 0 THEN Root ELSE Down(g[i - 1], f[i])]
             T == {n \in Nat : ~way(n)}
  <1>1. way(0)
    <2>1. PICK g : g = [i \in 0 .. 0 |-> Root] OBVIOUS
    <2>2. g = [i \in 0 .. 0 |-> IF i = 0 THEN Root ELSE Down(g[i - 1], f[i])] BY <2>1
    <2>3. QED BY <2>2
  <1>2. ASSUME NEW n \in Nat \ {0}, way(n - 1) PROVE way(n)
    <2>1. PICK g : g = [i \in 0 .. n - 1 |-> IF i = 0 THEN Root ELSE Down(g[i - 1], f[i])] BY <1>2
    <2>2. PICK h : h = [i \in 0 .. n |-> IF i = n THEN Down(g[n - 1], f[n]) ELSE g[i]] OBVIOUS
    <2>3. \A i \in 0 .. n : i # 0 => h[i - 1] = g[i - 1] BY <2>2
    <2>4. \A i \in 0 .. n : h[i] = IF i = 0 THEN Root ELSE Down(h[i - 1], f[i]) BY <2>1, <2>2, <2>3
    <2>5. h = [i \in 0 .. n |-> h[i]] BY <2>2
    <2>6. h = [i \in 0 .. n |-> IF i = 0 THEN Root ELSE Down(h[i - 1], f[i])] BY <2>4, <2>5
    <2>7. QED BY <2>6
  <1> HIDE DEF way
  <1>3. T = {}
    <2> SUFFICES ASSUME T # {} PROVE FALSE OBVIOUS
    <2>1. PICK x : x \in T /\ \A y \in T : x <= y
      <3>1. T \subseteq Nat OBVIOUS
      <3> HIDE DEF T
      <3>2. QED BY <3>1, LeastOf
    <2>2. x \in Nat /\ ~way(x) BY <2>1
    <2>3. x # 0 BY <1>1, <2>2
    <2>4. x - 1 \in Nat /\ ~(x <= x - 1) BY <2>2, <2>3
    <2>5. way(x - 1) BY <2>1, <2>4
    <2>6. QED BY <1>2, <2>2, <2>3, <2>5
  <1>4. way(L) BY <1>3
  <1>5. QED BY <1>4 DEF way

LEMMA NodeAtWay ==
  ASSUME NEW f, Len(f) \in Nat
  PROVE  \E g : /\ g = [i \in 0 .. Len(f) |-> IF i = 0 THEN Root ELSE Down(g[i - 1], f[i])]
                /\ NodeAt(f) = g[Len(f)]
  <1> DEFINE walk[i \in 0 .. Len(f)] ==
               IF i = 0 THEN Root ELSE IF walk[i - 1] = None THEN None ELSE children[walk[i - 1]][f[i]]
  <1>1. PICK g : g = [i \in 0 .. Len(f) |-> IF i = 0 THEN Root ELSE Down(g[i - 1], f[i])] BY WayExists
  <1>2. \A i \in 0 .. Len(f) : g[i] = IF i = 0 THEN Root ELSE IF g[i - 1] = None THEN None ELSE children[g[i - 1]][f[i]]
    BY <1>1 DEF Down
  <1>3. g = [i \in 0 .. Len(f) |-> g[i]] BY <1>1
  <1>4. g = [i \in 0 .. Len(f) |->
               IF i = 0 THEN Root ELSE IF g[i - 1] = None THEN None ELSE children[g[i - 1]][f[i]]]
    BY <1>2, <1>3
  <1>5. walk = [i \in 0 .. Len(f) |->
                  IF i = 0 THEN Root ELSE IF walk[i - 1] = None THEN None ELSE children[walk[i - 1]][f[i]]]
    BY <1>4, Zenon
  <1>6. NodeAt(f) = walk[Len(f)] BY DEF NodeAt
  <1> HIDE DEF walk
  <1>7. walk = [i \in 0 .. Len(f) |-> IF i = 0 THEN Root ELSE Down(walk[i - 1], f[i])]
    BY <1>5, Zenon DEF Down
  <1>8. QED BY <1>6, <1>7, Zenon
\* NodeAt leads to the linked node with the path, if there is one.
LEMMA NodeAtIs ==
  ASSUME IInv, LinkOK, NEW f \in Seq(Level)
  PROVE  /\ NodeAt(f) # None => NodeAt(f) \in 0 .. nodes /\ Linked(NodeAt(f)) /\ path[NodeAt(f)] = f
         /\ \A m \in 0 .. nodes : Linked(m) /\ path[m] = f => NodeAt(f) = m
  <1>1. PICK L : L = Len(f) OBVIOUS
  <1>2. L \in Nat /\ \A i \in 1 .. L : f[i] \in Level BY <1>1, LenProperties, ElementOfSeq
  <1>3. nodes \in Nat /\ 0 .. nodes \subseteq Node /\ path \in [Node -> Seq(Level)] /\ None \notin Node
        /\ Created \subseteq 0 .. nodes /\ Root \in 0 .. nodes
    BY NodeFacts DEF IInv, Types, TreeTypes
  <1>4. PICK g : /\ g = [i \in 0 .. Len(f) |-> IF i = 0 THEN Root ELSE Down(g[i - 1], f[i])]
                 /\ NodeAt(f) = g[Len(f)]
    BY <1>1, <1>2, NodeAtWay
  <1>5. g[0] = Root /\ NodeAt(f) = g[L] BY <1>1, <1>2, <1>4
  <1>6. \A i \in 1 .. L : g[i] = IF g[i - 1] = None THEN None ELSE children[g[i - 1]][f[i]]
    BY <1>1, <1>2, <1>4 DEF Down
  <1> DEFINE reaches(i) == /\ g[i] \in 0 .. nodes /\ Linked(g[i]) /\ Len(path[g[i]]) = i /\ Under(path[g[i]], f)
  <1>7. reaches(0)
    <2>1. path[Root] = <<>> /\ Len(<<>>) = 0 BY DEF IInv, TreeOK
    <2>2. QED BY <1>3, <1>5, <2>1, UnderEmpty DEF Linked
  <1>8. ASSUME NEW i \in 1 .. L, reaches(i - 1), g[i] # None PROVE reaches(i)
    <2>1. PICK n, l, k : n = g[i - 1] /\ l = f[i] /\ k = g[i] OBVIOUS
    <2>2. n \in 0 .. nodes /\ n \in Node /\ n # None /\ l \in Level /\ Len(path[n]) = i - 1 /\ Under(path[n], f)
          /\ path[n] \in Seq(Level)
      BY <1>2, <1>3, <1>8, <2>1
    <2>3. k = children[n][l] /\ k # None BY <1>6, <1>8, <2>1, <2>2
    <2>4. Linked(k) /\ k \in 0 .. nodes /\ path[k] = Append(path[n], l) BY <1>3, <2>2, <2>3, ChildLinked
    <2>5. Len(path[n]) < Len(f) /\ Len(path[n]) + 1 = i BY <1>1, <1>2, <2>2
    <2>6. Under(path[k], f) /\ Len(path[k]) = i BY <2>1, <2>2, <2>4, <2>5, UnderAppend, AppendIs
    <2>7. QED BY <2>1, <2>4, <2>6
  <1>9. ASSUME g[L] # None PROVE reaches(L)
    <2> DEFINE T == {i \in 0 .. L : g[i] # None /\ ~reaches(i)}
    <2>1. T = {}
      <3> SUFFICES ASSUME T # {} PROVE FALSE OBVIOUS
      <3>1. T \subseteq Nat BY <1>2
      <3>2. PICK x : x \in T /\ \A y \in T : x <= y
        <4> HIDE DEF T
        <4>1. QED BY <3>1, LeastOf
      <3>3. x \in 0 .. L /\ g[x] # None /\ ~reaches(x) BY <3>2
      <3>4. x # 0 BY <1>7, <3>3
      <3>5. x \in 1 .. L /\ x - 1 \in 0 .. L /\ ~(x <= x - 1) BY <1>2, <3>3, <3>4
      <3>6. g[x - 1] # None BY <1>6, <3>3, <3>5
      <3>7. reaches(x - 1)
        <4>1. x - 1 \notin T BY <3>2, <3>5
        <4>2. QED BY <3>5, <3>6, <4>1
      <3>8. QED BY <1>8, <3>3, <3>5, <3>7
    <2>2. QED BY <1>2, <1>9, <2>1
  <1>10. ASSUME NEW m \in 0 .. nodes, Linked(m), path[m] = f, NEW i \in 1 .. L, reaches(i - 1)
         PROVE  g[i] # None
    <2> SUFFICES ASSUME g[i] = None PROVE FALSE OBVIOUS
    <2>1. PICK n : n = g[i - 1] OBVIOUS
    <2>2. n \in 0 .. nodes /\ n # None /\ Linked(n) /\ Len(path[n]) = i - 1 /\ Under(path[n], f)
      BY <1>3, <1>10, <2>1
    <2>3. children[n][f[i]] = None BY <1>6, <2>1, <2>2
    <2>4. Len(path[n]) + 1 = i /\ Len(path[n]) < Len(f) BY <1>1, <1>2, <2>2
    <2>5. QED BY <1>10, <2>2, <2>3, <2>4, WayBroken
  <1>11. ASSUME NEW m \in 0 .. nodes, Linked(m), path[m] = f PROVE g[L] # None
    <2> DEFINE T == {i \in 0 .. L : ~reaches(i)}
    <2>1. T = {}
      <3> SUFFICES ASSUME T # {} PROVE FALSE OBVIOUS
      <3>1. T \subseteq Nat BY <1>2
      <3>2. PICK x : x \in T /\ \A y \in T : x <= y
        <4> HIDE DEF T
        <4>1. QED BY <3>1, LeastOf
      <3>3. x \in 0 .. L /\ ~reaches(x) BY <3>2
      <3>4. x # 0 BY <1>7, <3>3
      <3>5. x \in 1 .. L /\ x - 1 \in 0 .. L /\ ~(x <= x - 1) BY <1>2, <3>3, <3>4
      <3>6. reaches(x - 1)
        <4>1. x - 1 \notin T BY <3>2, <3>5
        <4>2. QED BY <3>5, <4>1
      <3>7. g[x] # None BY <1>10, <1>11, <3>5, <3>6
      <3>8. QED BY <1>8, <3>3, <3>5, <3>6, <3>7
    <2>2. reaches(L) BY <1>2, <2>1
    <2>3. QED BY <1>3, <2>2
  <1>12. g[L] # None => g[L] \in 0 .. nodes /\ Linked(g[L]) /\ path[g[L]] = f
    <2> SUFFICES ASSUME g[L] # None PROVE g[L] \in 0 .. nodes /\ Linked(g[L]) /\ path[g[L]] = f OBVIOUS
    <2>1. PICK n : n = g[L] OBVIOUS
    <2>2. n \in 0 .. nodes /\ Linked(n) /\ Len(path[n]) = L /\ Under(path[n], f) BY <1>9, <2>1
    <2>3. path[n] = f BY <1>1, <1>3, <2>2, UnderAll
    <2>4. QED BY <2>1, <2>2, <2>3
  <1>13. ASSUME NEW m \in 0 .. nodes, Linked(m), path[m] = f PROVE g[L] = m
    <2>1. PICK n : n = g[L] OBVIOUS
    <2>2. n \in 0 .. nodes /\ Linked(n) /\ path[n] = f BY <1>11, <1>12, <1>13, <2>1
    <2>3. n = m BY <1>13, <2>2 DEF LinkOK
    <2>4. QED BY <2>1, <2>3
  <1>14. QED BY <1>5, <1>12, <1>13
-----------------------------------------------------------------------------
(* The steps of insertions, apart from removals *)

\* The walker goes on; the tree and what the nodes hold stay as they are.
LEMMA InserterKept ==
  ASSUME IInv, Apart, NEW w \in Walker, OthersStay(w), op'[w] = op[w], want'[w] = want[w],
         UNCHANGED <<treeVars, remove, subs, retained, held, kept>>,
         pc[w] \in InsertSteps \cup {"collect"}, pc'[w] \in InsertSteps \cup {"collect", "answer"},
         pc'[w] \in Subscribed => pc[w] \in {"release", "collect"},
         InsertAt(w)'
  PROVE  Apart'
  <1>1. op[w] \in Inserts
    <2>1. RequestOK(w) BY DEF IInv, WalkOK
    <2>2. QED BY <2>1 DEF RequestOK, Inserts
  <1>2. \A v \in Walker : op[v] \notin Removes \cup {"replace"} /\ pc[v] \notin RemoveSteps
    BY <1>1, InsertersOnly DEF Apart
  <1>3. pc'[w] \notin RemoveSteps BY DEF InsertSteps, RemoveSteps
  <1>4. \A n : (Linked(n)' <=> Linked(n)) /\ Slot(n)' = Slot(n) BY LinkedSame
  <1>5. Created' = Created /\ nodes' = nodes /\ path' = path /\ parent' = parent BY DEF treeVars, Created
  <1>6. PhaseOK' BY PhaseKept DEF Apart
  <1>7. LinkOK' BY <1>5, LinkedSame DEF Apart, LinkOK, Linked, Slot, treeVars
  <1>8. ContentOK'
    <2>1. \A c \in Client : pc[c] # "delete" BY <1>2 DEF Walker, RemoveSteps
    <2>2. QED BY <1>4, <1>5, <2>1 DEF Apart, ContentOK
  <1>9. InsertOK'
    <2>1. ASSUME NEW v \in Walker \ {w} PROVE InsertAt(v)'
      <3>1. InsertAt(v) /\ pc'[v] = pc[v] /\ at'[v] = at[v] /\ kid'[v] = kid[v]
        BY DEF Apart, InsertOK, OthersStay
      <3>2. QED BY <3>1 DEF InsertAt, Linked, Slot, treeVars
    <2>2. QED BY <2>1 DEF InsertOK
  <1>10. RemoveOK' BY <1>2, <1>3 DEF RemoveOK, RemoveAt, OthersStay
  <1>11. MarkOK'
    <2>1. \A v \in Walker : pc[v] \notin Ending BY <1>2 DEF Ending, RemoveSteps
    <2>2. QED BY <1>4, <1>5, <2>1 DEF Apart, MarkOK
  <1>12. SubsOK'
    <2>1. pc'[w] \in Subscribed => pc[w] \in Subscribed BY DEF Subscribed
    <2>2. SubsOK BY DEF Apart
    <2>3. QED BY <1>4, <1>5, <2>1, <2>2, SubsKept
  <1>13. RetainedOK'
    <2>1. \A t \in Topic, m \in Message \cup {None} : RetainedIs(t, m) => RetainedIs(t, m)' BY RetainedSame
    <2>2. op[w] # "clear" /\ pc'[w] \notin Cleared /\ pc[w] # "idle" BY <1>1, <1>3 DEF Inserts, Cleared, RemoveSteps, InsertSteps
    <2>3. w = Retainer /\ op[w] = "store" /\ pc'[w] \in {"release", "answer"} => pc[w] = "release"
      <3>1. pc[w] = "collect" => op[w] = "subscribe" BY DEF IInv, WalkOK, RequestOK
      <3>2. QED BY <3>1 DEF Subscribed
    <2>4. RetainedOK BY DEF Apart
    <2>5. QED BY <2>1, <2>2, <2>3, <2>4, RetainedKept
  <1>14. QED BY <1>6, <1>7, <1>8, <1>9, <1>10, <1>11, <1>12, <1>13 DEF Apart

\* A walker that stays where it is.
LEMMA InserterStays ==
  ASSUME IInv, Apart, NEW w \in Walker, OthersStay(w), op'[w] = op[w], want'[w] = want[w],
         at'[w] = at[w], kid'[w] = kid[w],
         UNCHANGED <<treeVars, remove, subs, retained, held, kept>>,
         pc[w] \in InsertSteps \cup {"collect"}, pc'[w] \in InsertSteps \cup {"collect", "answer"},
         pc'[w] \in HasKid => pc[w] \in HasKid, pc[w] = "collect" => pc'[w] \notin InsertSteps,
         pc'[w] \in Subscribed => pc[w] \in {"release", "collect"}
  PROVE  Apart'
  <1>1. InsertAt(w) BY DEF Apart, InsertOK
  <1>2. InsertAt(w)' BY <1>1 DEF InsertAt, Linked, Slot, treeVars
  <1>3. QED BY <1>2, InserterKept

LEMMA RaiseApart == ASSUME IInv, Apart, NEW w \in Walker, Raise(w) PROVE Apart'
  <1>1. /\ pc[w] = "raise" /\ pc'[w] = "load" /\ OthersStay(w) /\ at'[w] = at[w] /\ kid'[w] = kid[w]
        /\ op'[w] = op[w] /\ want'[w] = want[w]
    BY DEF Raise, Goto, IInv, Types, WalkTypes, OthersStay
  <1>2. UNCHANGED <<treeVars, remove, subs, retained, held, kept>> BY DEF Raise, clientVars
  <1>3. QED BY <1>1, <1>2, InserterStays DEF InsertSteps, HasKid, Subscribed

LEMMA LoadChildApart == ASSUME IInv, Apart, NEW w \in Walker, LoadChild(w) PROVE Apart'
  <1>1. PICK n : n = children[at[w]][NextLevel(w)] OBVIOUS
  <1>2. /\ pc[w] = "load" /\ pc'[w] = "count" /\ OthersStay(w) /\ at'[w] = at[w] /\ kid'[w] = n /\ n # None
        /\ op'[w] = op[w] /\ want'[w] = want[w]
    BY <1>1 DEF LoadChild, Goto, IInv, Types, WalkTypes, OthersStay
  <1>3. UNCHANGED <<treeVars, remove, subs, retained, held, kept>> BY DEF LoadChild, countVars, clientVars
  <1>4. Linked(n) BY <1>1, <1>2, WalkerFacts, ChildLinked DEF Descends
  <1>5. Linked(at[w]) BY <1>2 DEF Apart, InsertOK, InsertAt, InsertSteps
  <1>6. InsertAt(w)' BY <1>2, <1>3, <1>4, <1>5 DEF InsertAt, Linked, Slot, treeVars
  <1>7. QED BY <1>2, <1>3, <1>6, InserterKept DEF InsertSteps, Subscribed

LEMMA CountApart == ASSUME IInv, Apart, NEW w \in Walker, Count(w) PROVE Apart'
  <1>1. /\ pc[w] = "count" /\ pc'[w] \in {"lower", "enter"} /\ OthersStay(w) /\ at'[w] = at[w] /\ kid'[w] = kid[w]
        /\ op'[w] = op[w] /\ want'[w] = want[w]
    BY DEF Count, Goto, IInv, Types, WalkTypes, OthersStay
  <1>2. UNCHANGED <<treeVars, remove, subs, retained, held, kept>> BY DEF Count, clientVars
  <1>3. QED BY <1>1, <1>2, InserterStays DEF InsertSteps, HasKid, Subscribed

LEMMA LowerApart == ASSUME IInv, Apart, NEW w \in Walker, Lower(w) PROVE Apart'
  <1>1. /\ pc[w] = "lower" /\ pc'[w] = "check" /\ OthersStay(w) /\ at'[w] = at[w] /\ kid'[w] = kid[w]
        /\ op'[w] = op[w] /\ want'[w] = want[w]
    BY DEF Lower, Goto, IInv, Types, WalkTypes, OthersStay
  <1>2. UNCHANGED <<treeVars, remove, subs, retained, held, kept>> BY DEF Lower, clientVars
  <1>3. QED BY <1>1, <1>2, InserterStays DEF InsertSteps, HasKid, Subscribed

LEMMA CheckRemoveApart == ASSUME IInv, Apart, NEW w \in Walker, CheckRemove(w) PROVE Apart'
  <1>1. /\ pc[w] = "check" /\ pc'[w] \in {"back", "enter"} /\ OthersStay(w) /\ at'[w] = at[w] /\ kid'[w] = kid[w]
        /\ op'[w] = op[w] /\ want'[w] = want[w]
    BY DEF CheckRemove, Goto, IInv, Types, WalkTypes, OthersStay
  <1>2. UNCHANGED <<treeVars, remove, subs, retained, held, kept>> BY DEF CheckRemove, countVars, clientVars
  <1>3. QED BY <1>1, <1>2, InserterStays DEF InsertSteps, HasKid, Subscribed

LEMMA BackOffApart == ASSUME IInv, Apart, NEW w \in Walker, BackOff(w) PROVE Apart'
  <1>1. /\ pc[w] = "back" /\ pc'[w] = "wait" /\ OthersStay(w) /\ at'[w] = at[w] /\ kid'[w] = kid[w]
        /\ op'[w] = op[w] /\ want'[w] = want[w]
    BY DEF BackOff, Goto, IInv, Types, WalkTypes, OthersStay
  <1>2. UNCHANGED <<treeVars, remove, subs, retained, held, kept>> BY DEF BackOff, clientVars
  <1>3. QED BY <1>1, <1>2, InserterStays DEF InsertSteps, HasKid, Subscribed

LEMMA WaitDeletedApart == ASSUME IInv, Apart, NEW w \in Walker, WaitDeleted(w) PROVE Apart'
  <1>1. /\ pc[w] = "wait" /\ pc'[w] = "raise" /\ OthersStay(w) /\ at'[w] = at[w] /\ kid'[w] = kid[w]
        /\ op'[w] = op[w] /\ want'[w] = want[w]
    BY DEF WaitDeleted, Goto, IInv, Types, WalkTypes, OthersStay
  <1>2. UNCHANGED <<treeVars, remove, subs, retained, held, kept>> BY DEF WaitDeleted, countVars, clientVars
  <1>3. QED BY <1>1, <1>2, InserterStays DEF InsertSteps, HasKid, Subscribed

LEMMA EnterApart == ASSUME IInv, Apart, NEW w \in Walker, Enter(w) PROVE Apart'
  <1>1. /\ pc[w] = "enter" /\ pc'[w] \in {"leaf", "raise"} /\ OthersStay(w) /\ at'[w] = kid[w] /\ kid'[w] = kid[w]
        /\ op'[w] = op[w] /\ want'[w] = want[w]
    BY DEF Enter, Goto, IInv, Types, WalkTypes, OthersStay
  <1>2. UNCHANGED <<treeVars, remove, subs, retained, held, kept>> BY DEF Enter, clientVars
  <1>3. Linked(kid[w]) BY <1>1 DEF Apart, InsertOK, InsertAt, InsertSteps, HasKid
  <1>4. InsertAt(w)' BY <1>1, <1>2, <1>3 DEF InsertAt, HasKid, Linked, Slot, treeVars
  <1>5. QED BY <1>1, <1>2, <1>4, InserterKept DEF InsertSteps, Subscribed

LEMMA ReleaseLeafApart == ASSUME IInv, Apart, NEW w \in Walker, ReleaseLeaf(w) PROVE Apart'
  <1>1. /\ pc[w] = "release" /\ pc'[w] \in {"collect", "answer"} /\ OthersStay(w) /\ at'[w] = at[w] /\ kid'[w] = kid[w]
        /\ op'[w] = op[w] /\ want'[w] = want[w]
    BY DEF ReleaseLeaf, BeginSearch, Goto, IInv, Types, WalkTypes, OthersStay
  <1>2. UNCHANGED <<treeVars, remove, subs, retained, held, kept>> BY DEF ReleaseLeaf, clientVars
  <1>3. QED BY <1>1, <1>2, InserterStays DEF InsertSteps, HasKid

LEMMA CollectApart ==
  ASSUME IInv, Apart, NEW c \in Client, NEW step, NEW next, Collect(c, step, next)
  PROVE  Apart'
  <1>1. c \in Walker BY DEF Walker
  <1>2. /\ pc[c] = "collect" /\ pc'[c] \in {"collect", "answer"} /\ OthersStay(c) /\ at'[c] = at[c] /\ kid'[c] = kid[c]
        /\ op'[c] = op[c] /\ want'[c] = want[c]
    BY <1>1 DEF Collect, Goto, IInv, Types, WalkTypes, OthersStay
  <1>3. UNCHANGED <<treeVars, remove, subs, retained, held, kept>> BY DEF Collect, countVars, clientVars
  <1>4. QED BY <1>1, <1>2, <1>3, InserterStays DEF InsertSteps, HasKid

LEMMA StoreChildApart == ASSUME IInv, Apart, NEW w \in Walker, StoreChild(w) PROVE Apart'
  <1>0. PICK a, l, k : a = at[w] /\ l = NextLevel(w) /\ k = nodes + 1 OBVIOUS
  <1>1. /\ pc[w] = "load" /\ pc'[w] = "count" /\ OthersStay(w)
        /\ at'[w] = a /\ op'[w] = op[w] /\ want'[w] = want[w] /\ kid'[w] = k
    BY <1>0 DEF StoreChild, Goto, IInv, Types, WalkTypes, OthersStay
  <1>2. UNCHANGED <<subsCount, kidsCount, remove, subs, retained, held, kept>> BY DEF StoreChild, countVars, clientVars
  <1>3. /\ nodes \in Nat /\ nodes < MaxNodes /\ nodes' = k /\ k \in Node /\ k \notin 0 .. nodes /\ k \in (0 .. nodes)'
        /\ a \in 0 .. nodes /\ a \in Node /\ l \in Level /\ children[a][l] = None
        /\ 0 .. nodes \subseteq Node /\ 0 .. nodes \subseteq (0 .. nodes)' /\ Created \subseteq 0 .. nodes
        /\ Created' = Created \cup {k} /\ (0 .. nodes)' = (0 .. nodes) \cup {k} /\ None \notin Node
    <2>1. a \in 0 .. nodes /\ a \in Node /\ l \in Level
      BY <1>0, <1>1, WalkerFacts DEF IInv, WalkOK, PlaceOK, Descends
    <2>2. nodes \in Nat /\ MaxNodes \in Nat /\ None \notin Node /\ 0 .. nodes \subseteq Node
      BY NodeFacts, TopicTreeAssumption DEF IInv, Types, TopicTreeAssumption
    <2>3. nodes < MaxNodes /\ nodes' = k /\ children[a][l] = None BY <1>0 DEF StoreChild
    <2>4. QED BY <1>0, <2>1, <2>2, <2>3 DEF Node, Root, Created
  <1>4. /\ path[a] \in Seq(Level) /\ path \in [Node -> Seq(Level)]
        /\ parent \in [Node -> Node \cup {None}] /\ children \in [Node -> [Level -> Node \cup {None}]]
    BY <1>0, WalkerFacts DEF IInv, Types, TreeTypes
  <1>5. /\ path' = [path EXCEPT ![k] = Append(path[a], l)]
        /\ parent' = [parent EXCEPT ![k] = a]
        /\ children' = [children EXCEPT ![a][l] = k]
    BY <1>0, <1>3 DEF StoreChild
  <1>6. op[w] \in Inserts BY <1>1 DEF IInv, WalkOK, RequestOK, InsertSteps
  <1>7. Linked(a) BY <1>0, <1>1 DEF Apart, InsertOK, InsertAt, InsertSteps
  <1>8. /\ path'[k] = Append(path[a], l) /\ parent'[k] = a
        /\ \A n \in 0 .. nodes : n # k /\ n \in Node /\ path'[n] = path[n] /\ parent'[n] = parent[n]
        /\ \A n \in Node, j \in Level : children'[n][j] = IF n = a /\ j = l THEN k ELSE children[n][j]
    BY <1>3, <1>4, <1>5
  <1>9. Append(path[a], l) # <<>> /\ Append(path[a], l)[Len(Append(path[a], l))] = l BY <1>3, <1>4, AppendIs
  <1>10. Linked(k)' BY <1>3, <1>8, <1>9 DEF Linked, Slot
  <1>11. \A n \in 0 .. nodes : Linked(n)' <=> Linked(n)
    <2> SUFFICES ASSUME NEW n \in 0 .. nodes, n # Root PROVE Linked(n)' <=> Linked(n) BY DEF Linked
    <2>1. PICK p, j : p = parent[n] /\ j = path[n][Len(path[n])] OBVIOUS
    <2>2. p \in Node /\ j \in Level
      <3>1. n \in Created BY NodeFacts DEF IInv, Types
      <3>2. PICK i \in Level : p \in 0 .. n - 1 /\ path[n] = Append(path[p], i) BY <2>1, <3>1 DEF IInv, TreeOK
      <3>3. p \in Node BY <3>1, <3>2, <1>3 DEF Created
      <3>4. path[p] \in Seq(Level) BY <3>3, <1>4
      <3>5. QED BY <2>1, <3>2, <3>3, <3>4, AppendIs
    <2>3. (Linked(n) <=> children[p][j] = n) /\ (Linked(n)' <=> children'[p][j] = n)
      BY <1>8, <2>1 DEF Linked, Slot
    <2>4. QED BY <1>3, <1>8, <2>2, <2>3
  <1>12. ASSUME NEW n \in 0 .. nodes, Linked(n), path[n] = Append(path[a], l) PROVE FALSE
    <2>1. n \in Created BY <1>9, <1>12, NodeFacts DEF IInv, Types, TreeOK
    <2>2. PICK j \in Level : parent[n] \in 0 .. n - 1 /\ path[n] = Append(path[parent[n]], j)
      BY <2>1 DEF IInv, TreeOK
    <2>3. parent[n] \in 0 .. nodes /\ parent[n] \in Node BY <2>1, <2>2, <1>3 DEF Created
    <2>4. path[parent[n]] = path[a] /\ j = l
      <3>1. PICK p, q : p = path[parent[n]] /\ q = path[a] OBVIOUS
      <3>2. p \in Seq(Level) /\ q \in Seq(Level) /\ Append(p, j) = Append(q, l)
        BY <1>3, <1>4, <1>12, <2>2, <2>3, <3>1
      <3>3. p = q /\ j = l BY <1>3, <3>2, AppendParts
      <3>4. QED BY <3>1, <3>3
    <2>5. Linked(parent[n]) BY <2>1 DEF Apart, LinkOK
    <2>6. parent[n] = a BY <1>3, <1>7, <2>3, <2>4, <2>5 DEF Apart, LinkOK
    <2>7. Slot(n) = n BY <1>12, <2>1 DEF Linked, Root, Created
    <2>8. children[a][l] = n BY <1>9, <1>12, <2>6, <2>7 DEF Slot
    <2>9. QED BY <1>3, <2>8
  <1>13. \A v \in Walker : op[v] \notin Removes \cup {"replace"} /\ pc[v] \notin RemoveSteps
    BY <1>6, InsertersOnly DEF Apart
  <1>14. PhaseOK' BY <1>1, PhaseKept DEF Apart
  <1>15. LinkOK'
    <2>1. ASSUME NEW n \in Created'
          PROVE  parent'[n] \in 0 .. nodes /\ Linked(parent'[n])
      <3>1. CASE n = k BY <3>1, <1>3, <1>7, <1>8
      <3>2. CASE n # k
        <4>1. n \in Created /\ n \in 0 .. nodes BY <3>2, <1>3
        <4>2. parent[n] \in 0 .. n - 1 BY <4>1 DEF IInv, TreeOK
        <4>3. parent[n] \in 0 .. nodes BY <4>1, <4>2, <1>3 DEF Created
        <4>4. Linked(parent[n]) BY <4>1 DEF Apart, LinkOK
        <4>5. QED BY <4>1, <4>3, <4>4, <1>8
      <3>3. QED BY <3>1, <3>2
    <2>2. ASSUME NEW n \in Created' PROVE \E m : m = parent'[n] /\ Linked(m)' BY <1>11, <2>1
    <2>3. ASSUME NEW m \in (0 .. nodes)', NEW n \in (0 .. nodes)', Linked(m)', Linked(n)', path'[m] = path'[n]
          PROVE  m = n
      <3>0. \A b \in 0 .. nodes : Linked(b)' => path'[b] # path'[k] BY <1>8, <1>11, <1>12
      <3>1. CASE m = k /\ n = k BY <3>1
      <3>2. CASE m # k /\ n = k BY <3>0, <3>2, <1>3, <2>3
      <3>3. CASE m = k /\ n # k BY <3>0, <3>3, <1>3, <2>3
      <3>4. CASE m # k /\ n # k
        <4>1. m \in 0 .. nodes /\ n \in 0 .. nodes BY <1>3, <3>4
        <4>2. QED BY <4>1, <1>8, <1>11, <2>3 DEF Apart, LinkOK
      <3>5. QED BY <3>1, <3>2, <3>3, <3>4
    <2>4. \A n \in Created' : Linked(parent[n])' BY <2>2 DEF Linked, Slot
    <2>5. QED BY <2>3, <2>4 DEF LinkOK
  <1>16. ContentOK'
    <2>1. \A c \in Client : pc[c] # "delete" BY <1>13 DEF Walker, RemoveSteps
    <2>2. QED BY <1>2, <1>3, <1>11, <2>1 DEF Apart, ContentOK
  <1>17. InsertOK'
    <2>1. ASSUME NEW v \in Walker \ {w} PROVE InsertAt(v)'
      <3>1. PICK b, c : b = at[v] /\ c = kid[v] OBVIOUS
      <3>2. b \in 0 .. nodes /\ c \in 0 .. nodes BY <3>1 DEF IInv, WalkOK, PlaceOK
      <3>3. pc[v] \in InsertSteps => Linked(b)' /\ (pc[v] \in HasKid => Linked(c)')
        BY <1>11, <3>1, <3>2 DEF Apart, InsertOK, InsertAt
      <3>4. pc'[v] = pc[v] /\ at'[v] = b /\ kid'[v] = c BY <1>1, <3>1 DEF OthersStay
      <3>5. QED BY <3>3, <3>4 DEF InsertAt, Linked, Slot
    <2>2. InsertAt(w)'
      <3>1. Linked(a)' /\ Linked(k)' BY <1>3, <1>7, <1>10, <1>11
      <3>2. QED BY <1>1, <3>1 DEF InsertAt, Linked, Slot
    <2>3. QED BY <2>1, <2>2 DEF InsertOK
  <1>18. RemoveOK' BY <1>1, <1>13 DEF RemoveOK, RemoveAt, OthersStay, RemoveSteps
  <1>19. MarkOK'
    <2>1. \A v \in Walker : pc[v] \notin Ending BY <1>13 DEF Ending, RemoveSteps
    <2>2. QED BY <1>2, <1>3, <1>11, <2>1 DEF Apart, MarkOK
  <1>20. SubsOK'
    <2>1. SubsOK /\ pc'[w] \notin Subscribed BY <1>1 DEF Apart, Subscribed
    <2>2. QED BY <1>1, <1>2, <1>3, <1>8, <1>11, <2>1, SubsKept
  <1>21. RetainedOK'
    <2>1. ASSUME NEW t \in Topic, NEW m \in Message \cup {None}, RetainedIs(t, m) PROVE RetainedIs(t, m)'
      <3>1. ASSUME m # None PROVE \E n \in (0 .. nodes)' : Linked(n)' /\ path'[n] = t
        BY <1>3, <1>8, <1>11, <2>1, <3>1 DEF RetainedIs
      <3>2. ASSUME NEW n \in (0 .. nodes)', Linked(n)', path'[n] = t PROVE retained'[n] = m
        <4>1. CASE n = k
          <5>1. m = None BY <1>8, <1>12, <2>1, <3>2, <4>1 DEF RetainedIs
          <5>2. retained[k] = None BY <1>3 DEF Apart, ContentOK
          <5>3. QED BY <1>2, <4>1, <5>1, <5>2
        <4>2. CASE n # k
          <5>1. n \in 0 .. nodes BY <1>3, <4>2
          <5>2. QED BY <5>1, <1>2, <1>8, <1>11, <2>1, <3>2 DEF RetainedIs
        <4>3. QED BY <4>1, <4>2
      <3>3. QED BY <3>1, <3>2 DEF RetainedIs
    <2>2. RetainedOK BY DEF Apart
    <2>3. QED BY <1>1, <1>2, <2>1, <2>2, RetainedKept DEF Cleared
  <1>22. QED BY <1>14, <1>15, <1>16, <1>17, <1>18, <1>19, <1>20, <1>21 DEF Apart

LEMMA StoreSubApart == ASSUME IInv, Apart, NEW w \in Walker, StoreSub(w) PROVE Apart'
  <1>1. /\ pc[w] = "leaf" /\ op[w] = "subscribe" /\ OthersStay(w) /\ pc'[w] \in {"release", "collect"}
        /\ at'[w] = at[w] /\ kid'[w] = kid[w] /\ op'[w] = op[w] /\ want'[w] = want[w]
    BY DEF StoreSub, BeginSearch, Goto, IInv, Types, WalkTypes, OthersStay
  <1>2. UNCHANGED <<treeVars, subsCount, kidsCount, remove, retained, held, kept>>
    BY DEF StoreSub, countVars, clientVars
  <1>3. /\ w \in Client /\ at[w] \in Node /\ at[w] \in 0 .. nodes /\ Linked(at[w]) /\ path[at[w]] = want[w]
    BY <1>1, WalkerFacts DEF IInv, WalkOK, RequestOK, PlaceOK, AtEnd, Apart, InsertOK, InsertAt, InsertSteps
  <1>4. \A n \in Node : subs'[n] = IF n = at[w] THEN subs[n] \cup {w} ELSE subs[n]
    BY <1>3 DEF StoreSub, IInv, Types, NodeTypes
  <1>5. \A n : (Linked(n)' <=> Linked(n)) /\ Slot(n)' = Slot(n) BY <1>2, LinkedSame
  <1>6. Created' = Created /\ nodes' = nodes /\ path' = path /\ parent' = parent BY <1>2 DEF treeVars, Created
  <1>7. \A v \in Walker : op[v] \notin Removes \cup {"replace"} /\ pc[v] \notin RemoveSteps
    BY <1>1, InsertersOnly DEF Apart, Inserts
  <1>8. PhaseOK' BY <1>1, PhaseKept DEF Apart
  <1>9. LinkOK' BY <1>2, <1>6, LinkedSame DEF Apart, LinkOK, Linked, Slot, treeVars
  <1>10. ContentOK'
    <2>1. \A c \in Client : pc[c] # "delete" BY <1>7 DEF Walker, RemoveSteps
    <2>2. \A n \in Node, c \in Client : c \in subs'[n] => n \in 0 .. nodes /\ Linked(n)
      BY <1>3, <1>4, <2>1 DEF Apart, ContentOK
    <2>3. QED BY <1>2, <1>5, <1>6, <2>2 DEF Apart, ContentOK
  <1>11. InsertOK'
    <2>1. ASSUME NEW v \in Walker PROVE InsertAt(v)'
      <3>1. InsertAt(v) /\ at'[v] = at[v] /\ kid'[v] = kid[v] /\ (pc'[v] \in InsertSteps => pc[v] \in InsertSteps)
            /\ (pc'[v] \in HasKid => pc[v] \in HasKid)
        BY <1>1 DEF Apart, InsertOK, OthersStay, InsertSteps, HasKid
      <3>2. QED BY <1>2, <3>1 DEF InsertAt, Linked, Slot, treeVars
    <2>2. QED BY <2>1 DEF InsertOK
  <1>12. RemoveOK' BY <1>1, <1>7 DEF RemoveOK, RemoveAt, OthersStay, RemoveSteps
  <1>13. MarkOK'
    <2>1. \A v \in Walker : pc[v] \notin Ending BY <1>7 DEF Ending, RemoveSteps
    <2>2. QED BY <1>2, <1>5, <1>6, <2>1 DEF Apart, MarkOK
  <1>14. SubsOK'
    <2>1. \E n \in (0 .. nodes)' : Linked(n)' /\ path'[n] = want[w] /\ w \in subs'[n]
      <3>1. PICK n : n = at[w] OBVIOUS
      <3>2. n \in (0 .. nodes)' /\ Linked(n)' /\ path'[n] = want[w] /\ w \in subs'[n] BY <1>3, <1>4, <1>5, <1>6, <3>1
      <3>3. QED BY <3>2
    <2>2. SubsOK /\ 0 .. nodes \subseteq Node BY NodeFacts DEF Apart, IInv, Types
    <2>3. \A n \in 0 .. nodes, c \in Client : c \in subs[n] => c \in subs'[n] BY <1>4, <2>2
    <2>4. QED BY <1>1, <1>2, <1>5, <1>6, <2>1, <2>2, <2>3, SubsKept
  <1>15. RetainedOK'
    <2>1. \A t \in Topic, m \in Message \cup {None} : RetainedIs(t, m) => RetainedIs(t, m)' BY <1>2, RetainedSame
    <2>2. RetainedOK /\ w # Retainer BY <1>3, TopicTreeAssumption DEF Apart, TopicTreeAssumption
    <2>3. QED BY <1>1, <1>2, <2>1, <2>2, RetainedKept
  <1>16. QED BY <1>8, <1>9, <1>10, <1>11, <1>12, <1>13, <1>14, <1>15 DEF Apart

LEMMA StoreRetainedApart == ASSUME IInv, Apart, NEW w \in Walker, StoreRetained(w) PROVE Apart'
  <1>1. /\ pc[w] = "leaf" /\ op[w] = "store" /\ OthersStay(w) /\ pc'[w] = "release"
        /\ at'[w] = at[w] /\ kid'[w] = kid[w] /\ op'[w] = op[w] /\ want'[w] = want[w]
    BY DEF StoreRetained, Goto, IInv, Types, WalkTypes, OthersStay
  <1>2. UNCHANGED <<treeVars, subsCount, kidsCount, remove, subs, held, kept>>
    BY DEF StoreRetained, countVars, clientVars
  <1>3. /\ w = Retainer /\ at[w] \in Node /\ at[w] \in 0 .. nodes /\ Linked(at[w]) /\ path[at[w]] = want[w]
        /\ want[w] \in Topic
    BY <1>1, WalkerFacts DEF IInv, WalkOK, RequestOK, PlaceOK, AtEnd, Apart, InsertOK, InsertAt, InsertSteps
  <1>4. PICK f, m, a : f = want[w] /\ m = kept[f] /\ a = at[w] OBVIOUS
  <1>5. \A n \in Node : retained'[n] = IF n = a THEN m ELSE retained[n]
    BY <1>3, <1>4 DEF StoreRetained, IInv, Types, NodeTypes
  <1>6. \A n : (Linked(n)' <=> Linked(n)) /\ Slot(n)' = Slot(n) BY <1>2, LinkedSame
  <1>7. Created' = Created /\ nodes' = nodes /\ path' = path /\ parent' = parent BY <1>2 DEF treeVars, Created
  <1>8. 0 .. nodes \subseteq Node BY NodeFacts DEF IInv, Types
  <1>9. \A v \in Walker : op[v] \notin Removes \cup {"replace"} /\ pc[v] \notin RemoveSteps
    BY <1>1, InsertersOnly DEF Apart, Inserts
  <1>10. \A n \in 0 .. nodes : Linked(n) /\ path[n] = f <=> n = a BY <1>3, <1>4 DEF Apart, LinkOK
  <1>11. PhaseOK' BY <1>1, PhaseKept DEF Apart
  <1>12. LinkOK' BY <1>2, <1>7, LinkedSame DEF Apart, LinkOK, Linked, Slot, treeVars
  <1>13. ContentOK'
    <2>1. \A c \in Client : pc[c] # "delete" BY <1>9 DEF Walker, RemoveSteps
    <2>2. \A n \in Node : retained'[n] # None => n \in 0 .. nodes /\ Linked(n)
      BY <1>3, <1>4, <1>5 DEF Apart, ContentOK
    <2>3. QED BY <1>2, <1>6, <1>7, <2>1, <2>2 DEF Apart, ContentOK
  <1>14. InsertOK'
    <2>1. ASSUME NEW v \in Walker PROVE InsertAt(v)'
      <3>1. InsertAt(v) /\ at'[v] = at[v] /\ kid'[v] = kid[v] /\ (pc'[v] \in InsertSteps => pc[v] \in InsertSteps)
            /\ (pc'[v] \in HasKid => pc[v] \in HasKid)
        BY <1>1 DEF Apart, InsertOK, OthersStay, InsertSteps, HasKid
      <3>2. QED BY <1>2, <3>1 DEF InsertAt, Linked, Slot, treeVars
    <2>2. QED BY <2>1 DEF InsertOK
  <1>15. RemoveOK' BY <1>1, <1>9 DEF RemoveOK, RemoveAt, OthersStay, RemoveSteps
  <1>16. MarkOK'
    <2>1. \A v \in Walker : pc[v] \notin Ending BY <1>9 DEF Ending, RemoveSteps
    <2>2. QED BY <1>2, <1>6, <1>7, <2>1 DEF Apart, MarkOK
  <1>17. SubsOK'
    <2>1. SubsOK BY DEF Apart
    <2>2. QED BY <1>1, <1>2, <1>6, <1>7, <2>1, SubsKept
  <1>18. RetainedOK'
    <2>1. ASSUME NEW t \in Topic, f # t PROVE RetainedIs(t, kept[t])'
      <3>1. RetainedIs(t, kept[t]) BY <1>3, <1>4, <2>1 DEF Apart, RetainedOK
      <3>2. \A n \in 0 .. nodes : path[n] = t => retained'[n] = retained[n] BY <1>3, <1>4, <1>5, <1>8, <2>1
      <3>3. QED BY <1>2, <1>6, <1>7, <3>1, <3>2 DEF RetainedIs
    <2>2. RetainedIs(f, kept[f])'
      <3>1. \A n \in 0 .. nodes : Linked(n) /\ path[n] = f => retained'[n] = m BY <1>3, <1>4, <1>5, <1>8, <1>10
      <3>2. \E n \in 0 .. nodes : Linked(n) /\ path[n] = f BY <1>3, <1>4
      <3>3. QED BY <1>2, <1>4, <1>6, <1>7, <3>1, <3>2 DEF RetainedIs
    <2>3. want'[Retainer] = f /\ op'[Retainer] = "store" /\ pc'[Retainer] = "release" BY <1>1, <1>3, <1>4
    <2>4. QED BY <2>1, <2>2, <2>3 DEF RetainedOK, RetainedIs, Cleared
  <1>19. QED BY <1>11, <1>12, <1>13, <1>14, <1>15, <1>16, <1>17, <1>18 DEF Apart
-----------------------------------------------------------------------------
(* The steps of removals, apart from insertions *)

\* A node whose subscriptions are not counted any more.
LEMMA EmptyNode ==
  ASSUME IInv, NEW n \in Node, subsCount[n] = 0, NEW c \in Client, c \in subs[n]
  PROVE  pc[c] = "delete" /\ at[c] = n
  <1>1. PICK d, s, h : d = Cardinality(Deleting(n)) /\ s = Cardinality(subs[n]) /\ h = Cardinality(Holding(n))
    OBVIOUS
  <1>2. IsFiniteSet(Deleting(n)) /\ IsFiniteSet(Holding(n)) BY Finite, FS_Subset DEF Deleting, Holding
  <1>3. IsFiniteSet(subs[n]) /\ s \in Nat BY <1>1, SubsFinite DEF IInv, Types
  <1>4. d \in Nat /\ h \in Nat BY <1>1, <1>2, FS_CardinalityType
  <1>5. subsCount[n] + d = s + h BY <1>1 DEF IInv, CountOK
  <1>6. Deleting(n) \subseteq subs[n]
    <2>1. \A v \in Walker : PlaceOK(v) BY DEF IInv, WalkOK
    <2>2. QED BY <2>1 DEF Deleting, Deletes, PlaceOK
  <1>7. d <= s BY <1>1, <1>3, <1>6, FS_Subset
  <1>8. d = s BY <1>3, <1>4, <1>5, <1>7
  <1>9. Deleting(n) = subs[n] BY <1>1, <1>3, <1>6, <1>8, FS_Subset
  <1>10. QED BY <1>9 DEF Deleting, Deletes

\* A node that counts no children never had any.
LEMMA Childless ==
  ASSUME IInv, NEW n \in Node, kidsCount[n] = 0, NEW k \in Created
  PROVE  parent[k] # n
  <1> SUFFICES ASSUME parent[k] = n PROVE FALSE OBVIOUS
  <1>1. PICK a, b : a = Cardinality(Kids(n)) /\ b = Cardinality(Raising(n)) OBVIOUS
  <1>2. IsFiniteSet(Kids(n)) /\ a \in Nat BY <1>1, KidsFinite DEF IInv, Types
  <1>3. b \in Nat
    <2>1. IsFiniteSet(Raising(n)) BY Finite, FS_Subset DEF Raising
    <2>2. QED BY <1>1, <2>1, FS_CardinalityType
  <1>4. kidsCount[n] >= a + b BY <1>1 DEF IInv, CountOK
  <1>5. a = 0 BY <1>2, <1>3, <1>4
  <1>6. Kids(n) = {} BY <1>1, <1>2, <1>5, FS_EmptySet
  <1>7. QED BY <1>6 DEF Kids

\* While one removes nobody inserts.
LEMMA RemovalOnly ==
  ASSUME IInv, Apart, NEW w \in Walker, OthersStay(w), pc[w] \in RemoveSteps, pc'[w] \in RemoveSteps \cup {"answer"}
  PROVE  op[w] \in Removes \cup {"replace"} /\ InsertOK'
  <1>1. op[w] \in Removes \cup {"replace"} BY DEF IInv, WalkOK, RequestOK
  <1>2. \A v \in Walker : pc[v] \notin InsertSteps BY <1>1, RemoversOnly DEF Apart
  <1>3. pc'[w] \notin InsertSteps BY DEF RemoveSteps, InsertSteps
  <1>4. \A v \in Walker : pc'[v] \notin InsertSteps BY <1>2, <1>3 DEF OthersStay
  <1>5. QED BY <1>1, <1>4 DEF InsertOK, InsertAt

LEMMA RemoveKept ==
  ASSUME IInv, Apart, NEW w \in Walker, OthersStay(w), UNCHANGED <<treeVars, kidsCount>>,
         \A n \in Node : subsCount[n] = 0 => subsCount'[n] = 0,
         \A n \in Node : retained[n] = None => retained'[n] = None,
         RemoveAt(w)'
  PROVE  RemoveOK'
  <1> SUFFICES ASSUME NEW v \in Walker \ {w} PROVE RemoveAt(v)' BY DEF RemoveOK
  <1>1. PICK n : n = at[v] OBVIOUS
  <1>2. n \in Node BY <1>1 DEF IInv, Types, WalkTypes
  <1>3. at'[v] = n /\ pc'[v] = pc[v] BY <1>1 DEF OthersStay
  <1>4. RemoveAt(v) BY DEF Apart, RemoveOK
  <1>5. (Linked(n)' <=> Linked(n)) /\ Slot(n)' = Slot(n) BY LinkedSame
  <1>6. pc[v] \in RemoveSteps =>
          /\ Linked(n)' \/ Slot(n)' = None
          /\ pc[v] \in EmptySteps => subsCount'[n] = 0
          /\ pc[v] \in EmptySteps \ {"kids"} => kidsCount'[n] = 0
          /\ pc[v] \in EmptySteps \ {"kids", "retained"} => retained'[n] = None
    BY <1>1, <1>2, <1>4, <1>5 DEF RemoveAt
  <1>7. QED BY <1>3, <1>6 DEF RemoveAt, Linked, Slot

LEMMA MarkKept ==
  ASSUME IInv, MarkOK, NEW w \in Walker, OthersStay(w), UNCHANGED <<treeVars, remove>>,
         pc[w] \in Ending => at'[w] = at[w] /\ (pc'[w] \in Ending \/ at[w] = Root)
  PROVE  MarkOK'
  <1> SUFFICES ASSUME NEW n \in Node \ {Root}, remove[n]
               PROVE  n \in Created /\ (~Linked(n) \/ \E v \in Walker : pc'[v] \in Ending /\ at'[v] = n)
    BY LinkedSame DEF MarkOK
  <1>1. n \in Created /\ (~Linked(n) \/ \E v \in Walker : pc[v] \in Ending /\ at[v] = n) BY DEF MarkOK
  <1>2. \A v \in Walker : pc[v] \in Ending /\ at[v] = n => pc'[v] \in Ending /\ at'[v] = n BY DEF OthersStay
  <1>3. QED BY <1>1, <1>2

\* The walker goes on; the tree and what the nodes hold stay as they are.
LEMMA RemoverKept ==
  ASSUME IInv, Apart, NEW w \in Walker, OthersStay(w), op'[w] = op[w], want'[w] = want[w],
         UNCHANGED <<treeVars, kidsCount, subs, retained, held, kept>>,
         \A n \in Node : subsCount[n] = 0 => subsCount'[n] = 0,
         pc[w] \in RemoveSteps, pc[w] # "delete", pc'[w] \in RemoveSteps \cup {"answer"},
         RemoveAt(w)', MarkOK',
         w = Retainer /\ ((op[w] = "clear" /\ pc'[w] = "answer") \/ pc'[w] \in Cleared)
           => pc[w] \in Cleared \/ RetainedIs(want[w], None)
  PROVE  Apart'
  <1>1. op[w] \in Removes \cup {"replace"} /\ InsertOK' BY RemovalOnly
  <1>2. \A n : (Linked(n)' <=> Linked(n)) /\ Slot(n)' = Slot(n) BY LinkedSame
  <1>3. Created' = Created /\ nodes' = nodes /\ path' = path /\ parent' = parent BY DEF treeVars, Created
  <1>4. PhaseOK' BY PhaseKept DEF Apart
  <1>5. LinkOK' BY <1>3, LinkedSame DEF Apart, LinkOK, Linked, Slot, treeVars
  <1>6. ContentOK'
    <2>1. \A c \in Client : \A n : pc[c] = "delete" /\ at[c] = n => pc'[c] = "delete" /\ at'[c] = n
      BY DEF OthersStay, Walker
    <2>2. QED BY <1>2, <1>3, <2>1 DEF Apart, ContentOK
  <1>7. RemoveOK' BY RemoveKept
  <1>8. SubsOK'
    <2>1. SubsOK /\ op[w] # "subscribe" BY <1>1 DEF Apart, Removes
    <2>2. QED BY <1>2, <1>3, <2>1, SubsKept
  <1>9. RetainedOK'
    <2>1. \A t \in Topic, m \in Message \cup {None} : RetainedIs(t, m) => RetainedIs(t, m)' BY RetainedSame
    <2>2. RetainedOK /\ op[w] # "store" /\ pc[w] # "idle" BY <1>1 DEF Apart, Removes, RemoveSteps
    <2>3. QED BY <2>1, <2>2, RetainedKept
  <1>10. QED BY <1>1, <1>4, <1>5, <1>6, <1>7, <1>8, <1>9 DEF Apart

LEMMA SeekApart == ASSUME IInv, Apart, NEW w \in Walker, Seek(w) PROVE Apart'
  <1>1. PICK n, a, f : n = children[at[w]][NextLevel(w)] /\ a = at[w] /\ f = want[w] OBVIOUS
  <1>2. /\ pc[w] = "seek" /\ OthersStay(w) /\ op'[w] = op[w] /\ want'[w] = want[w]
        /\ n = None => at'[w] = a /\ pc'[w] \in {"again", "answer"}
        /\ n # None => at'[w] = n /\ pc'[w] \in {"found", "seek"}
    BY <1>1 DEF Seek, Goto, IInv, Types, WalkTypes, OthersStay
  <1>3. UNCHANGED <<treeVars, remove, kidsCount, subsCount, subs, retained, held, kept>>
    BY DEF Seek, countVars, clientVars
  <1>4. /\ a \in 0 .. nodes /\ a \in Node /\ f \in Seq(Level) /\ NextLevel(w) = f[Len(path[a]) + 1]
        /\ Under(path[a], f) /\ Len(path[a]) < Len(f) /\ NextLevel(w) \in Level
    BY <1>1, <1>2, WalkerFacts DEF IInv, WalkOK, PlaceOK, Descends, NextLevel
  <1>5. Linked(a) \/ Slot(a) = None BY <1>1, <1>2 DEF Apart, RemoveOK, RemoveAt, RemoveSteps
  <1>6. n # None => Linked(n) BY <1>1, <1>4, ChildLinked
  <1>7. n = None => RetainedIs(f, None)
    <2> SUFFICES ASSUME n = None, NEW m \in 0 .. nodes, Linked(m), path[m] = f PROVE FALSE BY DEF RetainedIs
    <2>1. children[a][f[Len(path[a]) + 1]] = None BY <1>1, <1>4
    <2>2. QED BY <1>4, <1>5, <2>1, WayBroken DEF Apart
  <1>8. RemoveAt(w)' BY <1>2, <1>3, <1>5, <1>6, LinkedSame DEF RemoveAt, EmptySteps, Linked, Slot, treeVars
  <1>9. MarkOK' BY <1>2, <1>3, MarkKept DEF Apart, Ending
  <1>10. pc'[w] \in RemoveSteps \cup {"answer"} /\ pc[w] \in RemoveSteps /\ pc[w] # "delete" BY <1>2 DEF RemoveSteps
  <1>11. (op[w] = "clear" /\ pc'[w] = "answer") \/ pc'[w] \in Cleared => RetainedIs(want[w], None)
    BY <1>1, <1>2, <1>7 DEF Cleared
  <1>12. QED BY <1>2, <1>3, <1>8, <1>9, <1>10, <1>11, RemoverKept

LEMMA LoadSubApart == ASSUME IInv, Apart, NEW w \in Walker, LoadSub(w) PROVE Apart'
  <1>1. /\ pc[w] = "found" /\ pc'[w] \in {"uncount", "subs"} /\ op[w] = "unsubscribe" /\ OthersStay(w)
        /\ op'[w] = op[w] /\ want'[w] = want[w] /\ at'[w] = at[w]
    BY DEF LoadSub, Goto, IInv, Types, WalkTypes, OthersStay
  <1>2. UNCHANGED <<treeVars, remove, kidsCount, subsCount, subs, retained, held, kept>>
    BY DEF LoadSub, countVars, clientVars
  <1>3. RemoveAt(w) /\ w # Retainer
    <2>1. w \in Client BY <1>1 DEF IInv, WalkOK, RequestOK
    <2>2. QED BY <2>1, TopicTreeAssumption DEF TopicTreeAssumption, Apart, RemoveOK
  <1>4. RemoveAt(w)' BY <1>1, <1>2, <1>3 DEF RemoveAt, RemoveSteps, EmptySteps, Linked, Slot, treeVars
  <1>5. MarkOK' BY <1>1, <1>2, MarkKept DEF Apart, Ending
  <1>6. pc'[w] \in RemoveSteps \cup {"answer"} /\ pc[w] \in RemoveSteps /\ pc[w] # "delete" BY <1>1 DEF RemoveSteps
  <1>7. QED BY <1>1, <1>2, <1>3, <1>4, <1>5, <1>6, RemoverKept

LEMMA UncountApart == ASSUME IInv, Apart, NEW w \in Walker, Uncount(w) PROVE Apart'
  <1>1. /\ pc[w] = "uncount" /\ pc'[w] = "delete" /\ OthersStay(w)
        /\ op'[w] = op[w] /\ want'[w] = want[w] /\ at'[w] = at[w]
    BY DEF Uncount, Goto, IInv, Types, WalkTypes, OthersStay
  <1>2. UNCHANGED <<treeVars, remove, kidsCount, subs, retained, held, kept>> BY DEF Uncount, clientVars
  <1>3. \A n \in Node : subsCount[n] = 0 => subsCount'[n] = 0
    <2>1. \A n \in Node : subsCount[n] \in Nat /\ subsCount'[n] \in Nat BY UncountStep DEF IInv, Types, NodeTypes
    <2>2. \A n \in Node : subsCount'[n] = IF n = at[w] THEN subsCount[n] - 1 ELSE subsCount[n]
      BY DEF Uncount, Sub, IInv, Types, NodeTypes
    <2>3. QED BY <2>1, <2>2
  <1>4. RemoveAt(w) /\ w # Retainer
    <2>1. w \in Client BY <1>1 DEF IInv, WalkOK, RequestOK
    <2>2. QED BY <2>1, TopicTreeAssumption DEF TopicTreeAssumption, Apart, RemoveOK
  <1>5. RemoveAt(w)' BY <1>1, <1>2, <1>4 DEF RemoveAt, RemoveSteps, EmptySteps, Linked, Slot, treeVars
  <1>6. MarkOK' BY <1>1, <1>2, MarkKept DEF Apart, Ending
  <1>7. pc'[w] \in RemoveSteps \cup {"answer"} /\ pc[w] \in RemoveSteps /\ pc[w] # "delete" BY <1>1 DEF RemoveSteps
  <1>8. QED BY <1>1, <1>2, <1>3, <1>4, <1>5, <1>6, <1>7, RemoverKept

\* The way up is linked.
LEMMA GoesUpAt ==
  ASSUME IInv, Apart, NEW w \in Walker, pc[w] \in RemoveSteps, GoesUp(w), UNCHANGED treeVars
  PROVE  RemoveAt(w)'
  <1>1. CASE at[w] # Root /\ at'[w] = parent[at[w]] /\ pc'[w] = "subs"
    <2>1. PICK p : p = parent[at[w]] OBVIOUS
    <2>2. Linked(p) BY <1>1, <2>1, Upward DEF Apart, LinkOK
    <2>3. QED BY <1>1, <2>1, <2>2 DEF RemoveAt, EmptySteps, Linked, Slot, treeVars
  <1>2. CASE at'[w] = at[w] /\ pc'[w] = IF op[w] = "replace" THEN "again" ELSE "answer"
    <2>1. RemoveAt(w) /\ pc'[w] \notin EmptySteps BY <1>2 DEF Apart, RemoveOK, EmptySteps
    <2>2. QED BY <1>2, <2>1 DEF RemoveAt, EmptySteps, Linked, Slot, treeVars
  <1>3. QED BY <1>1, <1>2 DEF GoesUp

LEMMA LooksEmptyApart == ASSUME IInv, Apart, NEW w \in Walker, LooksEmpty(w) PROVE Apart'
  <1>1. /\ pc[w] \in {"subs", "kids", "retained"} /\ OthersStay(w) /\ op'[w] = op[w] /\ want'[w] = want[w]
        /\ \/ pc[w] = "subs" /\ pc'[w] = "kids" /\ subsCount[at[w]] = 0 /\ at'[w] = at[w]
           \/ pc[w] = "kids" /\ pc'[w] = "retained" /\ kidsCount[at[w]] = 0 /\ at'[w] = at[w]
           \/ pc[w] = "retained" /\ pc'[w] = "hold" /\ retained[at[w]] = None /\ at'[w] = at[w]
           \/ GoesUp(w)
    BY DEF LooksEmpty, Look, Up, GoesUp, Goto, IInv, Types, WalkTypes, OthersStay
  <1>2. UNCHANGED <<treeVars, remove, kidsCount, subsCount, subs, retained, held, kept>>
    BY DEF LooksEmpty, Look, countVars, clientVars
  <1>3. RemoveAt(w) BY DEF Apart, RemoveOK
  <1>4. pc[w] \in RemoveSteps /\ pc[w] # "delete" /\ pc[w] \in Cleared /\ pc[w] \notin Ending
    BY <1>1 DEF RemoveSteps, Cleared, Ending
  <1>5. RemoveAt(w)' /\ pc'[w] \in RemoveSteps \cup {"answer"}
    <2>1. CASE GoesUp(w)
      <3>1. pc'[w] \in RemoveSteps \cup {"answer"} BY <2>1 DEF GoesUp, RemoveSteps
      <3>2. QED BY <1>2, <1>4, <2>1, <3>1, GoesUpAt
    <2>2. CASE ~GoesUp(w)
      BY <1>1, <1>2, <1>3, <2>2 DEF RemoveAt, RemoveSteps, EmptySteps, Linked, Slot, treeVars
    <2>3. QED BY <2>1, <2>2
  <1>6. MarkOK' BY <1>1, <1>2, <1>4, MarkKept DEF Apart
  <1>7. QED BY <1>1, <1>2, <1>4, <1>5, <1>6, RemoverKept

\* What was found empty is empty still: the removal is not given up.
LEMMA StillEmptyApart == ASSUME IInv, Apart, NEW w \in Walker, StillEmpty(w) PROVE Apart'
  <1>1. RemoveAt(w) BY DEF Apart, RemoveOK
  <1>2. /\ pc[w] \in {"subsAgain", "kidsAgain", "retainedAgain"} /\ OthersStay(w) /\ op'[w] = op[w] /\ want'[w] = want[w]
        /\ at'[w] = at[w]
        /\ \/ pc[w] = "subsAgain" /\ pc'[w] = IF subsCount[at[w]] = 0 THEN "kidsAgain" ELSE "letGo"
           \/ pc[w] = "kidsAgain" /\ pc'[w] = IF kidsCount[at[w]] = 0 THEN "retainedAgain" ELSE "letGo"
           \/ pc[w] = "retainedAgain" /\ pc'[w] = IF retained[at[w]] = None THEN "cut" ELSE "letGo"
    BY DEF StillEmpty, Look, Goto, IInv, Types, WalkTypes, OthersStay
  <1>3. UNCHANGED <<treeVars, remove, kidsCount, subsCount, subs, retained, held, kept>>
    BY DEF StillEmpty, Look, countVars, clientVars
  <1>4. subsCount[at[w]] = 0 /\ kidsCount[at[w]] = 0 /\ retained[at[w]] = None
    BY <1>1, <1>2 DEF RemoveAt, RemoveSteps, EmptySteps
  <1>5. pc'[w] \in {"kidsAgain", "retainedAgain", "cut"} BY <1>2, <1>4
  <1>6. RemoveAt(w)' BY <1>1, <1>2, <1>3, <1>4 DEF RemoveAt, RemoveSteps, EmptySteps, Linked, Slot, treeVars
  <1>7. MarkOK' BY <1>2, <1>3, <1>5, MarkKept DEF Apart, Ending
  <1>8. pc[w] \in RemoveSteps /\ pc[w] # "delete" /\ pc[w] \in Cleared /\ pc'[w] \in RemoveSteps \cup {"answer"}
    BY <1>2, <1>5 DEF RemoveSteps, Cleared
  <1>9. QED BY <1>2, <1>3, <1>6, <1>7, <1>8, RemoverKept

LEMMA HoldDeletedApart == ASSUME IInv, Apart, NEW w \in Walker, HoldDeleted(w) PROVE Apart'
  <1>1. /\ pc[w] = "hold" /\ pc'[w] = "mark" /\ OthersStay(w)
        /\ op'[w] = op[w] /\ want'[w] = want[w] /\ at'[w] = at[w]
    BY DEF HoldDeleted, Goto, IInv, Types, WalkTypes, OthersStay
  <1>2. UNCHANGED <<treeVars, remove, kidsCount, subsCount, subs, retained, held, kept>> BY DEF HoldDeleted, clientVars
  <1>3. RemoveAt(w) BY DEF Apart, RemoveOK
  <1>4. RemoveAt(w)' BY <1>1, <1>2, <1>3 DEF RemoveAt, RemoveSteps, EmptySteps, Linked, Slot, treeVars
  <1>5. MarkOK' BY <1>1, <1>2, MarkKept DEF Apart, Ending
  <1>6. pc[w] \in RemoveSteps /\ pc[w] # "delete" /\ pc[w] \in Cleared /\ pc'[w] \in RemoveSteps \cup {"answer"}
    BY <1>1 DEF RemoveSteps, Cleared
  <1>7. QED BY <1>1, <1>2, <1>4, <1>5, <1>6, RemoverKept

LEMMA MarkApart == ASSUME IInv, Apart, NEW w \in Walker, Mark(w) PROVE Apart'
  <1>1. /\ pc[w] = "mark" /\ pc'[w] = "subsAgain" /\ OthersStay(w)
        /\ op'[w] = op[w] /\ want'[w] = want[w] /\ at'[w] = at[w]
    BY DEF Mark, Goto, IInv, Types, WalkTypes, OthersStay
  <1>2. UNCHANGED <<treeVars, kidsCount, subsCount, subs, retained, held, kept>> BY DEF Mark, clientVars
  <1>3. RemoveAt(w) BY DEF Apart, RemoveOK
  <1>4. RemoveAt(w)' BY <1>1, <1>2, <1>3 DEF RemoveAt, RemoveSteps, EmptySteps, Linked, Slot, treeVars
  <1>5. MarkOK'
    <2> SUFFICES ASSUME NEW n \in Node \ {Root}, remove'[n]
                 PROVE  n \in Created /\ (~Linked(n) \/ \E v \in Walker : pc'[v] \in Ending /\ at'[v] = n)
      BY <1>2, LinkedSame DEF MarkOK
    <2>1. CASE n = at[w]
      <3>1. n \in Created BY <2>1, Upward
      <3>2. QED BY <1>1, <2>1, <3>1 DEF Ending
    <2>2. CASE n # at[w]
      <3>1. remove[n] BY <2>2 DEF Mark, IInv, Types, NodeTypes
      <3>2. n \in Created /\ (~Linked(n) \/ \E v \in Walker : pc[v] \in Ending /\ at[v] = n)
        BY <3>1 DEF Apart, MarkOK
      <3>3. \A v \in Walker : pc[v] \in Ending /\ at[v] = n => pc'[v] \in Ending /\ at'[v] = n
        BY <1>1, <2>2 DEF OthersStay
      <3>4. QED BY <3>2, <3>3
    <2>3. QED BY <2>1, <2>2
  <1>6. pc[w] \in RemoveSteps /\ pc[w] # "delete" /\ pc[w] \in Cleared /\ pc'[w] \in RemoveSteps \cup {"answer"}
    BY <1>1 DEF RemoveSteps, Cleared
  <1>7. QED BY <1>1, <1>2, <1>4, <1>5, <1>6, RemoverKept

LEMMA LetGoApart == ASSUME IInv, Apart, NEW w \in Walker, LetGo(w) PROVE Apart'
  <1>1. pc[w] = "letGo" /\ OthersStay(w) /\ GoesUp(w) /\ op'[w] = op[w] /\ want'[w] = want[w]
    BY DEF LetGo, Up, GoesUp, Goto, IInv, Types, WalkTypes, OthersStay
  <1>2. UNCHANGED <<treeVars, remove, kidsCount, subsCount, subs, retained, held, kept>> BY DEF LetGo, clientVars
  <1>3. pc[w] \in RemoveSteps /\ pc[w] # "delete" /\ pc[w] \in Cleared /\ pc'[w] \in RemoveSteps \cup {"answer"}
    BY <1>1 DEF GoesUp, RemoveSteps, Cleared
  <1>4. RemoveAt(w)' BY <1>1, <1>2, <1>3, GoesUpAt
  <1>5. MarkOK' BY <1>1, <1>2, MarkKept DEF Apart, Ending
  <1>6. QED BY <1>1, <1>2, <1>3, <1>4, <1>5, RemoverKept

LEMMA DeleteSubApart == ASSUME IInv, Apart, NEW w \in Walker, DeleteSub(w) PROVE Apart'
  <1>1. /\ pc[w] = "delete" /\ pc'[w] = "subs" /\ OthersStay(w)
        /\ op'[w] = op[w] /\ want'[w] = want[w] /\ at'[w] = at[w]
    BY DEF DeleteSub, Goto, IInv, Types, WalkTypes, OthersStay
  <1>2. UNCHANGED <<treeVars, remove, kidsCount, subsCount, retained, held, kept>>
    BY DEF DeleteSub, countVars, clientVars
  <1>3. w \in Client /\ op[w] = "unsubscribe" /\ path[at[w]] = want[w] /\ w # Retainer
    <2>1. w \in Client /\ op[w] = "unsubscribe" /\ path[at[w]] = want[w]
      BY <1>1 DEF IInv, WalkOK, RequestOK, PlaceOK, AtEnd
    <2>2. QED BY <2>1, TopicTreeAssumption DEF TopicTreeAssumption
  <1>4. \A n \in Node : subs'[n] = IF n = at[w] THEN subs[n] \ {w} ELSE subs[n]
    BY DEF DeleteSub, Others, IInv, Types, NodeTypes
  <1>5. pc[w] \in RemoveSteps /\ pc'[w] \in RemoveSteps \cup {"answer"} BY <1>1 DEF RemoveSteps
  <1>6. \A n : (Linked(n)' <=> Linked(n)) /\ Slot(n)' = Slot(n) BY <1>2, LinkedSame
  <1>7. Created' = Created /\ nodes' = nodes /\ path' = path /\ parent' = parent BY <1>2 DEF treeVars, Created
  <1>8. InsertOK' BY <1>1, <1>5, RemovalOnly
  <1>9. PhaseOK' BY <1>1, PhaseKept DEF Apart
  <1>10. LinkOK' BY <1>2, <1>7, LinkedSame DEF Apart, LinkOK, Linked, Slot, treeVars
  <1>11. ContentOK'
    <2>1. ASSUME NEW n \in Node, NEW c \in Client, c \in subs'[n]
          PROVE  n \in 0 .. nodes /\ (Linked(n) \/ (pc'[c] = "delete" /\ at'[c] = n))
      <3>1. n \in 0 .. nodes /\ (Linked(n) \/ (pc[c] = "delete" /\ at[c] = n))
        BY <1>4, <2>1 DEF Apart, ContentOK
      <3>2. c = w => n # at[w] BY <1>4, <2>1
      <3>3. c # w => pc'[c] = pc[c] /\ at'[c] = at[c] BY <1>1 DEF OthersStay, Walker
      <3>4. QED BY <3>1, <3>2, <3>3
    <2>2. QED BY <1>2, <1>6, <1>7, <2>1 DEF Apart, ContentOK
  <1>12. RemoveOK'
    <2>1. RemoveAt(w) BY DEF Apart, RemoveOK
    <2>2. RemoveAt(w)' BY <1>1, <1>2, <2>1 DEF RemoveAt, RemoveSteps, EmptySteps, Linked, Slot, treeVars
    <2>3. QED BY <1>1, <1>2, <2>2, RemoveKept
  <1>13. MarkOK' BY <1>1, <1>2, MarkKept DEF Apart, Ending
  <1>14. SubsOK'
    <2>1. 0 .. nodes \subseteq Node BY NodeFacts DEF IInv, Types
    <2>2. ASSUME NEW n \in 0 .. nodes, NEW c \in Client, Linked(n), c \in subs[n],
                 ~(op[c] = "unsubscribe" /\ want[c] = path[n])
          PROVE  c \in subs'[n]
      <3>1. ~(c = w /\ n = at[w]) BY <1>3, <2>2
      <3>2. QED BY <1>4, <2>1, <2>2, <3>1
    <2>3. SubsOK BY DEF Apart
    <2>4. QED BY <1>1, <1>2, <1>3, <1>6, <1>7, <2>2, <2>3, SubsKept
  <1>15. RetainedOK'
    <2>1. \A t \in Topic, m \in Message \cup {None} : RetainedIs(t, m) => RetainedIs(t, m)' BY <1>2, RetainedSame
    <2>2. RetainedOK BY DEF Apart
    <2>3. QED BY <1>1, <1>2, <1>3, <2>1, <2>2, RetainedKept
  <1>16. QED BY <1>8, <1>9, <1>10, <1>11, <1>12, <1>13, <1>14, <1>15 DEF Apart

LEMMA ClearRetainedApart == ASSUME IInv, Apart, NEW w \in Walker, ClearRetained(w) PROVE Apart'
  <1>1. /\ pc[w] = "found" /\ pc'[w] = "subs" /\ OthersStay(w) /\ op[w] \in {"clear", "replace"}
        /\ op'[w] = op[w] /\ want'[w] = want[w] /\ at'[w] = at[w]
    BY DEF ClearRetained, Goto, IInv, Types, WalkTypes, OthersStay
  <1>2. UNCHANGED <<treeVars, remove, kidsCount, subsCount, subs, held, kept>>
    BY DEF ClearRetained, countVars, clientVars
  <1>3. PICK f, a : f = want[w] /\ a = at[w] OBVIOUS
  <1>4. w = Retainer /\ path[a] = f /\ f \in Topic /\ a \in 0 .. nodes /\ a \in Node
    BY <1>1, <1>3, WalkerFacts DEF IInv, WalkOK, RequestOK, PlaceOK, AtEnd
  <1>5. \A n \in Node : retained'[n] = IF n = a THEN None ELSE retained[n]
    BY <1>3 DEF ClearRetained, IInv, Types, NodeTypes
  <1>6. pc[w] \in RemoveSteps /\ pc'[w] \in RemoveSteps \cup {"answer"} BY <1>1 DEF RemoveSteps
  <1>7. \A n : (Linked(n)' <=> Linked(n)) /\ Slot(n)' = Slot(n) BY <1>2, LinkedSame
  <1>8. Created' = Created /\ nodes' = nodes /\ path' = path /\ parent' = parent BY <1>2 DEF treeVars, Created
  <1>9. 0 .. nodes \subseteq Node BY NodeFacts DEF IInv, Types
  <1>10. RemoveAt(w) BY DEF Apart, RemoveOK
  <1>11. InsertOK' BY <1>1, <1>6, RemovalOnly
  <1>12. PhaseOK' BY <1>1, PhaseKept DEF Apart
  <1>13. LinkOK' BY <1>2, <1>8, LinkedSame DEF Apart, LinkOK, Linked, Slot, treeVars
  <1>14. ContentOK'
    <2>1. \A c \in Client : \A n : pc[c] = "delete" /\ at[c] = n => pc'[c] = "delete" /\ at'[c] = n
      BY <1>1 DEF OthersStay, Walker
    <2>2. QED BY <1>2, <1>5, <1>7, <1>8, <2>1 DEF Apart, ContentOK
  <1>15. RemoveOK'
    <2>1. RemoveAt(w)' BY <1>1, <1>2, <1>10 DEF RemoveAt, RemoveSteps, EmptySteps, Linked, Slot, treeVars
    <2>2. QED BY <1>1, <1>2, <1>5, <2>1, RemoveKept
  <1>16. MarkOK' BY <1>1, <1>2, MarkKept DEF Apart, Ending
  <1>17. SubsOK'
    <2>1. SubsOK BY DEF Apart
    <2>2. QED BY <1>1, <1>2, <1>7, <1>8, <2>1, SubsKept
  <1>18. RetainedOK'
    <2>1. ASSUME NEW t \in Topic, f # t PROVE RetainedIs(t, kept[t])'
      <3>1. RetainedIs(t, kept[t]) BY <1>3, <1>4, <2>1 DEF Apart, RetainedOK
      <3>2. \A n \in 0 .. nodes : path[n] = t => retained'[n] = retained[n] BY <1>4, <1>5, <1>9, <2>1
      <3>3. QED BY <1>2, <1>7, <1>8, <3>1, <3>2 DEF RetainedIs
    <2>2. RetainedIs(f, None)'
      <3>1. ASSUME NEW n \in 0 .. nodes, Linked(n), path[n] = f PROVE n = a
        <4>1. Linked(a) \/ Slot(a) = None BY <1>1, <1>3, <1>10 DEF RemoveAt, RemoveSteps
        <4>2. CASE Linked(a) BY <1>4, <3>1, <4>2 DEF Apart, LinkOK
        <4>3. CASE ~Linked(a)
          <5>1. a # Root /\ Slot(a) = None BY <4>1, <4>3 DEF Linked
          <5>2. QED BY <1>4, <3>1, <5>1, FreePlace DEF Apart
        <4>4. QED BY <4>2, <4>3
      <3>2. QED BY <1>4, <1>5, <1>7, <1>8, <3>1 DEF RetainedIs
    <2>3. op[Retainer] = "clear" => kept[f] = None BY <1>3, <1>4 DEF Apart, RetainedOK
    <2>4. want'[Retainer] = f /\ op'[Retainer] = op[Retainer] /\ op'[Retainer] # "store" /\ kept' = kept
      BY <1>1, <1>2, <1>3, <1>4
    <2>5. QED BY <2>1, <2>2, <2>3, <2>4 DEF RetainedOK, RetainedIs
  <1>19. QED BY <1>11, <1>12, <1>13, <1>14, <1>15, <1>16, <1>17, <1>18 DEF Apart

LEMMA AgainApart == ASSUME IInv, Apart, NEW w \in Walker, Again(w) PROVE Apart'
  <1>1. /\ pc[w] = "again" /\ pc'[w] = "raise" /\ OthersStay(w) /\ op'[w] = "store"
        /\ want'[w] = want[w] /\ at'[w] = Root
    BY DEF Again, Goto, IInv, Types, WalkTypes, OthersStay
  <1>2. UNCHANGED <<treeVars, remove, kidsCount, subsCount, subs, retained, held, kept>>
    BY DEF Again, countVars, clientVars
  <1>3. op[w] = "replace" /\ w = Retainer /\ w \notin Client
    <2>1. op[w] = "replace" /\ w = Retainer BY <1>1 DEF IInv, WalkOK, RequestOK
    <2>2. QED BY <2>1, TopicTreeAssumption DEF TopicTreeAssumption
  <1>4. \A v \in Walker \ {w} : op[v] = "none" /\ pc[v] = "idle"
    <2>1. \A v \in Walker \ {w} : op[v] = "none" BY <1>3 DEF Apart, PhaseOK, Inserts, Removes
    <2>2. QED BY <2>1 DEF IInv, WalkOK, RequestOK
  <1>5. \A v \in Walker \ {w} : op'[v] = "none" /\ pc'[v] = "idle" BY <1>1, <1>4 DEF OthersStay
  <1>6. \A n : (Linked(n)' <=> Linked(n)) /\ Slot(n)' = Slot(n) BY <1>2, LinkedSame
  <1>7. Created' = Created /\ nodes' = nodes /\ path' = path /\ parent' = parent BY <1>2 DEF treeVars, Created
  <1>8. PhaseOK' BY <1>5 DEF PhaseOK
  <1>9. LinkOK' BY <1>2, <1>7, LinkedSame DEF Apart, LinkOK, Linked, Slot, treeVars
  <1>10. ContentOK'
    <2>1. \A c \in Client : pc[c] # "delete" BY <1>3, <1>4 DEF Walker
    <2>2. QED BY <1>2, <1>6, <1>7, <2>1 DEF Apart, ContentOK
  <1>11. InsertOK' BY <1>1, <1>5 DEF InsertOK, InsertAt, InsertSteps, HasKid, Linked
  <1>12. RemoveOK' BY <1>1, <1>5 DEF RemoveOK, RemoveAt, RemoveSteps
  <1>13. MarkOK'
    <2>1. \A v \in Walker : pc[v] \notin Ending BY <1>1, <1>4 DEF Ending
    <2>2. QED BY <1>2, <1>6, <1>7, <2>1 DEF Apart, MarkOK
  <1>14. SubsOK'
    <2>1. \A c \in Client : op'[c] = op[c] /\ want'[c] = want[c] /\ op'[c] # "subscribe"
      BY <1>1, <1>3, <1>5 DEF OthersStay, Walker
    <2>2. Settled' = Settled BY <1>2, <2>1 DEF Settled
    <2>3. \A x \in Settled : Stands(x[1], x[2])' BY <1>2, <1>6, <1>7 DEF Apart, SubsOK, Stands
    <2>4. QED BY <2>1, <2>2, <2>3 DEF SubsOK, Stands
  <1>15. RetainedOK'
    <2>1. ASSUME NEW t \in Topic, want[Retainer] # t PROVE RetainedIs(t, kept[t])'
      <3>1. RetainedIs(t, kept[t]) BY <2>1 DEF Apart, RetainedOK
      <3>2. QED BY <1>2, <1>6, <1>7, <3>1 DEF RetainedIs
    <2>2. want'[Retainer] = want[Retainer] /\ op'[Retainer] = "store" /\ pc'[Retainer] = "raise" BY <1>1, <1>3
    <2>3. QED BY <2>1, <2>2 DEF RetainedOK, RetainedIs, Cleared
  <1>16. QED BY <1>8, <1>9, <1>10, <1>11, <1>12, <1>13, <1>14, <1>15 DEF Apart

\* What is cut off is at most the node itself, and nothing is below it.
LEMMA CutLinks ==
  ASSUME IInv, Apart, NEW w \in Walker, Cut(w), pc[w] = "cut", NEW n, n = at[w], n # Root
  PROVE  /\ \A m \in 0 .. nodes : Linked(m)' <=> Linked(m) /\ m # n
         /\ \A m \in 0 .. nodes : m # Root /\ Slot(m) = None => Slot(m)' = None
         /\ Slot(n)' = None
  <1>1. PICK p, l : p = parent[n] /\ l = path[n][Len(path[n])] OBVIOUS
  <1>2. n \in Created /\ n # Root /\ n \in 0 .. nodes /\ n \in Node /\ p \in Node /\ l \in Level /\ None \notin Node
        /\ 0 .. nodes \subseteq Node
    BY <1>1, Upward, NodeFacts DEF IInv, Types
  <1>3. children' = [children EXCEPT ![p][l] = None] /\ UNCHANGED <<parent, path, nodes>>
    BY <1>1 DEF Cut, CutOff, Forgotten
  <1>4. \A i \in Node, j \in Level : children'[i][j] = IF i = p /\ j = l THEN None ELSE children[i][j]
    BY <1>2, <1>3 DEF IInv, Types, TreeTypes
  <1>5. Slot(n)' = None BY <1>1, <1>2, <1>3, <1>4 DEF Slot
  <1>6. children[p][l] \in {n, None}
    <2>1. RemoveAt(w) BY DEF Apart, RemoveOK
    <2>2. Linked(n) \/ Slot(n) = None BY <1>1, <2>1 DEF RemoveAt, RemoveSteps
    <2>3. QED BY <1>1, <1>2, <2>2 DEF Linked, Slot
  <1>7. ASSUME NEW m \in 0 .. nodes, m # Root
        PROVE  /\ Linked(m)' <=> Linked(m) /\ m # n
               /\ Slot(m) = None => Slot(m)' = None
    <2>1. PICK i, j : i = parent[m] /\ j = path[m][Len(path[m])] OBVIOUS
    <2>2. m \in Created /\ m \in Node BY <1>2, <1>7, NodeFacts DEF IInv, Types
    <2>3. i \in Node /\ j \in Level BY <2>1, <2>2, ParentOf DEF Apart
    <2>4. Slot(m) = children[i][j] /\ Slot(m)' = children'[i][j] BY <1>3, <2>1 DEF Slot
    <2>5. (Linked(m) <=> children[i][j] = m) /\ (Linked(m)' <=> children'[i][j] = m)
      BY <1>7, <2>4 DEF Linked
    <2>6. CASE i = p /\ j = l
      <3>1. children'[i][j] = None BY <1>4, <2>3, <2>6
      <3>2. children[i][j] = m => m = n BY <1>2, <1>6, <2>2, <2>6
      <3>3. QED BY <1>2, <2>2, <2>4, <2>5, <3>1, <3>2
    <2>7. CASE ~(i = p /\ j = l)
      <3>1. children'[i][j] = children[i][j] BY <1>4, <2>3, <2>7
      <3>2. m # n BY <1>1, <2>1, <2>7
      <3>3. QED BY <2>4, <2>5, <3>1, <3>2
    <2>8. QED BY <2>6, <2>7
  <1>8. Linked(Root) /\ Linked(Root)' BY DEF Linked
  <1>9. QED BY <1>2, <1>5, <1>7, <1>8

LEMMA CutApart == ASSUME IInv, Apart, NEW w \in Walker, Cut(w) PROVE Apart'
  <1>1. /\ pc[w] = "cut" /\ pc'[w] = "letGo" /\ OthersStay(w)
        /\ op'[w] = op[w] /\ want'[w] = want[w] /\ at'[w] = at[w]
    BY DEF Cut, Goto, IInv, Types, WalkTypes, OthersStay
  <1>2. UNCHANGED <<parent, path, nodes, remove, kidsCount, subsCount, subs, retained, held, kept>>
    BY DEF Cut, countVars, clientVars
  <1>3. pc[w] \in RemoveSteps /\ pc[w] # "delete" /\ pc[w] \in Cleared /\ pc'[w] \in RemoveSteps \cup {"answer"}
    BY <1>1 DEF RemoveSteps, Cleared
  <1>4. RemoveAt(w) BY DEF Apart, RemoveOK
  <1>5. CASE at[w] = Root
    <2>1. UNCHANGED treeVars BY <1>2, <1>5 DEF Cut, CutOff, treeVars
    <2>2. RemoveAt(w)' BY <1>1, <1>4, <2>1 DEF RemoveAt, RemoveSteps, EmptySteps, Linked, Slot, treeVars
    <2>3. MarkOK' BY <1>1, <1>2, <1>5, <2>1, MarkKept DEF Apart
    <2>4. QED BY <1>1, <1>2, <1>3, <2>1, <2>2, <2>3, RemoverKept
  <1>6. CASE at[w] # Root
    <2>1. PICK n : n = at[w] OBVIOUS
    <2>2. n \in Created /\ n \in 0 .. nodes /\ n \in Node /\ Root \in 0 .. nodes /\ 0 .. nodes \subseteq Node
      BY <1>6, <2>1, Upward, NodeFacts DEF IInv, Types
    <2>3. /\ \A m \in 0 .. nodes : Linked(m)' <=> Linked(m) /\ m # n
          /\ \A m \in 0 .. nodes : m # Root /\ Slot(m) = None => Slot(m)' = None
          /\ Slot(n)' = None
      BY <1>1, <1>6, <2>1, CutLinks
    <2>4. subsCount[n] = 0 /\ kidsCount[n] = 0 /\ retained[n] = None
      BY <1>1, <1>4, <2>1 DEF RemoveAt, RemoveSteps, EmptySteps
    <2>5. \A c \in Client : c \in subs[n] => pc[c] = "delete" /\ at[c] = n BY <2>2, <2>4, EmptyNode
    <2>6. \A k \in Created : parent[k] # n BY <2>2, <2>4, Childless
    <2>7. op[w] \in Removes \cup {"replace"} /\ InsertOK' BY <1>1, <1>3, RemovalOnly
    <2>8. PhaseOK' BY <1>1, PhaseKept DEF Apart
    <2>9. LinkOK'
      <3>1. ASSUME NEW k \in Created PROVE \E m \in 0 .. nodes : m = parent[k] /\ Linked(m)'
        <4>1. parent[k] \in 0 .. nodes /\ Linked(parent[k]) BY ParentOf DEF Apart
        <4>2. QED BY <2>3, <2>6, <4>1
      <3>2. \A k \in Created' : Linked(parent[k])'
        <4>1. Created' = Created /\ parent' = parent BY <1>2 DEF Created
        <4>2. QED BY <3>1, <4>1 DEF Linked, Slot
      <3>3. \A m, k \in 0 .. nodes : Linked(m)' /\ Linked(k)' /\ path[m] = path[k] => m = k
        BY <2>3 DEF Apart, LinkOK
      <3>4. QED BY <1>2, <3>2, <3>3 DEF LinkOK
    <2>10. ContentOK'
      <3>1. ASSUME NEW m \in Node, NEW c \in Client, c \in subs[m]
            PROVE  m \in 0 .. nodes /\ (Linked(m)' \/ (pc'[c] = "delete" /\ at'[c] = m))
        <4>1. m \in 0 .. nodes /\ (Linked(m) \/ (pc[c] = "delete" /\ at[c] = m))
          BY <3>1 DEF Apart, ContentOK
        <4>2. pc[c] = "delete" => pc'[c] = pc[c] /\ at'[c] = at[c] BY <1>1 DEF OthersStay, Walker
        <4>3. QED BY <2>3, <2>5, <3>1, <4>1, <4>2
      <3>2. ASSUME NEW m \in Node, retained[m] # None PROVE m \in 0 .. nodes /\ Linked(m)'
        BY <2>3, <2>4, <3>2 DEF Apart, ContentOK
      <3>3. QED BY <1>2, <3>1, <3>2 DEF ContentOK
    <2>11. RemoveOK'
      <3>1. ASSUME NEW v \in Walker \ {w} PROVE RemoveAt(v)'
        <4>1. PICK m : m = at[v] OBVIOUS
        <4>2. m \in 0 .. nodes BY <4>1 DEF IInv, WalkOK, PlaceOK
        <4>3. RemoveAt(v) /\ at'[v] = m /\ pc'[v] = pc[v] BY <1>1, <4>1 DEF Apart, RemoveOK, OthersStay
        <4>4. Linked(m) \/ Slot(m) = None => Linked(m)' \/ Slot(m)' = None
          <5>1. ~Linked(m) => m # Root BY DEF Linked
          <5>2. QED BY <2>3, <4>2, <5>1
        <4>5. pc[v] \in RemoveSteps =>
                /\ Linked(m)' \/ Slot(m)' = None
                /\ pc[v] \in EmptySteps => subsCount[m] = 0
                /\ pc[v] \in EmptySteps \ {"kids"} => kidsCount[m] = 0
                /\ pc[v] \in EmptySteps \ {"kids", "retained"} => retained[m] = None
          BY <4>1, <4>3, <4>4 DEF RemoveAt
        <4>6. QED BY <1>2, <4>3, <4>5 DEF RemoveAt, Linked, Slot
      <3>2. RemoveAt(w)'
        <4>1. at'[w] = n /\ pc'[w] \notin EmptySteps BY <1>1, <2>1 DEF EmptySteps
        <4>2. QED BY <2>3, <4>1 DEF RemoveAt, Linked, Slot, EmptySteps
      <3>3. QED BY <3>1, <3>2 DEF RemoveOK
    <2>12. MarkOK'
      <3>1. ASSUME NEW m \in Node \ {Root}, remove[m]
            PROVE  m \in Created /\ (~Linked(m)' \/ \E v \in Walker : pc'[v] \in Ending /\ at'[v] = m)
        <4>1. m \in Created /\ (~Linked(m) \/ \E v \in Walker : pc[v] \in Ending /\ at[v] = m)
          BY <3>1 DEF Apart, MarkOK
        <4>2. m \in 0 .. nodes BY <4>1, NodeFacts DEF IInv, Types
        <4>3. \A v \in Walker : pc[v] \in Ending /\ at[v] = m /\ m # n => pc'[v] \in Ending /\ at'[v] = m
          BY <1>1, <2>1 DEF OthersStay
        <4>4. QED BY <2>3, <4>1, <4>2, <4>3
      <3>2. Created' = Created BY <1>2 DEF Created
      <3>3. QED BY <1>2, <3>1, <3>2 DEF MarkOK
    <2>13. SubsOK'
      <3>1. ASSUME NEW m \in 0 .. nodes, NEW c \in Client, Linked(m), c \in subs[m],
                   ~(op[c] = "unsubscribe" /\ want[c] = path[m])
            PROVE  Linked(m)'
        <4>1. c \in Walker BY DEF Walker
        <4>2. pc[c] = "delete" => op[c] = "unsubscribe" /\ path[at[c]] = want[c]
          BY <4>1 DEF IInv, WalkOK, RequestOK, PlaceOK, AtEnd
        <4>3. m # n BY <2>5, <3>1, <4>2
        <4>4. QED BY <2>3, <3>1, <4>3
      <3>2. SubsOK /\ op[w] # "subscribe" BY <2>7 DEF Apart, Removes
      <3>3. QED BY <1>1, <1>2, <3>1, <3>2, SubsKept
    <2>14. RetainedOK'
      <3>1. ASSUME NEW t \in Topic, NEW m \in Message \cup {None}, RetainedIs(t, m) PROVE RetainedIs(t, m)'
        <4>1. ASSUME m # None PROVE \E k \in 0 .. nodes : Linked(k)' /\ path[k] = t
          <5>1. PICK k \in 0 .. nodes : Linked(k) /\ path[k] = t BY <3>1, <4>1 DEF RetainedIs
          <5>2. retained[k] = m BY <3>1, <5>1 DEF RetainedIs
          <5>3. k # n BY <2>4, <4>1, <5>2
          <5>4. QED BY <2>3, <5>1, <5>3
        <4>2. \A k \in 0 .. nodes : Linked(k)' /\ path[k] = t => retained[k] = m
          BY <2>3, <3>1 DEF RetainedIs
        <4>3. QED BY <1>2, <4>1, <4>2 DEF RetainedIs
      <3>2. RetainedOK /\ op[w] # "store" /\ pc[w] # "idle" BY <1>1, <2>7 DEF Apart, Removes
      <3>3. QED BY <1>1, <1>2, <1>3, <3>1, <3>2, RetainedKept
    <2>15. QED BY <2>7, <2>8, <2>9, <2>10, <2>11, <2>12, <2>13, <2>14 DEF Apart
  <1>7. QED BY <1>5, <1>6
-----------------------------------------------------------------------------
(* Requests, answers and searches *)

\* What the walkers have not changed.
LEMMA ApartSame ==
  ASSUME Apart, UNCHANGED walkerSteps
  PROVE  Apart'
  <1>1. UNCHANGED <<treeVars, remove, subsCount, kidsCount, subs, retained, pc, op, want, at, kid, held, kept>>
    BY DEF walkerSteps, countVars, walkVars
  <1>2. \A n : (Linked(n)' <=> Linked(n)) /\ Slot(n)' = Slot(n) BY <1>1, LinkedSame
  <1>3. Created' = Created /\ nodes' = nodes /\ path' = path /\ parent' = parent BY <1>1 DEF treeVars, Created
  <1>4. PhaseOK' BY <1>1 DEF Apart, PhaseOK
  <1>5. LinkOK' BY <1>1, <1>3, LinkedSame DEF Apart, LinkOK, Linked, Slot, treeVars
  <1>6. ContentOK' BY <1>1, <1>2, <1>3 DEF Apart, ContentOK
  <1>7. InsertOK' BY <1>1 DEF Apart, InsertOK, InsertAt, Linked, Slot, treeVars
  <1>8. RemoveOK' BY <1>1 DEF Apart, RemoveOK, RemoveAt, Linked, Slot, treeVars
  <1>9. MarkOK' BY <1>1, <1>2, <1>3 DEF Apart, MarkOK
  <1>10. SubsOK'
    <2>1. Settled' = Settled BY <1>1 DEF Settled
    <2>2. SubsOK BY DEF Apart
    <2>3. QED BY <1>1, <1>2, <1>3, <2>1, <2>2 DEF SubsOK, Stands
  <1>11. RetainedOK' BY <1>1, RetainedSame DEF Apart, RetainedOK, RetainedIs, Linked, Slot, treeVars
  <1>12. QED BY <1>4, <1>5, <1>6, <1>7, <1>8, <1>9, <1>10, <1>11 DEF Apart

\* A walker begins or ends a request: neither tree nor nodes have changed.
LEMMA RequestKept ==
  ASSUME IInv, Apart, NEW w \in Walker, OthersStay(w),
         UNCHANGED <<treeVars, remove, kidsCount, subsCount, subs, retained>>,
         pc[w] \in {"idle", "answer"}, pc'[w] \in {"idle", "raise", "seek"}, at'[w] = Root,
         PhaseOK', SubsOK', RetainedOK'
  PROVE  Apart'
  <1>1. \A n : (Linked(n)' <=> Linked(n)) /\ Slot(n)' = Slot(n) BY LinkedSame
  <1>2. Created' = Created /\ nodes' = nodes /\ path' = path /\ parent' = parent BY DEF treeVars, Created
  <1>3. LinkOK' BY <1>2, LinkedSame DEF Apart, LinkOK, Linked, Slot, treeVars
  <1>4. ContentOK'
    <2>1. \A c \in Client : \A n : pc[c] = "delete" /\ at[c] = n => pc'[c] = "delete" /\ at'[c] = n
      BY DEF OthersStay, Walker
    <2>2. QED BY <1>1, <1>2, <2>1 DEF Apart, ContentOK
  <1>5. InsertOK'
    <2>1. ASSUME NEW v \in Walker \ {w} PROVE InsertAt(v)'
      <3>1. InsertAt(v) /\ pc'[v] = pc[v] /\ at'[v] = at[v] /\ kid'[v] = kid[v]
        BY DEF Apart, InsertOK, OthersStay
      <3>2. QED BY <3>1 DEF InsertAt, Linked, Slot, treeVars
    <2>2. InsertAt(w)' BY DEF InsertAt, HasKid, Linked
    <2>3. QED BY <2>1, <2>2 DEF InsertOK
  <1>6. RemoveOK'
    <2>1. RemoveAt(w)' BY DEF RemoveAt, EmptySteps, Linked
    <2>2. QED BY <2>1, RemoveKept
  <1>7. MarkOK' BY MarkKept DEF Apart, Ending
  <1>8. QED BY <1>3, <1>4, <1>5, <1>6, <1>7 DEF Apart

LEMMA AnswerApart == ASSUME IInv, Apart, NEW w \in Walker, Answer(w) PROVE Apart'
  <1>1. /\ pc[w] = "answer" /\ pc'[w] = "idle" /\ OthersStay(w) /\ op'[w] = "none" /\ want'[w] = <<>> /\ at'[w] = Root
    BY DEF Answer, Goto, IInv, Types, WalkTypes, OthersStay
  <1>2. UNCHANGED <<treeVars, remove, kidsCount, subsCount, subs, retained, kept>> BY DEF Answer, countVars
  <1>3. RequestOK(w) /\ op[w] \in Ops BY DEF IInv, WalkOK, Types, WalkTypes
  <1>4. \A n : (Linked(n)' <=> Linked(n)) /\ Slot(n)' = Slot(n) BY <1>2, LinkedSame
  <1>5. nodes' = nodes /\ path' = path BY <1>2 DEF treeVars
  <1>6. Client \subseteq Walker BY DEF Walker
  <1>7. PhaseOK' BY <1>1, PhaseKept DEF Apart
  <1>8. SubsOK'
    <2>1. \A c \in Client, f \in Filter : Stands(c, f)' <=> Stands(c, f) BY <1>2, <1>4, <1>5 DEF Stands
    <2>2. \A c \in Client : op[c] = "subscribe" /\ pc[c] \in Subscribed => Stands(c, want[c]) BY DEF Apart, SubsOK
    <2>3. ASSUME NEW x \in Settled' PROVE Stands(x[1], x[2])'
      <3>1. x[1] \in Client /\ x[2] \in Filter /\ x[2] \in held'[x[1]] /\ x = <<x[1], x[2]>>
            /\ ~(op'[x[1]] = "unsubscribe" /\ want'[x[1]] = x[2])
        BY <2>3 DEF Settled
      <3>2. CASE x[1] = w /\ op[w] = "subscribe" /\ x[2] = want[w]
        <4>1. Stands(x[1], x[2]) BY <1>1, <2>2, <3>1, <3>2 DEF Subscribed
        <4>2. QED BY <2>1, <3>1, <4>1
      <3>3. CASE ~(x[1] = w /\ op[w] = "subscribe" /\ x[2] = want[w])
        <4>1. held'[x[1]] = CASE op[w] = "subscribe" /\ x[1] = w -> held[w] \cup {want[w]}
                              [] op[w] = "unsubscribe" /\ x[1] = w -> held[w] \ {want[w]}
                              [] OTHER -> held[x[1]]
          <5>1. held \in [Client -> SUBSET Filter] BY DEF IInv, Types, NoteTypes
          <5>2. held' = CASE op[w] = "subscribe"   -> [held EXCEPT ![w] = @ \cup {want[w]}]
                          [] op[w] = "unsubscribe" -> [held EXCEPT ![w] = @ \ {want[w]}]
                          [] OTHER                 -> held
            BY DEF Answer
          <5>3. CASE op[w] = "subscribe" BY <3>1, <5>1, <5>2, <5>3
          <5>4. CASE op[w] = "unsubscribe" BY <3>1, <5>1, <5>2, <5>4
          <5>5. CASE op[w] \notin {"subscribe", "unsubscribe"} BY <3>1, <5>1, <5>2, <5>5
          <5>6. QED BY <5>3, <5>4, <5>5
        <4>2. x[2] \in held[x[1]] /\ ~(x[1] = w /\ op[w] = "unsubscribe" /\ x[2] = want[w])
          BY <3>1, <3>3, <4>1
        <4>3. x[1] # w => op'[x[1]] = op[x[1]] /\ want'[x[1]] = want[x[1]] BY <1>1, <1>6, <3>1 DEF OthersStay
        <4>4. ~(op[x[1]] = "unsubscribe" /\ want[x[1]] = x[2]) BY <3>1, <4>2, <4>3
        <4>5. x \in Settled BY <3>1, <4>2, <4>4 DEF Settled
        <4>6. QED BY <2>1, <3>1, <4>5 DEF Apart, SubsOK
      <3>4. QED BY <3>2, <3>3
    <2>4. ASSUME NEW c \in Client, op'[c] = "subscribe", pc'[c] \in Subscribed
          PROVE  \E n \in (0 .. nodes)' : Linked(n)' /\ path'[n] = want'[c] /\ c \in subs'[n]
      <3>1. c # w BY <1>1, <2>4
      <3>2. op[c] = "subscribe" /\ pc[c] \in Subscribed /\ want'[c] = want[c] BY <1>1, <1>6, <2>4, <3>1 DEF OthersStay
      <3>3. Stands(c, want[c]) BY <2>2, <3>2
      <3>4. QED BY <1>2, <1>4, <1>5, <3>2, <3>3 DEF Stands
    <2>5. QED BY <2>3, <2>4 DEF SubsOK, Stands
  <1>9. RetainedOK'
    <2>1. \A t \in Topic : RetainedIs(t, kept[t])' <=> RetainedIs(t, kept[t])
      BY <1>2, <1>4, <1>5 DEF RetainedIs
    <2>2. CASE w = Retainer
      <3>1. op[w] \in {"store", "clear"} /\ want[w] \in Topic BY <1>1, <1>3, <2>2, TopicTreeAssumption
        DEF RequestOK, Ops, Inserts, Removes, TopicTreeAssumption
      <3>2. RetainedIs(want[w], kept[want[w]])
        <4>1. CASE op[w] = "store" BY <1>1, <2>2, <4>1 DEF Apart, RetainedOK
        <4>2. CASE op[w] = "clear"
          <5>1. kept[want[w]] = None /\ RetainedIs(want[w], None) BY <1>1, <2>2, <4>2 DEF Apart, RetainedOK
          <5>2. QED BY <5>1
        <4>3. QED BY <3>1, <4>1, <4>2
      <3>3. \A t \in Topic : RetainedIs(t, kept[t]) BY <2>2, <3>2 DEF Apart, RetainedOK
      <3>4. \A t \in Topic : RetainedIs(t, kept[t])' BY <2>1, <3>3
      <3>5. op'[Retainer] = "none" /\ pc'[Retainer] = "idle" BY <1>1, <2>2
      <3>6. QED BY <3>4, <3>5 DEF RetainedOK, RetainedIs, Cleared
    <2>3. CASE w # Retainer
      <3>1. Retainer \in Walker BY DEF Walker
      <3>2. op'[Retainer] = op[Retainer] /\ want'[Retainer] = want[Retainer] /\ pc'[Retainer] = pc[Retainer]
        BY <1>1, <2>3, <3>1 DEF OthersStay
      <3>3. RetainedOK BY DEF Apart
      <3>4. QED BY <1>2, <3>2, <3>3, RetainedSame DEF RetainedOK, RetainedIs, Linked, Slot, treeVars
    <2>4. QED BY <2>2, <2>3
  <1>10. QED BY <1>1, <1>2, <1>7, <1>8, <1>9, RequestKept

LEMMA RequestApart ==
  ASSUME IInv, Apart, NEW w \in Walker, NEW o, NEW f, NEW first, Request(w, o, f, first),
         first \in {"raise", "seek"}, ~Mixes(o), held' = held, RetainedOK'
  PROVE  Apart'
  <1>1. /\ pc[w] = "idle" /\ pc'[w] = first /\ OthersStay(w) /\ op'[w] = o /\ want'[w] = f /\ at'[w] = at[w]
    BY DEF Request, Goto, IInv, Types, WalkTypes, OthersStay
  <1>2. UNCHANGED <<treeVars, remove, kidsCount, subsCount, subs, retained>> BY DEF Request, countVars
  <1>3. op[w] = "none" /\ at[w] = Root BY <1>1 DEF IInv, WalkOK, RequestOK
  <1>4. PhaseOK'
    <2>1. \A v \in Walker : op[v] # "none" => v \in Busy BY DEF Busy, IInv, WalkOK, RequestOK
    <2>2. \A v \in Walker : op[v] # "none" => {o, op[v]} \subseteq Inserts \/ {o, op[v]} \subseteq Removes
      BY <2>1 DEF Mixes
    <2>3. ASSUME NEW u \in Walker, NEW v \in Walker, u # v, op'[u] # "none", op'[v] # "none"
          PROVE  {op'[u], op'[v]} \subseteq Inserts \/ {op'[u], op'[v]} \subseteq Removes
      <3>1. CASE u = w BY <1>1, <2>2, <2>3, <3>1 DEF OthersStay
      <3>2. CASE v = w BY <1>1, <2>2, <2>3, <3>2 DEF OthersStay
      <3>3. CASE u # w /\ v # w BY <1>1, <2>3, <3>3 DEF OthersStay, Apart, PhaseOK
      <3>4. QED BY <3>1, <3>2, <3>3
    <2>4. QED BY <2>3 DEF PhaseOK
  <1>5. SubsOK'
    <2>1. \A c \in Client : \A g : Stands(c, g)' <=> Stands(c, g)
      <3>1. \A n : Linked(n)' <=> Linked(n) BY <1>2, LinkedSame
      <3>2. nodes' = nodes /\ path' = path BY <1>2 DEF treeVars
      <3>3. QED BY <1>2, <3>1, <3>2 DEF Stands
    <2>2. Client \subseteq Walker BY DEF Walker
    <2>3. ASSUME NEW x \in Settled' PROVE Stands(x[1], x[2])'
      <3>1. x \in Client \X Filter /\ x[1] \in Client /\ x[2] \in held[x[1]]
            /\ ~(op'[x[1]] = "unsubscribe" /\ want'[x[1]] = x[2])
        BY <2>3 DEF Settled
      <3>2. x \in Settled BY <1>1, <1>3, <2>2, <3>1 DEF Settled, OthersStay
      <3>3. QED BY <2>1, <3>1, <3>2 DEF Apart, SubsOK
    <2>4. ASSUME NEW c \in Client, op'[c] = "subscribe", pc'[c] \in Subscribed
          PROVE  \E g : g = want'[c] /\ Stands(c, g)'
      <3>1. c # w BY <1>1, <2>4 DEF Subscribed
      <3>2. op[c] = "subscribe" /\ pc[c] \in Subscribed /\ want'[c] = want[c] BY <1>1, <2>2, <2>4, <3>1 DEF OthersStay
      <3>3. Stands(c, want[c]) BY <3>2 DEF Apart, SubsOK
      <3>4. PICK g : g = want[c] OBVIOUS
      <3>5. Stands(c, g)' BY <2>1, <3>3, <3>4
      <3>6. QED BY <3>2, <3>4, <3>5
    <2>5. QED BY <2>3, <2>4 DEF SubsOK, Stands
  <1>6. QED BY <1>1, <1>2, <1>3, <1>4, <1>5, RequestKept

LEMMA EnvironmentApart ==
  ASSUME IInv, Apart, Environment, ~mixed'
  PROVE  Apart'
  <1>1. Client \subseteq Walker /\ Retainer \in Walker /\ Retainer \notin Client
    BY TopicTreeAssumption DEF TopicTreeAssumption, Walker
  <1>2. ASSUME NEW c \in Client, NEW o, NEW f, NEW first, Request(c, o, f, first), kept' = kept PROVE RetainedOK'
    <2>1. /\ op'[Retainer] = op[Retainer] /\ want'[Retainer] = want[Retainer] /\ pc'[Retainer] = pc[Retainer]
          /\ UNCHANGED <<treeVars, retained>>
      BY <1>1, <1>2 DEF Request, Goto, IInv, Types, WalkTypes
    <2>2. RetainedOK BY DEF Apart
    <2>3. QED BY <1>2, <2>1, <2>2, RetainedSame DEF RetainedOK, RetainedIs, Linked, Slot, treeVars
  <1>3. ASSUME NEW c \in Client, NEW f \in Filter, Subscribe(c, f) PROVE Apart'
    <2>1. Request(c, "subscribe", f, "raise") /\ held' = held /\ kept' = kept BY <1>3 DEF Subscribe
    <2>2. ~Mixes("subscribe") BY <2>1 DEF Request
    <2>3. RetainedOK' BY <1>2, <2>1
    <2>4. QED BY <1>1, <2>1, <2>2, <2>3, RequestApart
  <1>4. ASSUME NEW c \in Client, NEW f \in Filter, UnSubscribe(c, f) PROVE Apart'
    <2>1. Request(c, "unsubscribe", f, "seek") /\ held' = held /\ kept' = kept BY <1>4 DEF UnSubscribe
    <2>2. ~Mixes("unsubscribe") BY <2>1 DEF Request
    <2>3. RetainedOK' BY <1>2, <2>1
    <2>4. QED BY <1>1, <2>1, <2>2, <2>3, RequestApart
  <1>5. ASSUME NEW t \in Topic, NEW m \in Message \cup {None}, NEW o, o = "clear" => m = None, Retain(t, o, m)
        PROVE  Apart'
    <2>1. PICK first : first = IF o = "store" THEN "raise" ELSE "seek" OBVIOUS
    <2>2. Request(Retainer, o, t, first) /\ held' = held /\ kept' = [kept EXCEPT ![t] = m]
      BY <1>5, <2>1 DEF Retain
    <2>3. ~Mixes(o) BY <2>2 DEF Request
    <2>4. /\ pc[Retainer] = "idle" /\ pc'[Retainer] = first /\ op'[Retainer] = o /\ want'[Retainer] = t
          /\ UNCHANGED <<treeVars, retained>>
      BY <1>1, <2>2 DEF Request, Goto, IInv, Types, WalkTypes
    <2>5. want[Retainer] = <<>> /\ \A s \in Topic : s # <<>>
      BY <1>1, <2>4, TopicTreeAssumption DEF TopicTreeAssumption, IInv, WalkOK, RequestOK
    <2>6. \A s \in Topic : kept'[s] = IF s = t THEN m ELSE kept[s] BY <2>2 DEF IInv, Types, NoteTypes
    <2>7. RetainedOK'
      <3>1. ASSUME NEW s \in Topic, s # t PROVE RetainedIs(s, kept[s])'
        <4>1. RetainedIs(s, kept[s]) BY <2>5 DEF Apart, RetainedOK
        <4>2. PICK x : x = kept[s] OBVIOUS
        <4>3. RetainedIs(s, x)' BY <2>4, <4>1, <4>2, RetainedSame
        <4>4. kept'[s] = x BY <2>6, <3>1, <4>2
        <4>5. QED BY <4>3, <4>4 DEF RetainedIs
      <3>2. o = "clear" => kept'[t] = None BY <1>5, <2>6
      <3>3. first \in {"raise", "seek"} BY <2>1
      <3>4. QED BY <2>4, <3>1, <3>2, <3>3 DEF RetainedOK, RetainedIs, Cleared
    <2>8. QED BY <1>1, <2>1, <2>2, <2>3, <2>7, RequestApart
  <1>6. ASSUME NEW p \in Publisher, NEW t \in Topic, Publish(p, t) PROVE Apart'
    BY <1>6, ApartSame DEF Publish, walkerSteps
  <1>7. QED BY <1>3, <1>4, <1>5, <1>6 DEF Environment

LEMMA InsertApart ==
  ASSUME IInv, Apart, NEW w \in Walker, Insert(w)
  PROVE  Apart'
  BY RaiseApart, LoadChildApart, StoreChildApart, CountApart, LowerApart, CheckRemoveApart, BackOffApart,
     WaitDeletedApart, EnterApart, StoreSubApart, StoreRetainedApart, ReleaseLeafApart DEF Insert

LEMMA RemoveApart ==
  ASSUME IInv, Apart, NEW w \in Walker, Remove(w)
  PROVE  Apart'
  BY SeekApart, LoadSubApart, UncountApart, DeleteSubApart, ClearRetainedApart, LooksEmptyApart, HoldDeletedApart,
     MarkApart, StillEmptyApart, CutApart, LetGoApart, AgainApart DEF Remove

LEMMA SearchApart ==
  ASSUME IInv, Apart, (\E c \in Client : SearchRetained(c)) \/ (\E p \in Publisher : Search(p)) \/ Quiet
  PROVE  Apart'
  <1>1. ASSUME NEW c \in Client, SearchRetained(c) PROVE Apart'
    <2>1. CASE LoadKid(c) BY <2>1, CollectApart DEF LoadKid
    <2>2. CASE LoadRetained(c) BY <2>2, CollectApart DEF LoadRetained
    <2>3. CASE RangeChildren(c) BY <2>3, CollectApart, Zenon DEF RangeChildren
    <2>4. QED BY <1>1, <2>1, <2>2, <2>3 DEF SearchRetained
  <1>2. ASSUME NEW p \in Publisher, Search(p) PROVE Apart'
    <2>1. CASE LoadLevel(p) BY <2>1, ApartSame DEF LoadLevel, clientVars, walkerSteps
    <2>2. CASE TakeSubscribers(p) BY <2>2, ApartSame DEF TakeSubscribers, clientVars, walkerSteps
    <2>3. CASE Deliver(p) BY <2>3, ApartSame DEF Deliver, clientVars, walkerSteps
    <2>4. QED BY <1>2, <2>1, <2>2, <2>3, ZenonT(30) DEF Search
  <1>3. CASE Quiet BY <1>3, ApartSame DEF Quiet, vars, clientVars, walkerSteps
  <1>4. QED BY <1>1, <1>2, <1>3

LEMMA InitApart ==
  ASSUME Init
  PROVE  Apart
  <1>1. 0 .. 0 = {Root} /\ 1 .. 0 = {} /\ Root \in Node BY TopicTreeAssumption DEF TopicTreeAssumption, Node, Root
  <1>2. Created = {} /\ nodes = 0 BY <1>1 DEF Init, Created
  <1>3. PhaseOK BY DEF Init, PhaseOK
  <1>4. LinkOK BY <1>1, <1>2 DEF LinkOK
  <1>5. ContentOK BY DEF Init, ContentOK
  <1>6. InsertOK BY DEF Init, InsertOK, InsertAt, InsertSteps
  <1>7. RemoveOK BY DEF Init, RemoveOK, RemoveAt, RemoveSteps
  <1>8. MarkOK BY DEF Init, MarkOK
  <1>9. SubsOK BY DEF Init, SubsOK, Settled, Walker
  <1>10. RetainedOK
    <2>1. \A t \in Topic : RetainedIs(t, kept[t]) BY <1>1, <1>2 DEF Init, RetainedIs
    <2>2. op[Retainer] = "none" /\ pc[Retainer] = "idle" BY DEF Init, Walker
    <2>3. QED BY <2>1, <2>2 DEF RetainedOK, Cleared
  <1>11. QED BY <1>3, <1>4, <1>5, <1>6, <1>7, <1>8, <1>9, <1>10 DEF Apart

\* Once an insertion and a removal have overlapped, that stays noted.
LEMMA NextUnmixed ==
  ASSUME IInv, [Next]_vars, ~mixed'
  PROVE  ~mixed
  <1>1. mixed \in BOOLEAN BY DEF IInv, Types, NoteTypes
  <1>2. CASE UNCHANGED vars BY <1>2 DEF vars, clientVars
  <1>3. ASSUME NEW w \in Walker, Walk(w) PROVE mixed' = mixed
    <2>1. CASE Insert(w)
      BY <2>1 DEF Insert, clientVars, Raise, LoadChild, StoreChild, Count, Lower, CheckRemove, BackOff, WaitDeleted,
           Enter, StoreSub, StoreRetained, ReleaseLeaf
    <2>2. CASE Remove(w)
      BY <2>2 DEF Remove, clientVars, Seek, LoadSub, Uncount, DeleteSub, ClearRetained, LooksEmpty, Look,
           HoldDeleted, Mark, StillEmpty, Cut, LetGo, Again
    <2>3. CASE Answer(w) BY <2>3 DEF Answer
    <2>4. QED BY <1>3, <2>1, <2>2, <2>3 DEF Walk
  <1>4. ASSUME NEW c \in Client, SearchRetained(c) PROVE mixed' = mixed
    <2>1. ASSUME NEW step, NEW next, Collect(c, step, next) PROVE mixed' = mixed
      BY <2>1 DEF Collect, clientVars
    <2>2. CASE LoadKid(c) BY <2>1, <2>2 DEF LoadKid
    <2>3. CASE LoadRetained(c) BY <2>1, <2>3 DEF LoadRetained
    <2>4. CASE RangeChildren(c) BY <2>1, <2>4, ZenonT(30) DEF RangeChildren
    <2>5. QED BY <1>4, <2>2, <2>3, <2>4 DEF SearchRetained
  <1>5. ASSUME NEW p \in Publisher, Search(p) PROVE mixed' = mixed
    <2>1. CASE LoadLevel(p) BY <2>1 DEF LoadLevel, clientVars
    <2>2. CASE TakeSubscribers(p) BY <2>2 DEF TakeSubscribers, clientVars
    <2>3. CASE Deliver(p) BY <2>3 DEF Deliver, clientVars
    <2>4. QED BY <1>5, <2>1, <2>2, <2>3 DEF Search
  <1>6. Environment => (mixed => mixed')
    BY DEF Environment, Subscribe, UnSubscribe, Retain, Publish, Request
  <1>7. Quiet => mixed' = mixed BY DEF Quiet, vars, clientVars
  <1>8. QED BY <1>1, <1>2, <1>3, <1>4, <1>5, <1>6, <1>7 DEF Next

LEMMA NextApart ==
  ASSUME IInv, ~mixed => Apart, [Next]_vars, ~mixed'
  PROVE  Apart'
  <1>1. ~mixed BY NextUnmixed
  <1>2. Apart BY <1>1
  <1>3. CASE UNCHANGED vars BY <1>2, <1>3, ApartSame DEF vars, clientVars, walkerSteps
  <1>4. CASE Next
    <2>1. CASE \E w \in Walker : Walk(w)
      BY <1>2, <2>1, InsertApart, RemoveApart, AnswerApart DEF Walk
    <2>2. CASE (\E c \in Client : SearchRetained(c)) \/ (\E p \in Publisher : Search(p)) \/ Quiet
      BY <1>2, <2>2, SearchApart
    <2>3. CASE Environment BY <1>2, <2>3, EnvironmentApart
    <2>4. QED BY <1>4, <2>1, <2>2, <2>3 DEF Next
  <1>5. QED BY <1>3, <1>4

Undisturbed == ~mixed => Apart

\* As long as no insertion and removal overlap, the tree is one: what is linked are
\* the nodes on the way to what is held, insertions work on linked nodes only, and
\* what a removal has found empty stays empty until it is cut off (node.go:50-165).
THEOREM ApartCorrect == Spec => []Undisturbed
  <1>1. Init => Undisturbed BY InitApart DEF Undisturbed
  <1>2. IInv /\ Undisturbed /\ [Next]_vars => Undisturbed' BY NextApart DEF Undisturbed
  <1>3. QED BY <1>1, <1>2, Invariant, PTL DEF Spec

LEMMA MarkedHolds ==
  ASSUME IInv, Undisturbed
  PROVE  MarkedIsCut
  <1> SUFFICES ASSUME ~mixed, NEW n \in Node \ {Root}, remove[n], wgDeleted[n] = 0
               PROVE  Slot(n) # n
    BY DEF MarkedIsCut, Slot
  <1>1. ~Linked(n) \/ \E w \in Walker : pc[w] \in Ending /\ at[w] = n BY DEF Undisturbed, Apart, MarkOK
  <1>2. ASSUME NEW w \in Walker, pc[w] \in Ending, at[w] = n PROVE FALSE
    <2>1. CutsOff(pc[w], at[w], n) BY <1>2 DEF CutsOff, CutSteps, Ending
    <2>2. wgDeleted[n] >= 1 BY <2>1, Positive
    <2>3. QED BY <2>2
  <1>3. QED BY <1>1, <1>2 DEF Linked

\* A node that is marked and that nobody is removing any more is out of the tree,
\* so that an insertion that waits for it does not meet it again (node.go:74-77,
\* 122-137).
THEOREM MarkedIsCutCorrect == Spec => []MarkedIsCut
  BY MarkedHolds, Invariant, ApartCorrect, PTL

LEMMA NoneLostHolds ==
  ASSUME IInv, Undisturbed
  PROVE  NoneLost
  <1> SUFFICES ASSUME ~mixed
               PROVE  /\ \A x \in Settled : LET n == NodeAt(x[2]) IN n # None /\ x[1] \in subs[n]
                      /\ \A t \in Topic : pc[Retainer] = "idle" =>
                           LET n == NodeAt(t) IN kept[t] = IF n = None THEN None ELSE retained[n]
    BY DEF NoneLost
  <1>1. LinkOK /\ SubsOK /\ RetainedOK BY DEF Undisturbed, Apart
  <1>2. 0 .. nodes \subseteq Node /\ None \notin Node BY NodeFacts DEF IInv, Types
  <1>3. ASSUME NEW x \in Settled PROVE NodeAt(x[2]) # None /\ x[1] \in subs[NodeAt(x[2])]
    <2>1. PICK c, f : c = x[1] /\ f = x[2] OBVIOUS
    <2>2. f \in Filter /\ Stands(c, f) BY <1>1, <1>3, <2>1 DEF Settled, SubsOK
    <2>3. f \in Seq(Level) BY <2>2, LevelsIn
    <2>4. PICK m \in 0 .. nodes : Linked(m) /\ path[m] = f /\ c \in subs[m] BY <2>2 DEF Stands
    <2>5. NodeAt(f) = m BY <1>1, <2>3, <2>4, NodeAtIs
    <2>6. QED BY <1>2, <2>1, <2>4, <2>5
  <1>4. ASSUME NEW t \in Topic, pc[Retainer] = "idle"
        PROVE  kept[t] = IF NodeAt(t) = None THEN None ELSE retained[NodeAt(t)]
    <2>1. want[Retainer] # t
      <3>1. RequestOK(Retainer) BY DEF IInv, WalkOK, Walker
      <3>2. QED BY <1>4, <3>1, LevelsIn DEF RequestOK
    <2>2. RetainedIs(t, kept[t]) BY <1>1, <2>1 DEF RetainedOK
    <2>3. t \in Seq(Level) BY LevelsIn
    <2>4. PICK n : n = NodeAt(t) OBVIOUS
    <2>5. /\ n # None => n \in 0 .. nodes /\ Linked(n) /\ path[n] = t
          /\ \A m \in 0 .. nodes : Linked(m) /\ path[m] = t => n = m
      BY <1>1, <2>3, <2>4, NodeAtIs
    <2>6. CASE n = None
      <3>1. kept[t] = None BY <1>2, <2>2, <2>5, <2>6 DEF RetainedIs
      <3>2. QED BY <2>4, <2>6, <3>1
    <2>7. CASE n # None
      <3>1. retained[n] = kept[t] BY <2>2, <2>5, <2>7 DEF RetainedIs
      <3>2. QED BY <2>4, <2>7, <3>1
    <2>8. QED BY <2>6, <2>7
  <1>5. QED BY <1>3, <1>4

\* What a client was told it has subscribed to is in the tree, and of the retained
\* messages the last, as long as no insertion and removal overlap (topics.go:49-51,
\* 86-142).
THEOREM NoneLostCorrect == Spec => []NoneLost
  BY NoneLostHolds, Invariant, ApartCorrect, PTL
-----------------------------------------------------------------------------
(* What can be found *)

\* A set that nobody leaves on the way down. What has not been created yet is part
\* of it, so that it stays one when the tree grows.
Closed(S) ==
  /\ \A n \in Node : n > nodes => n \in S
  /\ \A n \in S, l \in Level : children[n][l] # None => children[n][l] \in S

\* What can be reached from the root, and what leads to nothing of w only.
Reach == {n \in Node : \A S \in SUBSET Node : Root \in S /\ Closed(S) => n \in S}
HoldsAt(w, n) == IF w = Retainer THEN retained[n] # None ELSE w \in subs[n]
Bare(w) == {n \in Node : \E S \in SUBSET Node : Closed(S) /\ n \in S /\ \A m \in S : ~HoldsAt(w, m)}

\* What is held is held where it was meant to be.
HeldOK ==
  /\ \A n \in Node, c \in Client : c \in subs[n] => n \in Created /\ path[n] \in Filter
  /\ \A n \in Node : retained[n] # None => n \in Created /\ path[n] \in Topic

\* A step may create one node, or cut children off.
TreeGrows ==
  \E m \in 0 .. nodes, l \in Level :
    /\ children[m][l] = None /\ nodes' = nodes + 1 /\ nodes' \in Node
    /\ \A n \in Node, j \in Level : children'[n][j] = IF n = m /\ j = l THEN nodes' ELSE children[n][j]
    /\ \A n \in 0 .. nodes : path'[n] = path[n] /\ parent'[n] = parent[n]
TreeShrinks ==
  /\ UNCHANGED <<parent, path, nodes>>
  /\ \A n \in Node, l \in Level : children'[n][l] = children[n][l] \/ children'[n][l] = None
TreeMoves == TreeGrows \/ TreeShrinks

\* It may store what its walker wants, at the node it wants.
Stores(w, n) == pc[w] = "leaf" /\ op'[w] = op[w] /\ want'[w] = want[w] /\ n = at[w]
NodesMove ==
  /\ \A n \in Node, c \in Client : c \in subs'[n] => c \in subs[n] \/ (op[c] = "subscribe" /\ Stores(c, n))
  /\ \A n \in Node : retained'[n] # None =>
       retained[n] # None \/ (op[Retainer] = "store" /\ Stores(Retainer, n))

LEMMA TreeSame ==
  ASSUME UNCHANGED treeVars
  PROVE  TreeMoves
  BY DEF treeVars, TreeMoves, TreeShrinks

LEMMA NodesSame ==
  ASSUME UNCHANGED <<subs, retained>>
  PROVE  NodesMove
  BY DEF NodesMove

LEMMA StoreChildMoves ==
  ASSUME IInv, NEW w \in Walker, StoreChild(w)
  PROVE  TreeGrows
  <1>1. PICK a, l, k : a = at[w] /\ l = NextLevel(w) /\ k = nodes + 1 OBVIOUS
  <1>2. pc[w] = "load" /\ children[a][l] = None /\ nodes < MaxNodes /\ nodes' = k BY <1>1 DEF StoreChild
  <1>3. a \in 0 .. nodes /\ l \in Level BY <1>1, <1>2, WalkerFacts DEF IInv, WalkOK, PlaceOK, Descends
  <1>4. nodes \in Nat /\ MaxNodes \in Nat /\ 0 .. nodes \subseteq Node /\ k \in Node /\ k \notin 0 .. nodes
    <2>1. nodes \in Nat /\ MaxNodes \in Nat /\ 0 .. nodes \subseteq Node
      BY NodeFacts, TopicTreeAssumption DEF IInv, Types, TopicTreeAssumption
    <2>2. QED BY <1>1, <1>2, <2>1 DEF Node, Root
  <1>5. children' = [children EXCEPT ![a][l] = k] /\ path' = [path EXCEPT ![k] = Append(path[a], l)]
        /\ parent' = [parent EXCEPT ![k] = a]
    BY <1>1, <1>2 DEF StoreChild
  <1>6. \A n \in Node, j \in Level : children'[n][j] = IF n = a /\ j = l THEN k ELSE children[n][j]
    BY <1>5 DEF IInv, Types, TreeTypes
  <1>7. \A n \in 0 .. nodes : path'[n] = path[n] /\ parent'[n] = parent[n]
    BY <1>4, <1>5 DEF IInv, Types, TreeTypes
  <1>8. QED BY <1>1, <1>2, <1>3, <1>4, <1>6, <1>7 DEF TreeGrows

LEMMA CutMoves ==
  ASSUME IInv, NEW w \in Walker, Cut(w)
  PROVE  TreeShrinks
  <1>1. PICK n : n = at[w] OBVIOUS
  <1>2. UNCHANGED <<parent, path, nodes>> /\ children' = CutOff(n) BY <1>1 DEF Cut
  <1>3. CASE n = Root BY <1>2, <1>3 DEF CutOff, TreeShrinks
  <1>4. CASE n # Root
    <2>1. PICK p, l : p = parent[n] /\ l = path[n][Len(path[n])] OBVIOUS
    <2>2. children' = [children EXCEPT ![p][l] = None] BY <1>2, <1>4, <2>1 DEF CutOff, Forgotten
    <2>3. \A i \in Node, j \in Level : children'[i][j] = children[i][j] \/ children'[i][j] = None
      BY <2>2 DEF IInv, Types, TreeTypes
    <2>4. QED BY <1>2, <2>3 DEF TreeShrinks
  <1>5. QED BY <1>3, <1>4

\* The steps of an insertion or a removal, and what they leave alone.
Works(w) ==
  /\ OthersStay(w) /\ want' = want /\ held' = held /\ kept' = kept /\ mixed' = mixed /\ topic' = topic /\ found' = found
  /\ op'[w] = op[w] \/ (op[w] = "replace" /\ op'[w] = "store")

LEMMA InsertMoves ==
  ASSUME IInv, NEW w \in Walker, Insert(w)
  PROVE  Works(w) /\ op' = op /\ TreeMoves /\ NodesMove
  <1>1. OthersStay(w)
    BY DEF Insert, Raise, LoadChild, StoreChild, Count, Lower, CheckRemove, BackOff, WaitDeleted, Enter,
           StoreSub, StoreRetained, ReleaseLeaf, BeginSearch, Goto, IInv, Types, WalkTypes, OthersStay
  <1>2. UNCHANGED <<op, want, held, kept, mixed, topic, found>>
    BY DEF Insert, Raise, LoadChild, StoreChild, Count, Lower, CheckRemove, BackOff, WaitDeleted, Enter,
           StoreSub, StoreRetained, ReleaseLeaf, clientVars, searchVars
  <1>3. TreeMoves
    <2>1. CASE StoreChild(w) BY <2>1, StoreChildMoves DEF TreeMoves
    <2>2. CASE ~StoreChild(w)
      <3>1. UNCHANGED treeVars
        BY <2>2 DEF Insert, Raise, LoadChild, Count, Lower, CheckRemove, BackOff, WaitDeleted, Enter,
               StoreSub, StoreRetained, ReleaseLeaf
      <3>2. QED BY <3>1, TreeSame
    <2>3. QED BY <2>1, <2>2
  <1>4. NodesMove
    <2>1. CASE StoreSub(w)
      <3>1. /\ pc[w] = "leaf" /\ op[w] = "subscribe" /\ retained' = retained
            /\ subs' = [subs EXCEPT ![at[w]] = @ \cup {w}]
        BY <2>1 DEF StoreSub
      <3>2. subs \in [Node -> SUBSET Client] BY DEF IInv, Types, NodeTypes
      <3>3. \A n \in Node, c \in Client : c \in subs'[n] => c \in subs[n] \/ (c = w /\ n = at[w]) BY <3>1, <3>2
      <3>4. QED BY <1>2, <3>1, <3>3 DEF NodesMove, Stores
    <2>2. CASE StoreRetained(w)
      <3>1. /\ pc[w] = "leaf" /\ op[w] = "store" /\ subs' = subs
            /\ retained' = [retained EXCEPT ![at[w]] = kept[want[w]]]
        BY <2>2 DEF StoreRetained
      <3>2. w = Retainer BY <3>1 DEF IInv, WalkOK, RequestOK
      <3>3. \A n \in Node : retained'[n] # None => retained[n] # None \/ n = at[w]
        BY <3>1 DEF IInv, Types, NodeTypes
      <3>4. QED BY <1>2, <3>1, <3>2, <3>3 DEF NodesMove, Stores
    <2>3. CASE ~StoreSub(w) /\ ~StoreRetained(w)
      <3>1. UNCHANGED <<subs, retained>>
        BY <2>3 DEF Insert, Raise, LoadChild, StoreChild, Count, Lower, CheckRemove, BackOff, WaitDeleted, Enter,
               ReleaseLeaf
      <3>2. QED BY <3>1, NodesSame
    <2>4. QED BY <2>1, <2>2, <2>3
  <1>5. QED BY <1>1, <1>2, <1>3, <1>4 DEF Works

LEMMA RemoveMoves ==
  ASSUME IInv, NEW w \in Walker, Remove(w)
  PROVE  Works(w) /\ (op' = op \/ op[w] = "replace") /\ TreeMoves /\ NodesMove /\ UNCHANGED searchVars
  <1>1. OthersStay(w)
    BY DEF Remove, Seek, LoadSub, Uncount, DeleteSub, ClearRetained, LooksEmpty, Look, Up, HoldDeleted, Mark,
           StillEmpty, Cut, LetGo, Again, Goto, IInv, Types, WalkTypes, OthersStay
  <1>2. UNCHANGED <<want, held, kept, mixed, searchVars>>
    BY DEF Remove, Seek, LoadSub, Uncount, DeleteSub, ClearRetained, LooksEmpty, Look, HoldDeleted, Mark,
           StillEmpty, Cut, LetGo, Again, clientVars
  <1>3. (op'[w] = op[w] /\ op' = op) \/ (op[w] = "replace" /\ op'[w] = "store")
    <2>1. CASE Again(w) BY <2>1 DEF Again, IInv, WalkOK, RequestOK, Types, WalkTypes
    <2>2. CASE ~Again(w)
      BY <2>2 DEF Remove, Seek, LoadSub, Uncount, DeleteSub, ClearRetained, LooksEmpty, Look, HoldDeleted, Mark,
           StillEmpty, Cut, LetGo
    <2>3. QED BY <2>1, <2>2
  <1>4. TreeMoves
    <2>1. CASE Cut(w) BY <2>1, CutMoves DEF TreeMoves
    <2>2. CASE ~Cut(w)
      <3>1. UNCHANGED treeVars
        BY <2>2 DEF Remove, Seek, LoadSub, Uncount, DeleteSub, ClearRetained, LooksEmpty, Look, HoldDeleted, Mark,
             StillEmpty, LetGo, Again
      <3>2. QED BY <3>1, TreeSame
    <2>3. QED BY <2>1, <2>2
  <1>5. NodesMove
    <2>1. CASE DeleteSub(w)
      <3>1. subs' = [subs EXCEPT ![at[w]] = @ \ {w}] /\ retained' = retained BY <2>1 DEF DeleteSub, Others
      <3>2. subs \in [Node -> SUBSET Client] BY DEF IInv, Types, NodeTypes
      <3>3. \A n \in Node, c \in Client : c \in subs'[n] => c \in subs[n] BY <3>1, <3>2
      <3>4. QED BY <3>1, <3>3 DEF NodesMove
    <2>2. CASE ClearRetained(w)
      <3>1. retained' = [retained EXCEPT ![at[w]] = None] /\ subs' = subs BY <2>2 DEF ClearRetained
      <3>2. \A n \in Node : retained'[n] # None => retained[n] # None BY <3>1 DEF IInv, Types, NodeTypes
      <3>3. QED BY <3>1, <3>2 DEF NodesMove
    <2>3. CASE ~DeleteSub(w) /\ ~ClearRetained(w)
      <3>1. UNCHANGED <<subs, retained>>
        BY <2>3 DEF Remove, Seek, LoadSub, Uncount, LooksEmpty, Look, HoldDeleted, Mark, StillEmpty, Cut, LetGo, Again
      <3>2. QED BY <3>1, NodesSame
    <2>4. QED BY <2>1, <2>2, <2>3
  <1>6. QED BY <1>1, <1>2, <1>3, <1>4, <1>5 DEF Works, searchVars

LEMMA CollectMoves ==
  ASSUME NEW c \in Client, SearchRetained(c)
  PROVE  UNCHANGED <<treeVars, subs, retained, op, want, at, clientVars, topic, due, may>>
  <1>1. ASSUME NEW step, NEW next, Collect(c, step, next)
        PROVE  UNCHANGED <<treeVars, subs, retained, op, want, at, clientVars, topic, due, may>>
    BY <1>1 DEF Collect
  <1>2. CASE LoadKid(c) BY <1>1, <1>2 DEF LoadKid
  <1>3. CASE LoadRetained(c) BY <1>1, <1>3 DEF LoadRetained
  <1>4. CASE RangeChildren(c) BY <1>1, <1>4, ZenonT(30) DEF RangeChildren
  <1>5. QED BY <1>2, <1>3, <1>4 DEF SearchRetained

LEMMA NextMoves ==
  ASSUME IInv, [Next]_vars
  PROVE  TreeMoves /\ NodesMove
  <1>1. CASE UNCHANGED <<treeVars, subs, retained>> BY <1>1, TreeSame, NodesSame
  <1>2. ASSUME NEW w \in Walker, Walk(w) PROVE TreeMoves /\ NodesMove
    <2>1. Answer(w) => UNCHANGED <<treeVars, subs, retained>> BY DEF Answer
    <2>2. QED BY <1>1, <1>2, <2>1, InsertMoves, RemoveMoves, Zenon DEF Walk
  <1>3. ASSUME NEW c \in Client, SearchRetained(c) PROVE TreeMoves /\ NodesMove BY <1>1, <1>3, CollectMoves
  <1>4. ASSUME NEW p \in Publisher, Search(p) PROVE TreeMoves /\ NodesMove
    BY <1>1, <1>4, Zenon DEF Search, LoadLevel, TakeSubscribers, Deliver
  <1>5. ASSUME Environment PROVE UNCHANGED <<treeVars, subs, retained>>
    BY <1>5 DEF Environment, Subscribe, UnSubscribe, Retain, Publish, Request
  <1>6. ASSUME UNCHANGED vars PROVE UNCHANGED <<treeVars, subs, retained>> BY <1>6 DEF vars
  <1>7. Quiet => UNCHANGED vars BY DEF Quiet
  <1>8. QED BY <1>1, <1>2, <1>3, <1>4, <1>5, <1>6, <1>7 DEF Next

LEMMA MovesKeep ==
  ASSUME IInv, TreeMoves
  PROVE  /\ nodes \in Nat /\ nodes' \in Nat /\ nodes <= nodes' /\ 0 .. nodes \subseteq Node
         /\ Created \subseteq 0 .. nodes /\ Created \subseteq Created'
         /\ \A n \in 0 .. nodes : path'[n] = path[n] /\ parent'[n] = parent[n]
  <1>1. nodes \in Nat /\ 0 .. nodes \subseteq Node /\ Created \subseteq 0 .. nodes BY NodeFacts DEF IInv, Types
  <1>2. nodes' \in Nat /\ nodes <= nodes' BY <1>1 DEF TreeMoves, TreeGrows, TreeShrinks
  <1>3. \A n \in 0 .. nodes : path'[n] = path[n] /\ parent'[n] = parent[n]
    BY DEF TreeMoves, TreeGrows, TreeShrinks
  <1>4. Created \subseteq Created' BY <1>1, <1>2 DEF Created
  <1>5. QED BY <1>1, <1>2, <1>3, <1>4

\* What a step adds to the nodes, and under which path.
LEMMA Added ==
  ASSUME IInv, HeldOK, TreeMoves, NodesMove
  PROVE  /\ \A n \in Node, c \in Client : c \in subs'[n] =>
              /\ n \in Created /\ path'[n] = path[n] /\ path[n] \in Filter
              /\ \/ c \in subs[n]
                 \/ op[c] = "subscribe" /\ want[c] = path[n] /\ op'[c] = op[c] /\ want'[c] = want[c]
         /\ \A n \in Node : retained'[n] # None =>
              /\ n \in Created /\ path'[n] = path[n] /\ path[n] \in Topic
              /\ \/ retained[n] # None
                 \/ /\ op[Retainer] = "store" /\ want[Retainer] = path[n]
                    /\ op'[Retainer] = op[Retainer] /\ want'[Retainer] = want[Retainer]
  <1>1. ASSUME NEW w \in Walker, NEW n \in Node, pc[w] = "leaf", n = at[w]
        PROVE  n \in Created /\ path[n] = want[w]
    <2>1. path[n] = want[w] /\ want[w] # <<>> /\ n \in 0 .. nodes
      <3>1. RequestOK(w) /\ PlaceOK(w) BY DEF IInv, WalkOK
      <3>2. path[n] = want[w] /\ n \in 0 .. nodes BY <1>1, <3>1 DEF PlaceOK, AtEnd
      <3>3. want[w] # <<>> BY <1>1, WalkerFacts, LevelsIn
      <3>4. QED BY <3>2, <3>3
    <2>2. path[Root] = <<>> BY DEF IInv, TreeOK
    <2>3. QED BY <2>1, <2>2, NodeFacts DEF IInv, Types
  <1>2. \A n \in Created : n \in Node /\ path'[n] = path[n] BY MovesKeep
  <1>3. ASSUME NEW n \in Node, NEW c \in Client, c \in subs'[n]
        PROVE  /\ n \in Created /\ path[n] \in Filter
               /\ \/ c \in subs[n]
                  \/ op[c] = "subscribe" /\ want[c] = path[n] /\ op'[c] = op[c] /\ want'[c] = want[c]
    <2>1. CASE c \in subs[n] BY <2>1 DEF HeldOK
    <2>2. CASE op[c] = "subscribe" /\ Stores(c, n)
      <3>1. /\ c \in Walker /\ pc[c] = "leaf" /\ n = at[c] /\ op'[c] = op[c] /\ want'[c] = want[c]
        BY <2>2 DEF Stores, Walker
      <3>2. want[c] \in Filter
        <4>1. RequestOK(c) /\ c # Retainer BY <3>1, TopicTreeAssumption DEF IInv, WalkOK, TopicTreeAssumption
        <4>2. QED BY <3>1, <4>1 DEF RequestOK
      <3>3. QED BY <1>1, <2>2, <3>1, <3>2
    <2>3. QED BY <1>3, <2>1, <2>2 DEF NodesMove
  <1>4. ASSUME NEW n \in Node, retained'[n] # None
        PROVE  /\ n \in Created /\ path[n] \in Topic
               /\ \/ retained[n] # None
                  \/ /\ op[Retainer] = "store" /\ want[Retainer] = path[n]
                     /\ op'[Retainer] = op[Retainer] /\ want'[Retainer] = want[Retainer]
    <2>1. CASE retained[n] # None BY <2>1 DEF HeldOK
    <2>2. CASE op[Retainer] = "store" /\ Stores(Retainer, n)
      <3>1. /\ Retainer \in Walker /\ pc[Retainer] = "leaf" /\ n = at[Retainer]
            /\ op'[Retainer] = op[Retainer] /\ want'[Retainer] = want[Retainer]
        BY <2>2 DEF Stores, Walker
      <3>2. want[Retainer] \in Topic BY <3>1 DEF IInv, WalkOK, RequestOK
      <3>3. QED BY <1>1, <2>2, <3>1, <3>2
    <2>3. QED BY <1>4, <2>1, <2>2 DEF NodesMove
  <1>5. QED BY <1>2, <1>3, <1>4

LEMMA HeldKept ==
  ASSUME IInv, HeldOK, TreeMoves, NodesMove
  PROVE  HeldOK'
  <1>1. Created \subseteq Created' BY MovesKeep
  <1>2. QED BY <1>1, Added DEF HeldOK

LEMMA ClosedKept ==
  ASSUME IInv, TreeMoves, NEW S, S \subseteq Node, Closed(S)
  PROVE  Closed(S)'
  <1>1. nodes \in Nat /\ nodes' \in Nat /\ nodes <= nodes' BY MovesKeep
  <1>2. ASSUME NEW n \in Node, n > nodes' PROVE n \in S
    <2>1. n \in Nat /\ n > nodes BY <1>1, <1>2, TopicTreeAssumption DEF TopicTreeAssumption, Node, Root
    <2>2. QED BY <2>1 DEF Closed
  <1>3. ASSUME NEW n \in S, NEW l \in Level, children'[n][l] # None PROVE children'[n][l] \in S
    <2>0. n \in Node OBVIOUS
    <2>1. CASE children'[n][l] = children[n][l] BY <1>3, <2>1 DEF Closed
    <2>2. CASE TreeGrows /\ children'[n][l] # children[n][l]
      <3>1. children'[n][l] = nodes' /\ nodes' = nodes + 1 /\ nodes' \in Node BY <2>0, <2>2 DEF TreeGrows
      <3>2. nodes' > nodes BY <1>1, <3>1
      <3>3. QED BY <3>1, <3>2 DEF Closed
    <2>3. QED BY <1>3, <2>0, <2>1, <2>2 DEF TreeMoves, TreeShrinks
  <1>4. QED BY <1>2, <1>3 DEF Closed

LEMMA ReachClosed ==
  ASSUME IInv
  PROVE  Reach \subseteq Node /\ Root \in Reach /\ Closed(Reach)
  <1>0. Root \in Node BY NodeFacts DEF IInv, Types
  <1>1. Reach \subseteq Node /\ Root \in Reach BY <1>0 DEF Reach
  <1>2. \A n \in Node : n > nodes => n \in Reach BY DEF Reach, Closed
  <1>3. ASSUME NEW n \in Reach, NEW l \in Level, children[n][l] # None PROVE children[n][l] \in Reach
    <2>1. children[n][l] \in Node BY <1>1, <1>3 DEF IInv, Types, TreeTypes
    <2>2. ASSUME NEW S \in SUBSET Node, Root \in S, Closed(S) PROVE children[n][l] \in S
      <3>1. n \in S BY <2>2 DEF Reach
      <3>2. QED BY <1>3, <2>2, <3>1 DEF Closed
    <2>3. QED BY <2>1, <2>2 DEF Reach
  <1>4. QED BY <1>1, <1>2, <1>3 DEF Closed

LEMMA ReachIn ==
  ASSUME NEW S, S \subseteq Node, Root \in S, Closed(S)
  PROVE  Reach \subseteq S
  BY DEF Reach

LEMMA ReachShrinks ==
  ASSUME IInv, TreeMoves
  PROVE  Reach' \subseteq Reach
  <1>1. ASSUME NEW n \in Reach' PROVE n \in Reach
    <2>1. n \in Node BY DEF Reach
    <2>2. ASSUME NEW S \in SUBSET Node, Root \in S, Closed(S) PROVE n \in S
      <3>1. Closed(S)' BY <2>2, ClosedKept
      <3>2. QED BY <2>2, <3>1 DEF Reach
    <2>3. QED BY <2>1, <2>2 DEF Reach
  <1>2. QED BY <1>1

LEMMA BareFacts ==
  ASSUME IInv, HeldOK, NEW w \in Walker
  PROVE  /\ Bare(w) \subseteq Node /\ Closed(Bare(w)) /\ \A n \in Bare(w) : ~HoldsAt(w, n)
  <1>1. Bare(w) \subseteq Node /\ \A n \in Bare(w) : ~HoldsAt(w, n) BY DEF Bare
  <1>2. ASSUME NEW n \in Bare(w), NEW l \in Level, children[n][l] # None PROVE children[n][l] \in Bare(w)
    <2>1. PICK S \in SUBSET Node : Closed(S) /\ n \in S /\ \A m \in S : ~HoldsAt(w, m) BY DEF Bare
    <2>2. children[n][l] \in S BY <1>2, <2>1 DEF Closed
    <2>3. QED BY <2>1, <2>2 DEF Bare
  <1>3. ASSUME NEW n \in Node, n > nodes PROVE n \in Bare(w)
    <2>1. PICK S : S = {k \in Node : k > nodes} OBVIOUS
    <2>2. nodes \in Nat BY NodeFacts DEF IInv, Types
    <2>3. ASSUME NEW k \in S, NEW l \in Level, children[k][l] # None PROVE FALSE
      <3>1. k \in Node /\ k > nodes /\ k \in Nat
        BY <2>1, TopicTreeAssumption DEF TopicTreeAssumption, Node, Root
      <3>2. PICK c : c = children[k][l] OBVIOUS
      <3>3. c \in 1 .. nodes /\ parent[c] = k BY <2>3, <3>1, <3>2 DEF IInv, TreeOK, Created
      <3>4. parent[c] \in 0 .. c - 1 BY <3>3 DEF IInv, TreeOK, Created
      <3>5. QED BY <2>2, <3>1, <3>3, <3>4
    <2>4. Closed(S) BY <2>1, <2>3 DEF Closed
    <2>5. \A k \in S : k \notin Created BY <2>1, <2>2 DEF Created
    <2>6. \A k \in S : ~HoldsAt(w, k) BY <2>1, <2>5 DEF HeldOK, HoldsAt, Walker
    <2>7. QED BY <1>3, <2>1, <2>4, <2>6 DEF Bare
  <1>4. QED BY <1>1, <1>2, <1>3 DEF Closed

LEMMA BareGrows ==
  ASSUME IInv, TreeMoves, NEW w, \A n \in Node : HoldsAt(w, n)' => HoldsAt(w, n)
  PROVE  Bare(w) \subseteq Bare(w)'
  <1>1. ASSUME NEW n \in Bare(w) PROVE n \in Bare(w)'
    <2>1. PICK S \in SUBSET Node : Closed(S) /\ n \in S /\ \A m \in S : ~HoldsAt(w, m) BY DEF Bare
    <2>2. Closed(S)' BY <2>1, ClosedKept
    <2>3. \A m \in S : ~HoldsAt(w, m)' BY <2>1
    <2>4. QED BY <2>1, <2>2, <2>3 DEF Bare
  <1>2. QED BY <1>1
-----------------------------------------------------------------------------
(* What a removal has removed can be found no more *)

\* A removal that has not found its node yet is on the only way to it.
Looks == {"seek", "found", "uncount", "delete"}
LooksAt(w) ==
  op[w] \in Removes =>
    IF pc[w] \in Looks
    THEN \A n \in Reach \ Bare(w) : path[n] = path[at[w]] => n = at[w]
    ELSE \A n \in Reach : path[n] = want[w] => ~HoldsAt(w, n)
LooksOK == \A w \in Walker : LooksAt(w)

LEMMA PathsIn ==
  ASSUME IInv
  PROVE  /\ \A n \in Node : path[n] \in Seq(Level)
         /\ path[Root] = <<>> /\ Root \in Node /\ None \notin Node
         /\ \A n \in Created : n \in Node /\ path[n] # <<>>
  <1>1. \A n \in Node : path[n] \in Seq(Level) BY DEF IInv, Types, TreeTypes
  <1>2. path[Root] = <<>> /\ Root \in Node /\ None \notin Node BY NodeFacts DEF IInv, Types, TreeOK
  <1>3. ASSUME NEW n \in Created PROVE n \in Node /\ path[n] # <<>>
    <2>1. PICK l \in Level : parent[n] \in 0 .. n - 1 /\ path[n] = Append(path[parent[n]], l) BY DEF IInv, TreeOK
    <2>2. n \in Node /\ parent[n] \in Node
      <3>1. nodes \in Nat /\ 0 .. nodes \subseteq Node BY NodeFacts DEF IInv, Types
      <3>2. QED BY <2>1, <3>1 DEF Created
    <2>3. QED BY <1>1, <2>1, <2>2, AppendIs
  <1>4. QED BY <1>1, <1>2, <1>3

\* A step that adds nothing of w, and leaves w where it is or on its way back.
LEMMA LooksKept ==
  ASSUME IInv, HeldOK, TreeMoves, NEW w \in Walker, LooksAt(w),
         \A n \in Node : HoldsAt(w, n)' => HoldsAt(w, n),
         op'[w] \in Removes => op[w] = op'[w] /\ want'[w] = want[w],
         pc'[w] \in Looks <=> pc[w] \in Looks, pc[w] \in Looks => at'[w] = at[w]
  PROVE  LooksAt(w)'
  <1> SUFFICES ASSUME op[w] \in Removes, op'[w] = op[w], want'[w] = want[w] PROVE LooksAt(w)' BY DEF LooksAt
  <1>1. Reach' \subseteq Reach /\ Bare(w) \subseteq Bare(w)' /\ Reach \subseteq Node
    BY ReachShrinks, BareGrows, ReachClosed
  <1>2. ASSUME NEW n \in Node, n \notin Bare(w) PROVE n \in 0 .. nodes /\ path'[n] = path[n]
    <2>1. ~(n > nodes) BY <1>2, BareFacts DEF Closed
    <2>2. nodes \in Nat /\ n \in Nat
      BY NodeFacts, TopicTreeAssumption DEF IInv, Types, Node, Root, TopicTreeAssumption
    <2>3. n \in 0 .. nodes BY <2>1, <2>2
    <2>4. QED BY <2>3, MovesKeep
  <1>3. CASE pc[w] \in Looks
    <2>1. path'[at[w]] = path[at[w]] BY MovesKeep DEF IInv, WalkOK, PlaceOK
    <2>2. ASSUME NEW n \in Reach' \ Bare(w)', path'[n] = path[at[w]] PROVE n = at[w]
      <3>1. n \in Reach \ Bare(w) /\ n \in Node BY <1>1
      <3>2. path[n] = path[at[w]] BY <1>2, <2>2, <3>1
      <3>3. QED BY <1>3, <3>1, <3>2 DEF LooksAt
    <2>3. at'[w] = at[w] /\ pc'[w] \in Looks BY <1>3
    <2>4. QED BY <2>1, <2>2, <2>3 DEF LooksAt
  <1>4. CASE pc[w] \notin Looks
    <2>1. ASSUME NEW n \in Reach', path'[n] = want[w] PROVE ~HoldsAt(w, n)'
      <3>1. n \in Reach /\ n \in Node BY <1>1
      <3>2. CASE n \in Bare(w) BY <3>1, <3>2, BareFacts
      <3>3. CASE n \notin Bare(w)
        <4>1. path[n] = want[w] BY <1>2, <2>1, <3>1, <3>3
        <4>2. ~HoldsAt(w, n) BY <1>4, <3>1, <4>1 DEF LooksAt
        <4>3. QED BY <3>1, <4>2
      <3>4. QED BY <3>2, <3>3
    <2>2. pc'[w] \notin Looks BY <1>4
    <2>3. QED BY <2>1, <2>2 DEF LooksAt, HoldsAt
  <1>5. QED BY <1>3, <1>4

\* At the only node there may be, and it holds nothing any more.
LEMMA LooksGone ==
  ASSUME IInv, HeldOK, UNCHANGED treeVars, NEW w \in Walker, LooksAt(w), op[w] \in Removes,
         pc[w] \in Looks \ {"seek"}, pc'[w] \notin Looks, want'[w] = want[w],
         \A n \in Node : HoldsAt(w, n)' => HoldsAt(w, n), NEW m, m = at[w], ~HoldsAt(w, m)'
  PROVE  LooksAt(w)'
  <1>1. path' = path /\ Reach' \subseteq Reach /\ Reach \subseteq Node
    BY TreeSame, ReachShrinks, ReachClosed DEF treeVars
  <1>2. path[at[w]] = want[w] BY DEF IInv, WalkOK, PlaceOK, AtEnd, Looks
  <1>3. ASSUME NEW n \in Reach', path'[n] = want[w] PROVE ~HoldsAt(w, n)'
    <2>1. n \in Reach /\ n \in Node /\ path[n] = path[at[w]] BY <1>1, <1>2, <1>3
    <2>2. CASE n \in Bare(w) BY <2>1, <2>2, BareFacts
    <2>3. CASE n \notin Bare(w)
      <3>1. n = m BY <2>1, <2>3 DEF LooksAt
      <3>2. QED BY <3>1
    <2>4. QED BY <2>2, <2>3
  <1>4. QED BY <1>3 DEF LooksAt, HoldsAt

\* One level down: whatever leads elsewhere to the same path is bare.
LEMMA SeekLooks ==
  ASSUME IInv, HeldOK, NEW w \in Walker, LooksAt(w), Seek(w), op[w] \in Removes
  PROVE  LooksAt(w)'
  <1>0. PICK m, l, k, p : m = at[w] /\ l = NextLevel(w) /\ k = children[m][l] /\ p = path[m] OBVIOUS
  <1>1. /\ pc[w] = "seek" /\ want' = want /\ op' = op /\ UNCHANGED <<treeVars, subs, retained>>
        /\ k = None => at' = at /\ pc'[w] = "answer"
        /\ k # None => at'[w] = k /\ pc'[w] \in Looks
    BY <1>0 DEF Seek, Goto, Looks, Removes, IInv, Types, WalkTypes
  <1>2. m \in Node /\ l \in Level /\ p \in Seq(Level) /\ want[w] \in Seq(Level)
    BY <1>0, <1>1, WalkerFacts DEF Descends
  <1>3. \A n \in Reach \ Bare(w) : path[n] = p => n = m BY <1>0, <1>1 DEF LooksAt, Looks
  <1>4. PICK q : q = Append(p, l) OBVIOUS
  <1>5. q \in Seq(Level) /\ q # <<>> /\ Len(q) = Len(p) + 1 BY <1>2, <1>4, AppendIs
  <1>6. ASSUME NEW n \in Reach, n \notin Bare(w), NEW j \in Level, children[n][j] # None
        PROVE  /\ children[n][j] \in Reach /\ path[children[n][j]] = Append(path[n], j)
               /\ path[n] \in Seq(Level)
               /\ Append(path[n], j) = q => children[n][j] = k
    <2>1. n \in Node /\ children[n][j] \in Reach BY <1>6, ReachClosed DEF Closed
    <2>2. path[children[n][j]] = Append(path[n], j) /\ path[n] \in Seq(Level)
      BY <1>6, <2>1, PathsIn DEF IInv, TreeOK
    <2>3. ASSUME Append(path[n], j) = q PROVE children[n][j] = k
      <3>1. path[n] = p /\ j = l BY <1>2, <1>4, <2>2, <2>3, AppendParts
      <3>2. n = m BY <1>3, <1>6, <3>1
      <3>3. QED BY <1>0, <3>1, <3>2
    <2>4. QED BY <2>1, <2>2, <2>3
  <1>7. CASE k # None
    <2>1. PICK S : S = {n \in Reach : n \in Bare(w) \/ n = k \/ path[n] # q} OBVIOUS
    <2>2. S \subseteq Node /\ Root \in S BY <1>5, <2>1, ReachClosed, PathsIn
    <2>3. Closed(S)
      <3>1. \A n \in Node : n > nodes => n \in S BY <2>1, ReachClosed, BareFacts DEF Closed
      <3>2. ASSUME NEW n \in S, NEW j \in Level, children[n][j] # None PROVE children[n][j] \in S
        <4>1. CASE n \in Bare(w)
          <5>1. children[n][j] \in Bare(w) /\ children[n][j] \in Reach
            BY <2>1, <3>2, <4>1, BareFacts, ReachClosed DEF Closed
          <5>2. QED BY <2>1, <5>1
        <4>2. CASE n \notin Bare(w) BY <1>6, <2>1, <3>2, <4>2
        <4>3. QED BY <4>1, <4>2
      <3>3. QED BY <3>1, <3>2 DEF Closed
    <2>4. Reach \subseteq S BY <2>2, <2>3, ReachIn
    <2>5. path[k] = q BY <1>0, <1>2, <1>4, <1>7 DEF IInv, TreeOK
    <2>6. Reach' \subseteq Reach /\ Bare(w) \subseteq Bare(w)' /\ path' = path
      <3>1. \A n \in Node : HoldsAt(w, n)' => HoldsAt(w, n) BY <1>1 DEF HoldsAt
      <3>2. QED BY <1>1, <3>1, TreeSame, ReachShrinks, BareGrows DEF treeVars
    <2>7. \A n \in Reach' \ Bare(w)' : path'[n] = path'[k] => n = k BY <2>1, <2>4, <2>5, <2>6
    <2>8. QED BY <1>1, <1>7, <2>7 DEF LooksAt
  <1>8. CASE k = None
    <2>1. PICK S : S = {n \in Reach : n \in Bare(w) \/ ~Under(q, path[n])} OBVIOUS
    <2>2. S \subseteq Node /\ Root \in S
      <3>1. ~Under(q, <<>>)
        <4>1. Len(p) \in Nat BY <1>2, LenProperties
        <4>2. Len(<<>>) = 0 OBVIOUS
        <4>3. QED BY <1>5, <4>1, <4>2 DEF Under
      <3>2. QED BY <2>1, <3>1, ReachClosed, PathsIn
    <2>3. Closed(S)
      <3>1. \A n \in Node : n > nodes => n \in S BY <2>1, ReachClosed, BareFacts DEF Closed
      <3>2. ASSUME NEW n \in S, NEW j \in Level, children[n][j] # None PROVE children[n][j] \in S
        <4>1. CASE n \in Bare(w)
          <5>1. children[n][j] \in Bare(w) /\ children[n][j] \in Reach
            BY <2>1, <3>2, <4>1, BareFacts, ReachClosed DEF Closed
          <5>2. QED BY <2>1, <5>1
        <4>2. CASE n \notin Bare(w)
          <5>1. PICK r : r = path[n] OBVIOUS
          <5>2. /\ n \in Reach /\ children[n][j] \in Reach /\ path[children[n][j]] = Append(r, j) /\ r \in Seq(Level)
                /\ Append(r, j) # q
            BY <1>6, <1>8, <2>1, <3>2, <4>2, <5>1
          <5>3. ~Under(q, r) BY <2>1, <4>2, <5>1
          <5>4. ~Under(q, Append(r, j))
            <6> SUFFICES ASSUME Under(q, Append(r, j)) PROVE FALSE OBVIOUS
            <6>1. Len(r) \in Nat /\ Len(q) \in Nat /\ Len(Append(r, j)) = Len(r) + 1
              BY <1>5, <5>2, LenProperties, AppendIs
            <6>2. CASE Len(q) = Len(r) + 1
              <7>1. Append(r, j) \in Seq(Level) BY <5>2, AppendIs
              <7>2. q = Append(r, j) BY <1>5, <6>1, <6>2, <7>1, UnderAll
              <7>3. QED BY <5>2, <7>2
            <6>3. CASE Len(q) # Len(r) + 1
              <7>1. Len(q) <= Len(r) BY <6>1, <6>3 DEF Under
              <7>2. \A i \in 1 .. Len(q) : q[i] = r[i] BY <5>2, <6>1, <7>1, AppendIs DEF Under
              <7>3. QED BY <5>3, <7>1, <7>2 DEF Under
            <6>4. QED BY <6>2, <6>3
          <5>5. QED BY <2>1, <5>2, <5>4
        <4>3. QED BY <4>1, <4>2
      <3>3. QED BY <3>1, <3>2 DEF Closed
    <2>4. Reach \subseteq S BY <2>2, <2>3, ReachIn
    <2>5. Under(q, want[w])
      <3>1. Under(p, want[w]) /\ Len(p) < Len(want[w]) /\ l = want[w][Len(p) + 1]
        BY <1>0, <1>1 DEF IInv, WalkOK, PlaceOK, Descends, NextLevel
      <3>2. QED BY <1>2, <1>4, <3>1, UnderAppend
    <2>6. Reach' \subseteq Reach /\ path' = path BY <1>1, TreeSame, ReachShrinks DEF treeVars
    <2>7. \A n \in Reach : path[n] = want[w] => ~HoldsAt(w, n) BY <2>1, <2>4, <2>5, BareFacts
    <2>8. \A n \in Reach' : path'[n] = want'[w] => ~HoldsAt(w, n)' BY <1>1, <2>6, <2>7 DEF HoldsAt
    <2>9. pc'[w] \notin Looks BY <1>1, <1>8 DEF Looks
    <2>10. QED BY <2>8, <2>9 DEF LooksAt, HoldsAt
  <1>9. QED BY <1>7, <1>8

LEMMA RemoveLooks ==
  ASSUME IInv, HeldOK, LooksOK, NEW w \in Walker, Remove(w)
  PROVE  LooksAt(w)'
  <1> SUFFICES ASSUME op'[w] \in Removes PROVE LooksAt(w)' BY DEF LooksAt
  <1>1. /\ op'[w] = op[w] /\ op[w] \in Removes /\ want'[w] = want[w] /\ LooksAt(w) /\ TreeMoves
        /\ RequestOK(w) /\ PlaceOK(w)
    <2>1. Works(w) /\ TreeMoves BY RemoveMoves
    <2>2. op'[w] # "store" BY DEF Removes
    <2>3. QED BY <2>1, <2>2 DEF Works, LooksOK, IInv, WalkOK
  <1>2. w = Retainer <=> op[w] = "clear"
    <2>1. op[w] = "unsubscribe" => w \in Client BY <1>1 DEF RequestOK
    <2>2. op[w] = "clear" => w = Retainer BY <1>1 DEF RequestOK
    <2>3. Retainer \notin Client BY TopicTreeAssumption DEF TopicTreeAssumption
    <2>4. QED BY <1>1, <2>1, <2>2, <2>3 DEF Removes
  <1>3. pc \in [Walker -> Steps] /\ at \in [Walker -> Node] BY DEF IInv, Types, WalkTypes
  <1>4. CASE Seek(w) BY <1>1, <1>4, SeekLooks
  <1>5. CASE LoadSub(w)
    <2>1. pc[w] = "found" /\ UNCHANGED <<treeVars, subs, retained, at>> BY <1>5 DEF LoadSub
    <2>2. pc'[w] = IF w \in subs[at[w]] THEN "uncount" ELSE "subs" BY <1>3, <1>5 DEF LoadSub, Goto, Present
    <2>3. \A n \in Node : HoldsAt(w, n)' => HoldsAt(w, n) BY <2>1 DEF HoldsAt
    <2>4. CASE w \in subs[at[w]]
      <3>1. pc'[w] \in Looks /\ pc[w] \in Looks /\ at'[w] = at[w] BY <2>1, <2>2, <2>4 DEF Looks
      <3>2. QED BY <1>1, <2>3, <3>1, LooksKept
    <2>5. CASE w \notin subs[at[w]]
      <3>1. pc'[w] \notin Looks /\ pc[w] \in Looks \ {"seek"} BY <2>1, <2>2, <2>5 DEF Looks
      <3>2. w # Retainer BY <1>2, <1>5 DEF LoadSub
      <3>3. PICK m : m = at[w] OBVIOUS
      <3>4. ~HoldsAt(w, m)' BY <2>1, <2>5, <3>2, <3>3 DEF HoldsAt
      <3>5. QED BY <1>1, <2>1, <2>3, <3>1, <3>3, <3>4, LooksGone
    <2>6. QED BY <2>4, <2>5
  <1>6. CASE Uncount(w)
    <2>1. pc[w] = "uncount" /\ pc'[w] = "delete" /\ UNCHANGED <<subs, retained, at>> BY <1>3, <1>6 DEF Uncount, Goto
    <2>2. \A n \in Node : HoldsAt(w, n)' => HoldsAt(w, n) BY <2>1 DEF HoldsAt
    <2>3. QED BY <1>1, <2>1, <2>2, LooksKept DEF Looks
  <1>7. CASE DeleteSub(w)
    <2>1. pc[w] = "delete" /\ pc'[w] = "subs" /\ UNCHANGED <<treeVars, retained, at>>
      BY <1>3, <1>7 DEF DeleteSub, Goto
    <2>2. PICK m : m = at[w] OBVIOUS
    <2>3. subs' = [subs EXCEPT ![m] = @ \ {w}] /\ m \in Node BY <1>3, <1>7, <2>2 DEF DeleteSub, Others
    <2>4. \A n \in Node : subs'[n] = IF n = m THEN subs[m] \ {w} ELSE subs[n] BY <2>3 DEF IInv, Types, NodeTypes
    <2>5. \A n \in Node : HoldsAt(w, n)' => HoldsAt(w, n) BY <2>1, <2>4 DEF HoldsAt
    <2>6. w # Retainer BY <1>1, <1>2, <2>1 DEF RequestOK
    <2>7. ~HoldsAt(w, m)' BY <2>3, <2>4, <2>6 DEF HoldsAt
    <2>8. pc'[w] \notin Looks /\ pc[w] \in Looks \ {"seek"} BY <2>1 DEF Looks
    <2>9. QED BY <1>1, <2>1, <2>2, <2>5, <2>7, <2>8, LooksGone
  <1>8. CASE ClearRetained(w)
    <2>1. pc[w] = "found" /\ pc'[w] = "subs" /\ UNCHANGED <<treeVars, subs, at>>
      BY <1>3, <1>8 DEF ClearRetained, Goto
    <2>2. PICK m : m = at[w] OBVIOUS
    <2>3. retained' = [retained EXCEPT ![m] = None] /\ m \in Node BY <1>3, <1>8, <2>2 DEF ClearRetained
    <2>4. \A n \in Node : retained'[n] = IF n = m THEN None ELSE retained[n]
      BY <2>3 DEF IInv, Types, NodeTypes
    <2>5. \A n \in Node : HoldsAt(w, n)' => HoldsAt(w, n) BY <2>1, <2>4 DEF HoldsAt
    <2>6. w = Retainer BY <1>1, <1>2, <1>8 DEF ClearRetained, Removes
    <2>7. ~HoldsAt(w, m)' BY <2>3, <2>4, <2>6 DEF HoldsAt
    <2>8. pc'[w] \notin Looks /\ pc[w] \in Looks \ {"seek"} BY <2>1 DEF Looks
    <2>9. QED BY <1>1, <2>1, <2>2, <2>5, <2>7, <2>8, LooksGone
  <1>9. CASE LooksEmpty(w) \/ HoldDeleted(w) \/ Mark(w) \/ StillEmpty(w) \/ Cut(w) \/ LetGo(w)
    <2>1. UNCHANGED <<subs, retained>> BY <1>9 DEF LooksEmpty, Look, HoldDeleted, Mark, StillEmpty, Cut, LetGo
    <2>2. pc[w] \notin Looks /\ pc'[w] \notin Looks
      BY <1>3, <1>9 DEF LooksEmpty, Look, Up, HoldDeleted, Mark, StillEmpty, Cut, LetGo, Goto, Looks
    <2>3. \A n \in Node : HoldsAt(w, n)' => HoldsAt(w, n) BY <2>1 DEF HoldsAt
    <2>4. QED BY <1>1, <2>2, <2>3, LooksKept
  <1>10. CASE Again(w) BY <1>1, <1>10 DEF Again, RequestOK, Removes
  <1>11. QED BY <1>4, <1>5, <1>6, <1>7, <1>8, <1>9, <1>10 DEF Remove

\* A walker that does not move, and one that does not remove.
LEMMA LooksStays ==
  ASSUME IInv, HeldOK, LooksOK, TreeMoves, NodesMove, NEW w \in Walker,
         op'[w] = op[w], want'[w] = want[w], pc'[w] = pc[w] \/ op[w] \notin Removes, at'[w] = at[w]
  PROVE  LooksAt(w)'
  <1> SUFFICES ASSUME op[w] \in Removes PROVE LooksAt(w)' BY DEF LooksAt
  <1>1. ASSUME NEW n \in Node, HoldsAt(w, n)' PROVE HoldsAt(w, n)
    <2>1. op[w] \notin {"subscribe", "store"} BY DEF Removes
    <2>2. CASE w = Retainer BY <1>1, <2>1, <2>2 DEF HoldsAt, NodesMove
    <2>3. CASE w # Retainer
      <3>1. w \in Client BY <2>3 DEF Walker
      <3>2. QED BY <1>1, <2>1, <2>3, <3>1 DEF HoldsAt, NodesMove
    <2>4. QED BY <2>2, <2>3
  <1>2. LooksAt(w) BY DEF LooksOK
  <1>3. QED BY <1>1, <1>2, LooksKept

LEMMA OthersLook ==
  ASSUME IInv, HeldOK, LooksOK, TreeMoves, NodesMove, NEW w \in Walker, OthersStay(w), LooksAt(w)'
  PROVE  LooksOK'
  <1>1. ASSUME NEW v \in Walker \ {w} PROVE LooksAt(v)' BY LooksStays DEF OthersStay
  <1>2. QED BY <1>1 DEF LooksOK

\* A request begins at the root, and there is no other node with its path.
LEMMA RequestLooks ==
  ASSUME IInv, HeldOK, LooksOK, NEW w \in Walker, NEW o, NEW f, NEW first, Request(w, o, f, first),
         first = "seek" \/ o \notin Removes
  PROVE  OthersStay(w) /\ LooksAt(w)'
  <1>1. /\ pc[w] = "idle" /\ pc'[w] = first /\ OthersStay(w) /\ op'[w] = o /\ at' = at
        /\ UNCHANGED <<treeVars, subs, retained>>
    BY DEF Request, Goto, IInv, Types, WalkTypes, OthersStay
  <1>2. at[w] = Root BY <1>1 DEF IInv, WalkOK, RequestOK
  <1>3. ASSUME NEW n \in Reach' \ Bare(w)', path'[n] = path'[Root] PROVE n = Root
    <2>1. n \in Node /\ n \in Reach BY <1>1, TreeSame, ReachShrinks, ReachClosed
    <2>2. n \notin Bare(w)
      <3>1. \A m \in Node : HoldsAt(w, m)' => HoldsAt(w, m) BY <1>1 DEF HoldsAt
      <3>2. QED BY <1>1, <3>1, TreeSame, BareGrows
    <2>3. ~(n > nodes) BY <2>1, <2>2, BareFacts DEF Closed
    <2>4. nodes \in Nat /\ n \in Nat
      BY <2>1, NodeFacts, TopicTreeAssumption DEF IInv, Types, Node, Root, TopicTreeAssumption
    <2>5. n # Root => n \in Created BY <2>3, <2>4 DEF Created, Root
    <2>6. path[n] = <<>> BY <1>1, <1>3, PathsIn DEF treeVars
    <2>7. QED BY <2>5, <2>6, PathsIn
  <1>4. LooksAt(w)'
    <2>1. o \in Removes => pc'[w] \in Looks /\ at'[w] = Root BY <1>1, <1>2 DEF Looks
    <2>2. QED BY <1>1, <1>3, <2>1 DEF LooksAt
  <1>5. QED BY <1>1, <1>4

LEMMA CollectStays ==
  ASSUME IInv, NEW c \in Client, SearchRetained(c)
  PROVE  c \in Walker /\ OthersStay(c) /\ pc[c] = "collect" /\ op[c] = "subscribe"
  <1>1. c \in Walker BY DEF Walker
  <1>2. ASSUME NEW step, NEW next, Collect(c, step, next) PROVE OthersStay(c) /\ pc[c] = "collect"
    BY <1>2 DEF Collect, Goto, IInv, Types, WalkTypes, OthersStay
  <1>3. LoadKid(c) => OthersStay(c) /\ pc[c] = "collect" BY <1>2 DEF LoadKid
  <1>4. LoadRetained(c) => OthersStay(c) /\ pc[c] = "collect" BY <1>2 DEF LoadRetained
  <1>5. RangeChildren(c) => OthersStay(c) /\ pc[c] = "collect" BY <1>2, ZenonT(30) DEF RangeChildren
  <1>6. OthersStay(c) /\ pc[c] = "collect" BY <1>3, <1>4, <1>5 DEF SearchRetained
  <1>7. op[c] = "subscribe" BY <1>1, <1>6 DEF IInv, WalkOK, RequestOK
  <1>8. QED BY <1>1, <1>6, <1>7

LEMMA NextLooks ==
  ASSUME IInv, HeldOK, LooksOK, [Next]_vars
  PROVE  LooksOK'
  <1>1. TreeMoves /\ NodesMove BY NextMoves
  <1>2. ASSUME UNCHANGED <<pc, op, want, at>> PROVE LooksOK' BY <1>1, <1>2, LooksStays DEF LooksOK
  <1>3. ASSUME NEW w \in Walker, Insert(w) PROVE LooksOK'
    <2>1. OthersStay(w) /\ op' = op /\ want' = want BY <1>3, InsertMoves DEF Works
    <2>2. op[w] \notin Removes
      <3>1. pc[w] \in InsertSteps
        BY <1>3 DEF Insert, Raise, LoadChild, StoreChild, Count, Lower, CheckRemove, BackOff, WaitDeleted, Enter,
                    StoreSub, StoreRetained, ReleaseLeaf, InsertSteps
      <3>2. QED BY <3>1 DEF IInv, WalkOK, RequestOK, Inserts, Removes
    <2>3. LooksAt(w)' BY <2>1, <2>2 DEF LooksAt
    <2>4. QED BY <1>1, <2>1, <2>3, OthersLook
  <1>4. ASSUME NEW w \in Walker, Remove(w) PROVE LooksOK'
    <2>1. OthersStay(w) BY <1>4, RemoveMoves DEF Works
    <2>2. QED BY <1>1, <1>4, <2>1, RemoveLooks, OthersLook
  <1>5. ASSUME NEW w \in Walker, Answer(w) PROVE LooksOK'
    <2>1. OthersStay(w) /\ op'[w] = "none" BY <1>5 DEF Answer, Goto, IInv, Types, WalkTypes, OthersStay
    <2>2. LooksAt(w)' BY <2>1 DEF LooksAt, Removes
    <2>3. QED BY <1>1, <2>1, <2>2, OthersLook
  <1>6. ASSUME NEW c \in Client, SearchRetained(c) PROVE LooksOK'
    <2>1. c \in Walker /\ OthersStay(c) /\ op'[c] = "subscribe" BY <1>6, CollectStays, CollectMoves
    <2>2. LooksAt(c)' BY <2>1 DEF LooksAt, Removes
    <2>3. QED BY <1>1, <2>1, <2>2, OthersLook
  <1>7. ASSUME NEW p \in Publisher, Search(p) PROVE UNCHANGED <<pc, op, want, at>>
    BY <1>7, Zenon DEF Search, LoadLevel, TakeSubscribers, Deliver, walkVars
  <1>8. ASSUME NEW w \in Walker, NEW o, NEW f, NEW first, Request(w, o, f, first), first = "seek" \/ o \notin Removes
        PROVE  LooksOK'
    BY <1>1, <1>8, RequestLooks, OthersLook
  <1>9. ASSUME Environment PROVE LooksOK'
    <2>1. Client \subseteq Walker /\ Retainer \in Walker BY DEF Walker
    <2>2. ASSUME NEW c \in Client, NEW f \in Filter, Subscribe(c, f) PROVE LooksOK'
      BY <1>8, <2>1, <2>2 DEF Subscribe, Removes
    <2>3. ASSUME NEW c \in Client, NEW f \in Filter, UnSubscribe(c, f) PROVE LooksOK'
      BY <1>8, <2>1, <2>3 DEF UnSubscribe
    <2>4. ASSUME NEW t \in Topic, NEW o, NEW m, Retain(t, o, m) PROVE LooksOK'
      <3>1. PICK first : first = IF o = "store" THEN "raise" ELSE "seek" OBVIOUS
      <3>2. Request(Retainer, o, t, first) BY <2>4, <3>1 DEF Retain
      <3>3. first = "seek" \/ o \notin Removes BY <3>1 DEF Removes
      <3>4. QED BY <1>8, <2>1, <3>2, <3>3
    <2>5. ASSUME NEW p \in Publisher, NEW t \in Topic, Publish(p, t) PROVE LooksOK'
      BY <1>2, <2>5 DEF Publish, walkVars
    <2>6. QED BY <1>9, <2>2, <2>3, <2>4, <2>5 DEF Environment
  <1>10. CASE UNCHANGED vars BY <1>2, <1>10 DEF vars, walkVars
  <1>11. CASE Next
    BY <1>2, <1>3, <1>4, <1>5, <1>6, <1>7, <1>9, <1>10, <1>11, Zenon DEF Next, Walk, Quiet
  <1>12. QED BY <1>10, <1>11
-----------------------------------------------------------------------------
(* What can be found is noted *)

\* What can be found is what clients have, or are unsubscribing from and still have, or
\* are subscribing to; the same of retained messages.
Asks(c, f) == op[c] = "subscribe" /\ want[c] = f
NotedOK ==
  /\ \A n \in Reach, c \in Client : c \in subs[n] => path[n] \in held[c] \/ Asks(c, path[n])
  /\ \A n \in Reach : retained[n] # None => kept[path[n]] # None \/ want[Retainer] = path[n]
  /\ op[Retainer] \in {"store", "replace"} => kept[want[Retainer]] # None

LEMMA NotedBefore ==
  ASSUME IInv, HeldOK, NotedOK, TreeMoves, NodesMove
  PROVE  /\ \A n \in Reach', c \in Client : c \in subs'[n] =>
              /\ n \in Reach /\ path'[n] = path[n] /\ path[n] \in Filter
              /\ path[n] \in held[c] \/ Asks(c, path[n])
              /\ c \in subs[n] \/ op[c] = "subscribe"
         /\ \A n \in Reach' : retained'[n] # None =>
              /\ n \in Reach /\ path'[n] = path[n] /\ path[n] \in Topic
              /\ kept[path[n]] # None \/ want[Retainer] = path[n]
              /\ retained[n] # None \/ op[Retainer] = "store"
  <1>1. Reach' \subseteq Reach /\ Reach \subseteq Node BY ReachShrinks, ReachClosed
  <1>2. ASSUME NEW n \in Reach', NEW c \in Client, c \in subs'[n]
        PROVE  /\ n \in Reach /\ path'[n] = path[n] /\ path[n] \in Filter
               /\ path[n] \in held[c] \/ Asks(c, path[n])
               /\ c \in subs[n] \/ op[c] = "subscribe"
    <2>1. n \in Reach /\ n \in Node BY <1>1
    <2>2. QED BY <1>2, <2>1, Added DEF NotedOK, Asks
  <1>3. ASSUME NEW n \in Reach', retained'[n] # None
        PROVE  /\ n \in Reach /\ path'[n] = path[n] /\ path[n] \in Topic
               /\ kept[path[n]] # None \/ want[Retainer] = path[n]
               /\ retained[n] # None \/ op[Retainer] = "store"
    <2>1. n \in Reach /\ n \in Node BY <1>1
    <2>2. QED BY <1>3, <2>1, Added DEF NotedOK
  <1>4. QED BY <1>2, <1>3

\* A step that answers nobody.
LEMMA NotedKept ==
  ASSUME IInv, HeldOK, NotedOK, TreeMoves, NodesMove,
         \A c \in Client, f \in Filter : f \in held[c] \/ Asks(c, f) => f \in held'[c] \/ Asks(c, f)',
         \A t \in Topic : kept[t] # None \/ want[Retainer] = t => kept'[t] # None \/ want'[Retainer] = t,
         op'[Retainer] \in {"store", "replace"} => kept'[want'[Retainer]] # None
  PROVE  NotedOK'
  <1>1. ASSUME NEW n \in Reach', NEW c \in Client, c \in subs'[n]
        PROVE  path'[n] \in held'[c] \/ Asks(c, path[n])'
    <2>1. PICK f : f = path[n] OBVIOUS
    <2>2. path'[n] = f /\ f \in Filter /\ (f \in held[c] \/ Asks(c, f)) BY <1>1, <2>1, NotedBefore
    <2>3. f \in held'[c] \/ Asks(c, f)' BY <2>2
    <2>4. QED BY <2>2, <2>3 DEF Asks
  <1>2. \A n \in Reach' : retained'[n] # None => kept'[path'[n]] # None \/ want'[Retainer] = path'[n]
    BY NotedBefore
  <1>3. QED BY <1>1, <1>2 DEF NotedOK

LEMMA AnswerNoted ==
  ASSUME IInv, HeldOK, LooksOK, NotedOK, NEW w \in Walker, Answer(w)
  PROVE  NotedOK'
  <1>1. TreeMoves /\ NodesMove BY TreeSame, NodesSame DEF Answer
  <1>2. /\ pc[w] = "answer" /\ OthersStay(w) /\ op'[w] = "none" /\ want'[w] = <<>> /\ kept' = kept
        /\ UNCHANGED <<subs, retained>>
    BY DEF Answer, Goto, IInv, Types, WalkTypes, OthersStay
  <1>3. RequestOK(w) BY DEF IInv, WalkOK
  <1>4. \A c \in Client \ {w} : held'[c] = held[c] /\ op'[c] = op[c] /\ want'[c] = want[c]
    <2>1. held \in [Client -> SUBSET Filter] BY DEF IInv, Types, NoteTypes
    <2>2. \A c \in Client \ {w} : held'[c] = held[c] BY <2>1 DEF Answer
    <2>3. QED BY <1>2, <2>2 DEF OthersStay, Walker
  <1>5. \A n \in Reach : op[w] \in Removes /\ path[n] = want[w] => ~HoldsAt(w, n)
    BY <1>2 DEF LooksOK, LooksAt, Looks
  <1>6. ASSUME NEW n \in Reach', NEW c \in Client, c \in subs'[n]
        PROVE  path'[n] \in held'[c] \/ Asks(c, path[n])'
    <2>1. PICK f : f = path[n] OBVIOUS
    <2>2. /\ n \in Reach /\ path'[n] = f /\ f \in Filter /\ (f \in held[c] \/ Asks(c, f))
          /\ c \in subs[n]
      BY <1>1, <1>2, <1>6, <2>1, NotedBefore
    <2>3. CASE c # w BY <1>4, <2>2, <2>3 DEF Asks
    <2>4. CASE c = w
      <3>1. held \in [Client -> SUBSET Filter] /\ c # Retainer
        BY TopicTreeAssumption DEF TopicTreeAssumption, IInv, Types, NoteTypes
      <3>2. CASE op[w] = "subscribe"
        <4>1. held'[c] = held[c] \cup {want[c]} BY <2>4, <3>1, <3>2 DEF Answer
        <4>2. QED BY <2>2, <4>1 DEF Asks
      <3>3. CASE op[w] = "unsubscribe"
        <4>1. held'[c] = held[c] \ {want[c]} BY <2>4, <3>1, <3>3 DEF Answer
        <4>2. f # want[c] BY <1>5, <2>1, <2>2, <2>4, <3>1, <3>3 DEF HoldsAt, Removes
        <4>3. QED BY <2>2, <2>4, <3>3, <4>1, <4>2 DEF Asks
      <3>4. CASE op[w] \notin {"subscribe", "unsubscribe"}
        <4>1. held' = held BY <3>4 DEF Answer
        <4>2. QED BY <2>2, <2>4, <3>4, <4>1 DEF Asks
      <3>5. QED BY <3>2, <3>3, <3>4
    <2>5. QED BY <2>3, <2>4
  <1>7. ASSUME NEW n \in Reach', retained'[n] # None
        PROVE  kept'[path'[n]] # None \/ want'[Retainer] = path'[n]
    <2>1. PICK t : t = path[n] OBVIOUS
    <2>2. /\ n \in Reach /\ path'[n] = t /\ (kept[t] # None \/ want[Retainer] = t)
          /\ retained[n] # None
      BY <1>1, <1>2, <1>7, <2>1, NotedBefore
    <2>3. CASE w # Retainer
      <3>1. want'[Retainer] = want[Retainer] BY <1>2, <2>3 DEF OthersStay, Walker
      <3>2. QED BY <1>2, <2>2, <3>1
    <2>4. CASE w = Retainer
      <3>1. op[w] \in {"store", "clear"}
        <4>1. w \notin Client BY <2>4, TopicTreeAssumption DEF TopicTreeAssumption
        <4>2. op[w] \in Ops BY WalkerFacts
        <4>3. QED BY <1>2, <1>3, <4>1, <4>2 DEF RequestOK, Ops, Inserts, Removes
      <3>2. op[w] = "clear" => t # want[w] BY <1>5, <2>1, <2>2, <2>4 DEF HoldsAt, Removes
      <3>3. kept[t] # None BY <2>2, <2>4, <3>1, <3>2 DEF NotedOK
      <3>4. QED BY <1>2, <2>2, <3>3
    <2>5. QED BY <2>3, <2>4
  <1>8. op'[Retainer] \in {"store", "replace"} => kept'[want'[Retainer]] # None
    <2>1. CASE w = Retainer BY <1>2, <2>1
    <2>2. CASE w # Retainer BY <1>2, <2>2 DEF OthersStay, Walker, NotedOK
    <2>3. QED BY <2>1, <2>2
  <1>9. QED BY <1>6, <1>7, <1>8 DEF NotedOK

LEMMA RequestNoted ==
  ASSUME IInv, HeldOK, NotedOK, NEW c \in Client, NEW o, NEW f, NEW first, Request(c, o, f, first),
         UNCHANGED <<held, kept>>
  PROVE  NotedOK'
  <1>1. TreeMoves /\ NodesMove BY TreeSame, NodesSame DEF Request
  <1>2. /\ c \in Walker /\ c # Retainer /\ Retainer \in Walker
        /\ pc[c] = "idle" /\ \A v \in Walker \ {c} : op'[v] = op[v] /\ want'[v] = want[v]
    BY TopicTreeAssumption DEF TopicTreeAssumption, Walker, Request, IInv, Types, WalkTypes
  <1>3. op[c] = "none" BY <1>2 DEF IInv, WalkOK, RequestOK
  <1>4. \A d \in Client, g \in Filter : g \in held[d] \/ Asks(d, g) => g \in held'[d] \/ Asks(d, g)'
    BY <1>2, <1>3 DEF Asks, Walker
  <1>5. op'[Retainer] = op[Retainer] /\ want'[Retainer] = want[Retainer] BY <1>2
  <1>6. QED BY <1>1, <1>4, <1>5, NotedKept DEF NotedOK

LEMMA RetainNoted ==
  ASSUME IInv, HeldOK, NotedOK, NEW t \in Topic, NEW o, NEW m, Retain(t, o, m),
         o \in {"store", "replace"} => m # None
  PROVE  NotedOK'
  <1>1. PICK first : first = IF o = "store" THEN "raise" ELSE "seek" OBVIOUS
  <1>2. Request(Retainer, o, t, first) /\ held' = held /\ kept' = [kept EXCEPT ![t] = m] BY <1>1 DEF Retain
  <1>3. TreeMoves /\ NodesMove BY <1>2, TreeSame, NodesSame DEF Request
  <1>4. /\ Retainer \in Walker /\ Retainer \notin Client /\ pc[Retainer] = "idle"
        /\ op'[Retainer] = o /\ want'[Retainer] = t
        /\ \A v \in Walker \ {Retainer} : op'[v] = op[v] /\ want'[v] = want[v]
    BY <1>2, TopicTreeAssumption DEF TopicTreeAssumption, Walker, Request, IInv, Types, WalkTypes
  <1>5. want[Retainer] = <<>> BY <1>4 DEF IInv, WalkOK, RequestOK
  <1>6. \A c \in Client, g \in Filter : g \in held[c] \/ Asks(c, g) => g \in held'[c] \/ Asks(c, g)'
    BY <1>2, <1>4 DEF Asks, Walker
  <1>7. \A s \in Topic : kept'[s] = IF s = t THEN m ELSE kept[s] BY <1>2 DEF IInv, Types, NoteTypes
  <1>8. \A s \in Topic : s # <<>> BY TopicTreeAssumption DEF TopicTreeAssumption
  <1>9. \A s \in Topic : kept[s] # None \/ want[Retainer] = s => kept'[s] # None \/ want'[Retainer] = s
    BY <1>4, <1>5, <1>7, <1>8
  <1>10. op'[Retainer] \in {"store", "replace"} => kept'[want'[Retainer]] # None BY <1>4, <1>7
  <1>11. QED BY <1>3, <1>6, <1>9, <1>10, NotedKept

LEMMA NextNoted ==
  ASSUME IInv, HeldOK, LooksOK, NotedOK, [Next]_vars
  PROVE  NotedOK'
  <1>1. TreeMoves /\ NodesMove BY NextMoves
  <1>2. ASSUME UNCHANGED <<op, want, held, kept>> PROVE NotedOK'
    <2>1. \A c \in Client, f \in Filter : f \in held[c] \/ Asks(c, f) => f \in held'[c] \/ Asks(c, f)'
      BY <1>2 DEF Asks
    <2>2. QED BY <1>1, <1>2, <2>1, NotedKept DEF NotedOK
  <1>3. ASSUME NEW w \in Walker, Works(w) PROVE NotedOK'
    <2>1. \A c \in Client : c \in Walker /\ op[c] # "replace" /\ op[c] # "store"
      BY TopicTreeAssumption DEF TopicTreeAssumption, Walker, IInv, WalkOK, RequestOK
    <2>2. \A v \in Walker : want'[v] = want[v] /\ (op'[v] = op[v] \/ (op[v] = "replace" /\ op'[v] = "store"))
      BY <1>3 DEF Works, OthersStay
    <2>3. held' = held /\ kept' = kept BY <1>3 DEF Works
    <2>4. \A c \in Client, f \in Filter : f \in held[c] \/ Asks(c, f) => f \in held'[c] \/ Asks(c, f)'
      BY <2>1, <2>2, <2>3 DEF Asks
    <2>5. Retainer \in Walker BY DEF Walker
    <2>6. QED BY <1>1, <2>2, <2>3, <2>4, <2>5, NotedKept DEF NotedOK
  <1>4. ASSUME NEW w \in Walker, Walk(w) PROVE NotedOK'
    <2>1. Insert(w) => Works(w) BY InsertMoves
    <2>2. Remove(w) => Works(w) BY RemoveMoves
    <2>3. QED BY <1>3, <1>4, <2>1, <2>2, AnswerNoted DEF Walk
  <1>5. ASSUME NEW c \in Client, SearchRetained(c) PROVE NotedOK' BY <1>2, <1>5, CollectMoves DEF clientVars
  <1>6. ASSUME NEW p \in Publisher, Search(p) PROVE UNCHANGED <<op, want, held, kept>>
    BY <1>6, Zenon DEF Search, LoadLevel, TakeSubscribers, Deliver, walkVars, clientVars
  <1>7. ASSUME Environment PROVE NotedOK'
    <2>1. None \notin Message BY TopicTreeAssumption DEF TopicTreeAssumption
    <2>2. ASSUME NEW c \in Client, NEW f \in Filter, Subscribe(c, f) PROVE NotedOK'
      BY <2>2, RequestNoted DEF Subscribe
    <2>3. ASSUME NEW c \in Client, NEW f \in Filter, UnSubscribe(c, f) PROVE NotedOK'
      BY <2>3, RequestNoted DEF UnSubscribe
    <2>4. ASSUME NEW t \in Topic, Retain(t, "clear", None) PROVE NotedOK' BY <2>4, RetainNoted
    <2>5. ASSUME NEW t \in Topic, NEW m \in Message, NEW o, Retain(t, o, m) PROVE NotedOK'
      BY <2>1, <2>5, RetainNoted
    <2>6. ASSUME NEW p \in Publisher, NEW t \in Topic, Publish(p, t) PROVE NotedOK'
      BY <1>2, <2>6 DEF Publish, walkVars
    <2>7. QED BY <1>7, <2>2, <2>3, <2>4, <2>5, <2>6 DEF Environment
  <1>8. CASE UNCHANGED vars BY <1>2, <1>8 DEF vars, walkVars, clientVars
  <1>9. CASE Next
    BY <1>2, <1>4, <1>5, <1>6, <1>7, <1>8, <1>9, Zenon DEF Next, Quiet
  <1>10. QED BY <1>8, <1>9
-----------------------------------------------------------------------------
(* The searches *)

Items(q) == {q[i] : i \in DOMAIN q}

LEMMA ItemsFirst ==
  ASSUME NEW S, NEW q \in Seq(S), q # <<>>
  PROVE  /\ Head(q) \in S /\ Tail(q) \in Seq(S)
         /\ Items(q) = {Head(q)} \cup Items(Tail(q))
  <1>1. Head(q) \in S /\ Tail(q) \in Seq(S) /\ Head(q) = q[1] /\ Len(q) \in Nat \ {0} /\ Len(Tail(q)) = Len(q) - 1
    BY HeadTailProperties, LenProperties, EmptySeq
  <1>2. \A i \in 1 .. Len(q) - 1 : Tail(q)[i] = q[i + 1] BY HeadTailProperties
  <1>3. DOMAIN q = 1 .. Len(q) /\ DOMAIN Tail(q) = 1 .. Len(q) - 1 BY <1>1, LenProperties
  <1>4. ASSUME NEW i \in 1 .. Len(q) PROVE q[i] \in {Head(q)} \cup Items(Tail(q))
    <2>1. CASE i = 1 BY <1>1, <2>1
    <2>2. CASE i # 1
      <3>1. i - 1 \in 1 .. Len(q) - 1 /\ (i - 1) + 1 = i BY <1>1, <2>2
      <3>2. Tail(q)[i - 1] = q[i] BY <1>2, <3>1
      <3>3. QED BY <1>3, <3>1, <3>2 DEF Items
    <2>3. QED BY <2>1, <2>2
  <1>5. Head(q) \in Items(q) BY <1>1, <1>3 DEF Items
  <1>6. Items(Tail(q)) \subseteq Items(q)
    <2>1. \A i \in 1 .. Len(q) - 1 : i + 1 \in 1 .. Len(q) BY <1>1
    <2>2. QED BY <1>2, <1>3, <2>1 DEF Items
  <1>7. Items(q) \subseteq {Head(q)} \cup Items(Tail(q)) BY <1>3, <1>4 DEF Items
  <1>8. QED BY <1>1, <1>5, <1>6, <1>7

LEMMA ItemsNone ==
  ASSUME NEW S, NEW q \in Seq(S)
  PROVE  q = <<>> <=> Items(q) = {}
  BY LenProperties, EmptySeq DEF Items

LEMMA ItemsBoth ==
  ASSUME NEW S, NEW q \in Seq(S), NEW r \in Seq(S)
  PROVE  q \o r \in Seq(S) /\ Items(q \o r) = Items(q) \cup Items(r)
  <1>1. /\ q \o r \in Seq(S) /\ Len(q) \in Nat /\ Len(r) \in Nat /\ Len(q \o r) = Len(q) + Len(r)
        /\ DOMAIN q = 1 .. Len(q) /\ DOMAIN r = 1 .. Len(r) /\ DOMAIN (q \o r) = 1 .. Len(q) + Len(r)
    BY ConcatProperties, LenProperties
  <1>2. \A i \in 1 .. Len(q) + Len(r) : (q \o r)[i] = IF i <= Len(q) THEN q[i] ELSE r[i - Len(q)]
    BY ConcatProperties
  <1>3. ASSUME NEW i \in 1 .. Len(q) + Len(r) PROVE (q \o r)[i] \in Items(q) \cup Items(r)
    <2>1. CASE i <= Len(q) BY <1>1, <1>2, <2>1 DEF Items
    <2>2. CASE ~(i <= Len(q))
      <3>1. i - Len(q) \in 1 .. Len(r) BY <1>1, <2>2
      <3>2. QED BY <1>1, <1>2, <2>2, <3>1 DEF Items
    <2>3. QED BY <2>1, <2>2
  <1>4. ASSUME NEW i \in 1 .. Len(q) PROVE q[i] \in Items(q \o r)
    <2>1. i \in 1 .. Len(q) + Len(r) /\ i <= Len(q) BY <1>1
    <2>2. QED BY <1>1, <1>2, <2>1 DEF Items
  <1>5. ASSUME NEW i \in 1 .. Len(r) PROVE r[i] \in Items(q \o r)
    <2>1. i + Len(q) \in 1 .. Len(q) + Len(r) /\ ~(i + Len(q) <= Len(q)) /\ (i + Len(q)) - Len(q) = i BY <1>1
    <2>2. (q \o r)[i + Len(q)] = r[i] BY <1>2, <2>1
    <2>3. QED BY <1>1, <2>1, <2>2 DEF Items
  <1>6. Items(q \o r) \subseteq Items(q) \cup Items(r) BY <1>1, <1>3 DEF Items
  <1>7. Items(q) \subseteq Items(q \o r) /\ Items(r) \subseteq Items(q \o r) BY <1>1, <1>4, <1>5 DEF Items
  <1>8. QED BY <1>1, <1>6, <1>7

LEMMA ItemsZero ==
  ASSUME NEW S
  PROVE  <<>> \in Seq(S) /\ Items(<<>>) = {}
  BY EmptySeq DEF Items

LEMMA ItemsOne ==
  ASSUME NEW S, NEW d \in S
  PROVE  <<d>> \in Seq(S) /\ Items(<<d>>) = {d} /\ <<d>> # <<>>
  <1>1. DOMAIN <<d>> = 1 .. 1 /\ <<d>>[1] = d OBVIOUS
  <1>2. QED BY <1>1 DEF Items

LEMMA ItemsTwo ==
  ASSUME NEW S, NEW d \in S, NEW e \in S
  PROVE  <<d, e>> \in Seq(S) /\ Items(<<d, e>>) = {d, e} /\ <<d, e>> # <<>>
  <1>1. DOMAIN <<d, e>> = 1 .. 2 /\ <<d, e>>[1] = d /\ <<d, e>>[2] = e OBVIOUS
  <1>2. QED BY <1>1 DEF Items

SearchTypes ==
  /\ topic = [p \in Publisher |-> topic[p]] /\ todo = [s \in Searcher |-> todo[s]]
  /\ found = [s \in Searcher |-> found[s]] /\ due = [s \in Searcher |-> due[s]]
  /\ may = [s \in Searcher |-> may[s]]

\* A searcher that makes no step: others may add to what it may find, and take from
\* what it must find.
Rests(s) == todo'[s] = todo[s] /\ found'[s] = found[s] /\ due'[s] \subseteq due[s] /\ may[s] \subseteq may'[s]

LEMMA Apartness ==
  /\ \A p \in Publisher : p \notin Client /\ p \notin Walker /\ p \in Searcher
  /\ \A c \in Client : c \notin Publisher /\ c \in Walker /\ c \in Searcher /\ c # Retainer
  /\ Retainer \in Walker /\ Retainer \notin Client /\ Retainer \notin Searcher
  BY TopicTreeAssumption DEF TopicTreeAssumption, Walker, Searcher

\* Walkers.
LEMMA WalkSearches ==
  ASSUME IInv, SearchTypes, NEW w \in Walker, Walk(w)
  PROVE  /\ SearchTypes' /\ topic' = topic
         /\ \A s \in Searcher \ {w} : Rests(s)
         /\ w \in Client /\ ~Answer(w) /\ ~(pc[w] \in {"leaf", "release"} /\ BeginSearch(w) /\ found' = found) => Rests(w)
  <1>1. CASE UNCHANGED searchVars BY <1>1 DEF searchVars, SearchTypes, Rests
  <1>2. CASE pc[w] \in {"leaf", "release"} /\ op[w] = "subscribe" /\ BeginSearch(w) /\ topic' = topic /\ found' = found
    <2>1. SearchTypes' BY <1>2 DEF BeginSearch, SearchTypes
    <2>2. \A s \in Searcher \ {w} : Rests(s) BY <1>2 DEF BeginSearch, SearchTypes, Rests
    <2>3. QED BY <1>2, <2>1, <2>2
  <1>3. CASE Answer(w)
    <2>1. topic' = topic /\ todo' = todo /\ found' = Forget(w, found) /\ due' = Forget(w, due) /\ may' = Forget(w, may)
      BY <1>3 DEF Answer
    <2>2. SearchTypes' BY <2>1 DEF SearchTypes, Forget
    <2>3. \A s \in Searcher \ {w} : Rests(s) BY <2>1 DEF Rests, Forget
    <2>4. QED BY <1>3, <2>1, <2>2, <2>3
  <1>4. CASE Insert(w)
    <2>1. CASE StoreSub(w)
      <3>1. /\ pc[w] = "leaf" /\ op[w] = "subscribe" /\ topic' = topic /\ found' = found
            /\ UNCHANGED <<todo, due, may>> \/ BeginSearch(w)
        BY <2>1 DEF StoreSub
      <3>2. QED BY <1>1, <1>2, <3>1 DEF searchVars
    <2>2. CASE ReleaseLeaf(w)
      <3>1. /\ pc[w] = "release" /\ topic' = topic /\ found' = found
            /\ UNCHANGED <<todo, due, may>> \/ (op[w] = "subscribe" /\ BeginSearch(w))
        BY <2>2 DEF ReleaseLeaf
      <3>2. QED BY <1>1, <1>2, <3>1 DEF searchVars
    <2>3. CASE ~StoreSub(w) /\ ~ReleaseLeaf(w)
      <3>1. UNCHANGED searchVars
        BY <1>4, <2>3 DEF Insert, Raise, LoadChild, StoreChild, Count, Lower, CheckRemove, BackOff, WaitDeleted, Enter,
                    StoreRetained
      <3>2. QED BY <1>1, <3>1
    <2>4. QED BY <2>1, <2>2, <2>3
  <1>5. CASE Remove(w) BY <1>1, <1>5, RemoveMoves
  <1>6. QED BY <1>3, <1>4, <1>5 DEF Walk

LEMMA CollectSearches ==
  ASSUME IInv, SearchTypes, NEW c \in Client, SearchRetained(c)
  PROVE  SearchTypes' /\ topic' = topic /\ \A s \in Searcher \ {c} : Rests(s)
  <1>1. ASSUME NEW step, NEW next, Collect(c, step, next)
        PROVE  /\ topic' = topic /\ due' = due /\ may' = may
               /\ todo' = [todo EXCEPT ![c] = next \o Tail(@)]
    BY <1>1 DEF Collect
  <1>2. ASSUME topic' = topic, due' = due, may' = may, NEW q, todo' = [todo EXCEPT ![c] = q],
               NEW r, found' = [found EXCEPT ![c] = r] \/ found' = found
        PROVE  SearchTypes' /\ topic' = topic /\ \A s \in Searcher \ {c} : Rests(s)
    BY <1>2 DEF SearchTypes, Rests
  <1>3. ASSUME NEW step, NEW next, Collect(c, step, next), NEW r, found' = [found EXCEPT ![c] = r] \/ found' = found
        PROVE  SearchTypes' /\ topic' = topic /\ \A s \in Searcher \ {c} : Rests(s)
    <2>1. PICK q : q = next \o Tail(todo[c]) OBVIOUS
    <2>2. todo' = [todo EXCEPT ![c] = q] BY <1>1, <1>3, <2>1
    <2>3. QED BY <1>1, <1>2, <1>3, <2>2
  <1>4. CASE LoadKid(c) BY <1>3, <1>4 DEF LoadKid
  <1>5. CASE LoadRetained(c) BY <1>3, <1>5 DEF LoadRetained
  <1>6. CASE RangeChildren(c) BY <1>3, <1>6, ZenonT(30) DEF RangeChildren
  <1>7. QED BY <1>4, <1>5, <1>6 DEF SearchRetained

LEMMA SearchSearches ==
  ASSUME IInv, SearchTypes, NEW p \in Publisher, Search(p)
  PROVE  /\ SearchTypes' /\ \A s \in Searcher \ {p} : Rests(s)
         /\ \A s \in Publisher \ {p} : topic'[s] = topic[s]
  <1>1. CASE LoadLevel(p)
    <2>1. PICK q : todo' = [todo EXCEPT ![p] = q] BY <1>1, Zenon DEF LoadLevel
    <2>2. topic' = topic /\ found' = found /\ due' = due /\ may' = may BY <1>1, Zenon DEF LoadLevel
    <2>3. QED BY <2>1, <2>2 DEF SearchTypes, Rests
  <1>2. CASE TakeSubscribers(p)
    <2>1. PICK r : found' = [found EXCEPT ![p] = r] BY <1>2 DEF TakeSubscribers
    <2>2. topic' = topic /\ todo' = [todo EXCEPT ![p] = Tail(@)] /\ due' = due /\ may' = may
      BY <1>2 DEF TakeSubscribers
    <2>3. QED BY <2>1, <2>2 DEF SearchTypes, Rests
  <1>3. CASE Deliver(p)
    <2>1. /\ topic' = [topic EXCEPT ![p] = <<>>] /\ todo' = todo
          /\ found' = Forget(p, found) /\ due' = Forget(p, due) /\ may' = Forget(p, may)
      BY <1>3 DEF Deliver
    <2>2. QED BY <2>1 DEF SearchTypes, Rests, Forget
  <1>4. QED BY <1>1, <1>2, <1>3 DEF Search

LEMMA EnvironmentSearches ==
  ASSUME IInv, SearchTypes, Environment
  PROVE  /\ SearchTypes'
         /\ \A p \in Publisher : (Rests(p) /\ topic'[p] = topic[p]) \/ \E t \in Topic : Publish(p, t)
         /\ \A c \in Client : Rests(c)
  <1>1. ASSUME NEW x, NEW who, NEW old, may' = With(who, x) \/ may' = may, due' = Without(old, x) \/ due' = due,
               topic' = topic, todo' = todo, found' = found
        PROVE  SearchTypes' /\ topic' = topic /\ \A s \in Searcher : Rests(s)
    BY <1>1 DEF SearchTypes, Rests, With, Without
  <1>2. ASSUME NEW c \in Client, NEW f \in Filter, Subscribe(c, f)
        PROVE  SearchTypes' /\ topic' = topic /\ \A s \in Searcher : Rests(s)
    BY <1>1, <1>2 DEF Subscribe
  <1>3. ASSUME NEW c \in Client, NEW f \in Filter, UnSubscribe(c, f)
        PROVE  SearchTypes' /\ topic' = topic /\ \A s \in Searcher : Rests(s)
    BY <1>1, <1>3 DEF UnSubscribe
  <1>4. ASSUME NEW t \in Topic, NEW o, NEW m, Retain(t, o, m)
        PROVE  SearchTypes' /\ topic' = topic /\ \A s \in Searcher : Rests(s)
    BY <1>1, <1>4 DEF Retain
  <1>5. ASSUME NEW p \in Publisher, NEW t \in Topic, Publish(p, t)
        PROVE  /\ SearchTypes' /\ \A s \in Searcher \ {p} : Rests(s)
               /\ \A s \in Publisher \ {p} : topic'[s] = topic[s]
    <2>1. PICK q, d, m : /\ todo' = [todo EXCEPT ![p] = q] /\ due' = [due EXCEPT ![p] = d]
                         /\ may' = [may EXCEPT ![p] = m]
      BY <1>5 DEF Publish
    <2>2. topic' = [topic EXCEPT ![p] = t] /\ found' = found BY <1>5 DEF Publish
    <2>3. QED BY <2>1, <2>2 DEF SearchTypes, Rests
  <1>6. CASE \E p \in Publisher, t \in Topic : Publish(p, t) BY <1>5, <1>6, Apartness
  <1>7. CASE ~\E p \in Publisher, t \in Topic : Publish(p, t)
    BY <1>2, <1>3, <1>4, <1>7, Apartness DEF Environment
  <1>8. QED BY <1>6, <1>7
-----------------------------------------------------------------------------
(* A publish finds nothing that it may not *)

\* What a publisher has still to look at, each on the way of a filter that matches.
PubItem == [node : Node, level : Level \cup {None}]
Fits(q, t) == Len(q) <= Len(t) /\ \A i \in 1 .. Len(q) : q[i] = SWC \/ q[i] = t[i]
OnTopic(e, t) ==
  /\ e.node \in 0 .. nodes
  /\ IF e.level = None THEN Matches(path[e.node], t)
     ELSE /\ Fits(path[e.node], t)
          /\ t[1] \in System => Append(path[e.node], e.level)[1] = t[1]
          /\ e.level # MWC => Fits(Append(path[e.node], e.level), t)

\* It finds nothing but what it may, now and from any node it may come to.
Wide(S, p) ==
  /\ Closed(S)
  /\ \A n \in S, c \in Client : c \in subs[n] /\ Matches(path[n], topic[p]) => <<c, path[n]>> \in may[p]
WideFor(p) == \E S \in SUBSET Node : Wide(S, p) /\ \A e \in Items(todo[p]) : e.node \in S
PublisherOK(p) ==
  /\ topic[p] \in Topic \cup {<<>>} /\ todo[p] \in Seq(PubItem) /\ found[p] \subseteq may[p]
  /\ topic[p] = <<>> => todo[p] = <<>> /\ found[p] = {} /\ due[p] = {}
  /\ todo[p] # <<>> =>
       /\ \A e \in Items(todo[p]) : OnTopic(e, topic[p])
       /\ WideFor(p)
       /\ \A c \in Client : op[c] = "subscribe" /\ Matches(want[c], topic[p]) => <<c, want[c]>> \in may[p]

LEMMA TopicFacts ==
  ASSUME NEW t \in Topic
  PROVE  /\ t \in Seq(Level) /\ t # <<>> /\ Len(t) \in Nat \ {0}
         /\ \A i \in 1 .. Len(t) : t[i] \in Level /\ t[i] # MWC /\ t[i] # SWC
         /\ MWC \in Level /\ SWC \in Level /\ None \notin Level /\ MWC # SWC
  <1>1. t \in Seq(Level) /\ t # <<>> BY LevelsIn
  <1>2. Len(t) \in Nat \ {0} /\ DOMAIN t = 1 .. Len(t) BY <1>1, LenProperties, EmptySeq
  <1>3. LevelsOf(t) \cap {MWC, SWC} = {} /\ None \notin Level BY TopicTreeAssumption DEF TopicTreeAssumption
  <1>4. \A i \in 1 .. Len(t) : t[i] \in LevelsOf(t) BY <1>2 DEF LevelsOf
  <1>5. MWC \in Level /\ SWC \in Level BY DEF Level
  <1>6. MWC # SWC BY DEF MWC, SWC
  <1>7. \A i \in 1 .. Len(t) : t[i] \in Level BY <1>1, ElementOfSeq
  <1>8. QED BY <1>1, <1>2, <1>3, <1>4, <1>5, <1>6, <1>7

LEMMA FitsAppend ==
  ASSUME NEW q \in Seq(Level), NEW t \in Seq(Level), Fits(q, t), Len(q) < Len(t), NEW l \in Level,
         l = SWC \/ l = t[Len(q) + 1]
  PROVE  Fits(Append(q, l), t)
  <1>1. Len(q) \in Nat /\ Len(t) \in Nat BY LenProperties
  <1>2. Len(Append(q, l)) <= Len(t) BY <1>1, AppendIs
  <1>3. ASSUME NEW i \in 1 .. Len(Append(q, l)) PROVE Append(q, l)[i] = SWC \/ Append(q, l)[i] = t[i]
    <2>1. CASE i = Len(q) + 1 BY <2>1, AppendIs
    <2>2. CASE i # Len(q) + 1
      <3>1. i \in 1 .. Len(q) BY <1>1, <2>2, AppendIs
      <3>2. QED BY <3>1, AppendIs DEF Fits
    <2>3. QED BY <2>1, <2>2
  <1>4. QED BY <1>2, <1>3 DEF Fits

\* A path that fits, with or without "#" at its end.
LEMMA FitsMatches ==
  ASSUME NEW t \in Topic, NEW q \in Seq(Level), Fits(q, t)
  PROVE  /\ Len(q) = Len(t) /\ (t[1] \in System => q[1] = t[1]) => Matches(q, t)
         /\ (t[1] \in System => Append(q, MWC)[1] = t[1]) => Matches(Append(q, MWC), t)
  <1>1. /\ Len(q) \in Nat /\ Len(t) \in Nat \ {0} /\ MWC # SWC /\ MWC \in Level
        /\ \A i \in 1 .. Len(t) : t[i] # MWC
    BY TopicFacts, LenProperties
  <1>2. ASSUME Len(q) = Len(t), t[1] \in System => q[1] = t[1] PROVE Matches(q, t)
    <2>1. Len(q) \in 1 .. Len(q) BY <1>1, <1>2
    <2>2. q[Len(q)] # MWC BY <1>1, <1>2, <2>1 DEF Fits
    <2>3. QED BY <1>2, <2>2 DEF Fits, Matches
  <1>3. ASSUME t[1] \in System => Append(q, MWC)[1] = t[1] PROVE Matches(Append(q, MWC), t)
    <2>1. PICK f : f = Append(q, MWC) OBVIOUS
    <2>2. Len(f) = Len(q) + 1 /\ f[Len(q) + 1] = MWC /\ \A i \in 1 .. Len(q) : f[i] = q[i] BY <1>1, <2>1, AppendIs
    <2>3. Len(f) - 1 = Len(q) BY <1>1, <2>2
    <2>4. Matches(f, t) BY <1>1, <1>3, <2>1, <2>2, <2>3 DEF Fits, Matches
    <2>5. QED BY <2>1, <2>4
  <1>4. QED BY <1>2, <1>3

LEMMA VisitOnTopic ==
  ASSUME IInv, NEW n \in 0 .. nodes, NEW t \in Topic, Fits(path[n], t),
         t[1] \in System => path[n] # <<>> /\ path[n][1] = t[1]
  PROVE  Visit(n, t) \in Seq(PubItem) /\ \A e \in Items(Visit(n, t)) : e.node = n /\ OnTopic(e, t)
  <1>1. PICK q : q = path[n] OBVIOUS
  <1>2. n \in Node /\ q \in Seq(Level) /\ Len(q) \in Nat /\ (q # <<>> => Len(q) >= 1)
    <2>1. n \in Node BY NodeFacts DEF IInv, Types
    <2>2. q \in Seq(Level) BY <1>1, <2>1, PathsIn
    <2>3. QED BY <2>1, <2>2, LenProperties, EmptySeq
  <1>3. /\ t \in Seq(Level) /\ Len(t) \in Nat /\ MWC \in Level /\ SWC \in Level /\ None \notin Level /\ MWC # SWC
        /\ Len(q) <= Len(t)
    BY <1>1, TopicFacts DEF Fits
  <1>4. \A l \in Level : t[1] \in System => Append(q, l)[1] = t[1]
    <2>1. q # <<>> => 1 \in 1 .. Len(q) BY <1>2
    <2>2. QED BY <1>1, <1>2, <2>1, AppendIs
  <1>5. \A l \in Level \cup {None} : At(n, l) \in PubItem /\ At(n, l).node = n /\ At(n, l).level = l
    BY <1>2 DEF At, PubItem
  <1>6. OnTopic(At(n, MWC), t)
    BY <1>1, <1>3, <1>4, <1>5 DEF OnTopic
  <1>7. CASE Len(q) = Len(t)
    <2>1. OnTopic(At(n, None), t)
      <3>1. Matches(q, t) BY <1>1, <1>2, <1>7, FitsMatches
      <3>2. QED BY <1>1, <1>5, <3>1 DEF OnTopic
    <2>2. Visit(n, t) = <<At(n, None), At(n, MWC)>> BY <1>1, <1>7 DEF Visit
    <2>3. PICK d, e : d = At(n, None) /\ e = At(n, MWC) OBVIOUS
    <2>4. d \in PubItem /\ e \in PubItem BY <1>3, <1>5, <2>3
    <2>5. <<d, e>> \in Seq(PubItem) /\ Items(<<d, e>>) = {d, e} BY <2>4, ItemsTwo
    <2>6. \A x \in {d, e} : x.node = n /\ OnTopic(x, t) BY <1>3, <1>5, <1>6, <2>1, <2>3
    <2>7. QED BY <2>2, <2>3, <2>5, <2>6, Zenon
  <1>8. CASE Len(q) # Len(t)
    <2>1. PICK l : l = t[Len(q) + 1] OBVIOUS
    <2>2. Len(q) < Len(t) /\ Len(q) + 1 \in 1 .. Len(t) BY <1>2, <1>3, <1>8
    <2>3. l \in Level /\ l # MWC BY <2>1, <2>2, TopicFacts
    <2>4. \A j \in {l, SWC} : Fits(Append(q, j), t) BY <1>1, <1>2, <1>3, <2>1, <2>2, <2>3, FitsAppend
    <2>5. \A j \in {l, SWC} : OnTopic(At(n, j), t)
      BY <1>1, <1>3, <1>4, <1>5, <2>3, <2>4 DEF OnTopic
    <2>6. Visit(n, t) = Further(n, l) \o <<At(n, l), At(n, SWC)>> BY <1>1, <1>8, <2>1 DEF Visit
    <2>7. Further(n, l) \in Seq(PubItem) /\ Items(Further(n, l)) \subseteq {At(n, MWC)}
      <3>1. Further(n, l) = <<>> \/ Further(n, l) = <<At(n, MWC)>> BY Zenon DEF Further
      <3>2. PICK e : e = At(n, MWC) OBVIOUS
      <3>3. e \in PubItem BY <1>3, <1>5, <3>2
      <3>4. <<>> \in Seq(PubItem) /\ Items(<<>>) = {} /\ <<e>> \in Seq(PubItem) /\ Items(<<e>>) = {e}
        BY <3>3, ItemsZero, ItemsOne
      <3>5. CASE Further(n, l) = <<>> BY <3>4, <3>5
      <3>6. CASE Further(n, l) = <<e>> BY <3>2, <3>4, <3>6
      <3>7. QED BY <3>1, <3>2, <3>5, <3>6
    <2>8. PICK d, e, h : d = At(n, l) /\ e = At(n, SWC) /\ h = Further(n, l) OBVIOUS
    <2>9. d \in PubItem /\ e \in PubItem BY <1>3, <1>5, <2>3, <2>8
    <2>10. <<d, e>> \in Seq(PubItem) /\ Items(<<d, e>>) = {d, e} BY <2>9, ItemsTwo
    <2>11. h \o <<d, e>> \in Seq(PubItem) /\ Items(h \o <<d, e>>) = Items(h) \cup {d, e}
      <3>1. PICK r : r = <<d, e>> OBVIOUS
      <3>2. h \in Seq(PubItem) /\ r \in Seq(PubItem) /\ Items(r) = {d, e} BY <2>7, <2>8, <2>10, <3>1
      <3>3. h \o r \in Seq(PubItem) /\ Items(h \o r) = Items(h) \cup Items(r) BY <3>2, ItemsBoth
      <3>4. QED BY <3>1, <3>2, <3>3, Zenon
    <2>12. \A x \in Items(h) \cup {d, e} : x.node = n /\ OnTopic(x, t)
      BY <1>3, <1>5, <1>6, <2>3, <2>5, <2>7, <2>8
    <2>13. QED BY <2>6, <2>8, <2>11, <2>12, Zenon
  <1>9. QED BY <1>7, <1>8

LEMMA PublisherRests ==
  ASSUME IInv, HeldOK, TreeMoves, NodesMove, NEW p \in Publisher, PublisherOK(p), Rests(p), topic'[p] = topic[p],
         todo[p] # <<>> => \A c \in Client : op'[c] = "subscribe" /\ Matches(want'[c], topic[p]) => <<c, want'[c]>> \in may'[p]
  PROVE  PublisherOK(p)'
  <1>1. PICK t, q : t = topic[p] /\ q = todo[p] OBVIOUS
  <1>2. topic'[p] = t /\ todo'[p] = q /\ found'[p] = found[p] /\ due'[p] \subseteq due[p] /\ may[p] \subseteq may'[p]
    BY <1>1 DEF Rests
  <1>3. /\ t \in Topic \cup {<<>>} /\ q \in Seq(PubItem)
        /\ t = <<>> => q = <<>> /\ found'[p] = {} /\ due'[p] = {}
        /\ found'[p] \subseteq may'[p]
    BY <1>1, <1>2 DEF PublisherOK
  <1>4. PubItem' = PubItem BY DEF PubItem, Node
  <1>5. ASSUME q # <<>>
        PROVE  /\ \A e \in Items(q) : OnTopic(e, t)'
               /\ WideFor(p)'
    <2>1. ASSUME NEW e \in Items(q) PROVE OnTopic(e, t)'
      <3>1. OnTopic(e, t) BY <1>1, <1>5 DEF PublisherOK
      <3>2. e.node \in 0 .. nodes /\ e.node \in (0 .. nodes)' /\ path'[e.node] = path[e.node]
        <4>1. e.node \in 0 .. nodes BY <3>1 DEF OnTopic
        <4>2. QED BY <4>1, MovesKeep
      <3>3. QED BY <3>1, <3>2 DEF OnTopic
    <2>2. PICK S \in SUBSET Node : Wide(S, p) /\ \A e \in Items(q) : e.node \in S
      BY <1>1, <1>5 DEF PublisherOK, WideFor
    <2>3. Closed(S)' BY <2>2, ClosedKept DEF Wide
    <2>4. ASSUME NEW n \in S, NEW c \in Client, c \in subs'[n], Matches(path'[n], t)
          PROVE  <<c, path'[n]>> \in may'[p]
      <3>1. /\ path'[n] = path[n]
            /\ c \in subs[n] \/ (op[c] = "subscribe" /\ want[c] = path[n])
        BY <2>4, Added
      <3>2. CASE c \in subs[n] BY <1>1, <1>2, <2>2, <2>4, <3>1, <3>2 DEF Wide
      <3>3. CASE op[c] = "subscribe" /\ want[c] = path[n]
        <4>1. Matches(want[c], t) BY <2>4, <3>1, <3>3
        <4>2. <<c, want[c]>> \in may[p] BY <1>1, <1>5, <3>3, <4>1 DEF PublisherOK
        <4>3. QED BY <1>2, <3>1, <3>3, <4>2
      <3>4. QED BY <3>1, <3>2, <3>3
    <2>5. Wide(S, p)' BY <1>2, <2>3, <2>4 DEF Wide, Matches
    <2>6. WideFor(p)' BY <1>2, <2>2, <2>5 DEF WideFor, Items, Node
    <2>7. QED BY <2>1, <2>6
  <1>6. QED BY <1>1, <1>2, <1>3, <1>4, <1>5 DEF PublisherOK, OnTopic, Matches, Items

LEMMA PublishOK ==
  ASSUME IInv, HeldOK, NotedOK, SearchTypes, NEW p \in Publisher, PublisherOK(p), NEW t \in Topic, Publish(p, t)
  PROVE  PublisherOK(p)'
  <1>1. PICK q : q = IF t[1] \in System THEN <<At(Root, t[1])>> ELSE Visit(Root, t) OBVIOUS
  <1>2. /\ topic[p] = <<>> /\ topic' = [topic EXCEPT ![p] = t] /\ todo' = [todo EXCEPT ![p] = q]
        /\ may' = [may EXCEPT ![p] = Matching(Possible, t)]
        /\ UNCHANGED <<treeVars, subs, retained, op, want, held, kept, found>>
    BY <1>1 DEF Publish, walkVars
  <1>3. topic'[p] = t /\ todo'[p] = q /\ may'[p] = Matching(Possible, t) /\ found'[p] = {}
    <2>1. found[p] = {} BY <1>2 DEF PublisherOK
    <2>2. QED BY <1>2, <2>1, Apartness DEF SearchTypes
  <1>4. /\ Root \in 0 .. nodes /\ Root \in Node /\ path[Root] = <<>> /\ t \in Seq(Level) /\ t # <<>>
        /\ Len(t) \in Nat \ {0} /\ t[1] \in Level /\ None \notin Level /\ Fits(<<>>, t)
    <2>1. t \in Seq(Level) /\ t # <<>> /\ Len(t) \in Nat \ {0} /\ None \notin Level BY TopicFacts
    <2>2. t[1] \in Level BY <2>1, TopicFacts
    <2>3. Fits(<<>>, t) BY <2>1 DEF Fits
    <2>4. QED BY <2>1, <2>2, <2>3, NodeFacts, PathsIn DEF IInv, Types
  <1>5. q \in Seq(PubItem) /\ \A e \in Items(q) : e.node = Root /\ OnTopic(e, t)
    <2>1. CASE t[1] \in System
      <3>1. PICK e : e = At(Root, t[1]) OBVIOUS
      <3>2. e \in PubItem /\ e.node = Root /\ e.level = t[1] BY <1>4, <3>1 DEF At, PubItem
      <3>3. PICK a : a = Append(<<>>, t[1]) OBVIOUS
      <3>4. a[1] = t[1] /\ Len(<<>>) = 0 BY <1>4, <3>3
      <3>5. Fits(a, t)
        <4>1. PICK z : z = path[Root] OBVIOUS
        <4>2. z \in Seq(Level) /\ Len(z) = 0 /\ Fits(z, t) /\ a = Append(z, t[1]) /\ Len(z) + 1 = 1
          BY <1>4, <3>3, <3>4, <4>1, EmptySeq
        <4>3. Len(z) < Len(t) BY <1>4, <4>2
        <4>4. QED BY <1>4, <4>2, <4>3, FitsAppend
      <3>6. OnTopic(e, t) BY <1>4, <3>2, <3>3, <3>4, <3>5 DEF OnTopic
      <3>7. q = <<e>> BY <1>1, <2>1, <3>1
      <3>8. <<e>> \in Seq(PubItem) /\ Items(<<e>>) = {e} BY <3>2, ItemsOne
      <3>9. QED BY <3>2, <3>6, <3>7, <3>8
    <2>2. CASE t[1] \notin System BY <1>1, <1>4, <2>2, VisitOnTopic
    <2>3. QED BY <2>1, <2>2
  <1>6. \A e \in Items(q) : OnTopic(e, t)' BY <1>2, <1>5 DEF OnTopic, treeVars
  <1>7. PICK S : S = Reach OBVIOUS
  <1>8. S \subseteq Node /\ Root \in S /\ Closed(S) BY <1>7, ReachClosed
  <1>9. Closed(S)' BY <1>2, <1>8, TreeSame, ClosedKept
  <1>10. ASSUME NEW n \in S, NEW c \in Client, c \in subs[n], Matches(path[n], t)
         PROVE  <<c, path[n]>> \in Matching(Possible, t)
    <2>1. path[n] \in Filter /\ (path[n] \in held[c] \/ Asks(c, path[n]))
      BY <1>7, <1>8, <1>10 DEF NotedOK, HeldOK
    <2>2. QED BY <1>10, <2>1 DEF Matching, Possible, Asks
  <1>11. path' = path /\ subs' = subs /\ op' = op /\ want' = want BY <1>2 DEF treeVars
  <1>12. Wide(S, p)' BY <1>3, <1>9, <1>10, <1>11 DEF Wide, Matches
  <1>13. WideFor(p)' BY <1>3, <1>5, <1>8, <1>12 DEF WideFor, Items, Node
  <1>14. ASSUME NEW c \in Client, op'[c] = "subscribe", Matches(want'[c], t) PROVE <<c, want'[c]>> \in may'[p]
    <2>1. want[c] \in Filter
      <3>1. c \in Walker /\ c # Retainer /\ RequestOK(c) BY Apartness DEF IInv, WalkOK
      <3>2. QED BY <1>11, <1>14, <3>1 DEF RequestOK
    <2>2. QED BY <1>3, <1>11, <1>14, <2>1 DEF Matching, Possible
  <1>15. PubItem' = PubItem BY DEF PubItem, Node
  <1>16. QED BY <1>3, <1>4, <1>5, <1>6, <1>13, <1>14, <1>15 DEF PublisherOK, OnTopic, Matches, Items

\* A step of the search, with the same tree: what it comes to can be come to.
LEMMA SearchOn ==
  ASSUME IInv, HeldOK, NEW p \in Publisher, PublisherOK(p), todo[p] # <<>>,
         UNCHANGED <<treeVars, subs, op, want>>, NEW q \in Seq(PubItem),
         topic' = topic, may' = may, todo'[p] = q, found'[p] \subseteq may[p],
         \A S \in SUBSET Node : Closed(S) /\ (\A e \in Items(todo[p]) : e.node \in S) => \A e \in Items(q) : e.node \in S,
         \A e \in Items(q) : OnTopic(e, topic[p])
  PROVE  PublisherOK(p)'
  <1>1. PICK t : t = topic[p] OBVIOUS
  <1>2. topic'[p] = t /\ t \in Topic /\ t # <<>> BY <1>1, TopicFacts DEF PublisherOK
  <1>3. path' = path /\ nodes' = nodes BY DEF treeVars
  <1>4. \A e \in Items(q) : OnTopic(e, t)' BY <1>1, <1>3 DEF OnTopic
  <1>5. PICK S \in SUBSET Node : Wide(S, p) /\ \A e \in Items(todo[p]) : e.node \in S BY DEF PublisherOK, WideFor
  <1>6. Closed(S)' BY <1>5, TreeSame, ClosedKept DEF Wide
  <1>7. Wide(S, p)' BY <1>3, <1>5, <1>6 DEF Wide, Matches
  <1>8. \A e \in Items(q) : e.node \in S BY <1>5 DEF Wide
  <1>9. WideFor(p)' BY <1>7, <1>8 DEF WideFor, Items, Node
  <1>10. PubItem' = PubItem BY DEF PubItem, Node
  <1>11. \A c \in Client : op'[c] = "subscribe" /\ Matches(want'[c], t) => <<c, want'[c]>> \in may'[p]
    BY <1>1 DEF PublisherOK
  <1>12. QED BY <1>2, <1>4, <1>9, <1>10, <1>11 DEF PublisherOK, OnTopic, Matches, Items

LEMMA LoadLevelOK ==
  ASSUME IInv, HeldOK, SearchTypes, NEW p \in Publisher, PublisherOK(p), LoadLevel(p)
  PROVE  PublisherOK(p)'
  <1>1. PICK e, t, k, r : e = Head(todo[p]) /\ t = topic[p] /\ k = children[e.node][e.level] /\ r = Tail(todo[p]) OBVIOUS
  <1>2. PICK h : h = CASE k = None -> <<>>
                       [] k # None /\ e.level = MWC -> <<At(k, None)>>
                       [] OTHER -> Visit(k, t)
    OBVIOUS
  <1>3. /\ todo[p] # <<>> /\ e.level # None /\ todo' = [todo EXCEPT ![p] = h \o r]
        /\ topic' = topic /\ found' = found /\ may' = may
        /\ UNCHANGED <<treeVars, subs, retained, op, want>>
    BY <1>1, <1>2, Zenon DEF LoadLevel, First, walkVars
  <1>4. todo'[p] = h \o r BY <1>3, Apartness DEF SearchTypes
  <1>5. /\ e \in PubItem /\ r \in Seq(PubItem) /\ Items(todo[p]) = {e} \cup Items(r) /\ t \in Topic
    BY <1>1, <1>3, ItemsFirst DEF PublisherOK
  <1>6. OnTopic(e, t) /\ \A x \in Items(r) : OnTopic(x, t) BY <1>1, <1>3, <1>5 DEF PublisherOK
  <1>7. /\ e.node \in 0 .. nodes /\ e.node \in Node /\ e.level \in Level /\ path[e.node] \in Seq(Level)
        /\ Fits(path[e.node], t) /\ (t[1] \in System => Append(path[e.node], e.level)[1] = t[1])
        /\ (e.level # MWC => Fits(Append(path[e.node], e.level), t))
    <2>1. e.node \in Node /\ e.level \in Level BY <1>3, <1>5 DEF PubItem
    <2>2. QED BY <1>3, <1>6, <2>1, PathsIn DEF OnTopic
  <1>8. /\ h \in Seq(PubItem) /\ \A x \in Items(h) : OnTopic(x, t) /\ x.node = k
        /\ k = None => Items(h) = {}
    <2>1. CASE k = None BY <1>2, <1>5, <2>1, ItemsZero
    <2>2. CASE k # None
      <3>1. k \in Created /\ path[k] = Append(path[e.node], e.level)
        BY <1>1, <1>7, <2>2 DEF IInv, TreeOK
      <3>2. k \in 0 .. nodes /\ k \in Node /\ path[k] # <<>> BY <3>1, NodeFacts, PathsIn DEF IInv, Types
      <3>3. CASE e.level = MWC
        <4>1. PICK d : d = At(k, None) OBVIOUS
        <4>2. d \in PubItem /\ d.node = k /\ d.level = None BY <3>2, <4>1 DEF At, PubItem
        <4>3. Matches(path[k], t) BY <1>5, <1>7, <3>1, <3>3, FitsMatches
        <4>4. OnTopic(d, t) BY <3>2, <4>2, <4>3 DEF OnTopic
        <4>5. h = <<d>> BY <1>2, <2>2, <3>3, <4>1
        <4>6. <<d>> \in Seq(PubItem) /\ Items(<<d>>) = {d} BY <4>2, ItemsOne
        <4>7. QED BY <2>2, <4>2, <4>4, <4>5, <4>6
      <3>4. CASE e.level # MWC
        <4>1. h = Visit(k, t) BY <1>2, <2>2, <3>4
        <4>2. Fits(path[k], t) /\ (t[1] \in System => path[k][1] = t[1]) BY <1>7, <3>1, <3>4
        <4>3. QED BY <1>5, <2>2, <3>2, <4>1, <4>2, VisitOnTopic
      <3>5. QED BY <3>3, <3>4, SMTT(30)
    <2>3. QED BY <2>1, <2>2
  <1>9. h \o r \in Seq(PubItem) /\ Items(h \o r) = Items(h) \cup Items(r) BY <1>5, <1>8, ItemsBoth
  <1>10. ASSUME NEW S \in SUBSET Node, Closed(S), \A x \in Items(todo[p]) : x.node \in S, NEW x \in Items(h \o r)
         PROVE  x.node \in S
    <2>1. CASE x \in Items(r) BY <1>5, <1>10, <2>1
    <2>2. CASE x \in Items(h)
      <3>1. k # None /\ x.node = k BY <1>8, <2>2
      <3>2. e.node \in S BY <1>5, <1>10
      <3>3. QED BY <1>1, <1>7, <1>10, <3>1, <3>2 DEF Closed
    <2>3. QED BY <1>9, <1>10, <2>1, <2>2
  <1>11. \A x \in Items(h \o r) : OnTopic(x, t) BY <1>6, <1>8, <1>9
  <1>12. found'[p] \subseteq may[p] BY <1>3 DEF PublisherOK
  <1>13. PICK q : q = h \o r OBVIOUS
  <1>14. QED BY <1>1, <1>3, <1>4, <1>9, <1>10, <1>11, <1>12, <1>13, SearchOn

LEMMA TakeOK ==
  ASSUME IInv, HeldOK, SearchTypes, NEW p \in Publisher, PublisherOK(p), TakeSubscribers(p)
  PROVE  PublisherOK(p)'
  <1>1. PICK e, t, r : e = Head(todo[p]) /\ t = topic[p] /\ r = Tail(todo[p]) OBVIOUS
  <1>2. PICK g : g = {<<c, path[e.node]>> : c \in subs[e.node]} OBVIOUS
  <1>3. /\ todo[p] # <<>> /\ e.level = None /\ found' = [found EXCEPT ![p] = @ \cup g]
        /\ todo' = [todo EXCEPT ![p] = Tail(@)] /\ topic' = topic /\ may' = may
        /\ UNCHANGED <<treeVars, subs, retained, op, want>>
    BY <1>1, <1>2 DEF TakeSubscribers, First, walkVars
  <1>4. todo'[p] = r /\ found'[p] = found[p] \cup g BY <1>1, <1>3, Apartness DEF SearchTypes
  <1>5. /\ e \in PubItem /\ r \in Seq(PubItem) /\ Items(todo[p]) = {e} \cup Items(r)
    BY <1>1, <1>3, ItemsFirst DEF PublisherOK
  <1>6. OnTopic(e, t) /\ \A x \in Items(r) : OnTopic(x, t) BY <1>1, <1>3, <1>5 DEF PublisherOK
  <1>7. g \subseteq may[p]
    <2>1. PICK S \in SUBSET Node : Wide(S, p) /\ \A x \in Items(todo[p]) : x.node \in S
      BY <1>3 DEF PublisherOK, WideFor
    <2>2. e.node \in S /\ Matches(path[e.node], topic[p]) BY <1>1, <1>3, <1>5, <1>6, <2>1 DEF OnTopic
    <2>3. subs[e.node] \subseteq Client BY <2>1, <2>2 DEF IInv, Types, NodeTypes
    <2>4. \A c \in subs[e.node] : <<c, path[e.node]>> \in may[p] BY <2>1, <2>2, <2>3 DEF Wide
    <2>5. QED BY <1>2, <2>4
  <1>8. found'[p] \subseteq may[p] BY <1>4, <1>7 DEF PublisherOK
  <1>9. \A S \in SUBSET Node : (\A x \in Items(todo[p]) : x.node \in S) => \A x \in Items(r) : x.node \in S BY <1>5
  <1>10. QED BY <1>1, <1>3, <1>4, <1>5, <1>6, <1>8, <1>9, SearchOn

LEMMA DeliverOK ==
  ASSUME SearchTypes, NEW p \in Publisher, PublisherOK(p), Deliver(p)
  PROVE  PublisherOK(p)'
  <1>1. /\ todo[p] = <<>> /\ topic' = [topic EXCEPT ![p] = <<>>] /\ todo' = todo
        /\ found' = Forget(p, found) /\ due' = Forget(p, due)
    BY DEF Deliver
  <1>2. topic'[p] = <<>> /\ todo'[p] = <<>> /\ found'[p] = {} /\ due'[p] = {}
    BY <1>1, Apartness DEF SearchTypes, Forget
  <1>3. <<>> \in Seq(PubItem') OBVIOUS
  <1>4. QED BY <1>2, <1>3 DEF PublisherOK

LEMMA NextPublisher ==
  ASSUME IInv, HeldOK, NotedOK, SearchTypes, [Next]_vars, NEW p \in Publisher, PublisherOK(p)
  PROVE  PublisherOK(p)'
  <1>1. TreeMoves /\ NodesMove BY NextMoves
  <1>2. p \in Searcher /\ p \notin Walker /\ p \notin Client BY Apartness
  <1>3. ASSUME Rests(p), topic'[p] = topic[p],
               \A c \in Client : op'[c] = "subscribe" => op[c] = "subscribe" /\ want'[c] = want[c]
        PROVE  PublisherOK(p)'
    <2>1. todo[p] # <<>> => \A c \in Client : op'[c] = "subscribe" /\ Matches(want'[c], topic[p])
                                                => <<c, want'[c]>> \in may'[p]
      BY <1>3 DEF PublisherOK, Rests
    <2>2. QED BY <1>1, <1>3, <2>1, PublisherRests
  <1>4. ASSUME NEW w \in Walker, Walk(w) PROVE PublisherOK(p)'
    <2>1. Rests(p) /\ topic'[p] = topic[p] BY <1>2, <1>4, WalkSearches
    <2>2. \A c \in Client : op'[c] = "subscribe" => op[c] = "subscribe" /\ want'[c] = want[c]
      <3>1. CASE Answer(w)
        BY <3>1, Apartness DEF Answer, IInv, Types, WalkTypes
      <3>2. CASE Works(w) BY <3>2, Apartness DEF Works, OthersStay
      <3>3. QED BY <1>4, <3>1, <3>2, InsertMoves, RemoveMoves DEF Walk
    <2>3. QED BY <1>3, <2>1, <2>2
  <1>5. ASSUME NEW c \in Client, SearchRetained(c) PROVE PublisherOK(p)'
    <2>1. Rests(p) /\ topic'[p] = topic[p] BY <1>2, <1>5, CollectSearches
    <2>2. op' = op /\ want' = want BY <1>5, CollectMoves
    <2>3. QED BY <1>3, <2>1, <2>2
  <1>6. ASSUME NEW r \in Publisher, Search(r) PROVE PublisherOK(p)'
    <2>1. CASE r = p BY <1>6, <2>1, LoadLevelOK, TakeOK, DeliverOK DEF Search
    <2>2. CASE r # p
      <3>1. Rests(p) /\ topic'[p] = topic[p] BY <1>2, <1>6, <2>2, SearchSearches
      <3>2. op' = op /\ want' = want BY <1>6, Zenon DEF Search, LoadLevel, TakeSubscribers, Deliver, walkVars
      <3>3. QED BY <1>3, <3>1, <3>2
    <2>3. QED BY <2>1, <2>2
  <1>7. ASSUME Environment PROVE PublisherOK(p)'
    <2>1. CASE \E t \in Topic : Publish(p, t) BY <2>1, PublishOK
    <2>2. CASE Rests(p) /\ topic'[p] = topic[p]
      <3>1. ASSUME NEW c \in Client, NEW f \in Filter, Subscribe(c, f) PROVE PublisherOK(p)'
        <4>1. /\ op' = [op EXCEPT ![c] = "subscribe"] /\ want' = [want EXCEPT ![c] = f]
              /\ may' = With({s \in Publisher : topic[s] # <<>> /\ Matches(f, topic[s])}, <<c, f>>)
          BY <3>1 DEF Subscribe, Request
        <4>2. ASSUME todo[p] # <<>>, NEW d \in Client, op'[d] = "subscribe", Matches(want'[d], topic[p])
              PROVE  <<d, want'[d]>> \in may'[p]
          <5>1. CASE d = c
            <6>1. want'[c] = f BY <4>1, Apartness DEF IInv, Types, WalkTypes
            <6>2. topic[p] # <<>> /\ p \in Searching BY <1>2, <4>2 DEF PublisherOK, Searching
            <6>3. QED BY <1>2, <4>1, <4>2, <5>1, <6>1, <6>2 DEF With
          <5>2. CASE d # c
            <6>1. op'[d] = op[d] /\ want'[d] = want[d] BY <4>1, <5>2, Apartness DEF IInv, Types, WalkTypes
            <6>2. QED BY <2>2, <4>2, <6>1 DEF PublisherOK, Rests
          <5>3. QED BY <5>1, <5>2
        <4>3. QED BY <1>1, <2>2, <4>2, PublisherRests
      <3>2. ASSUME NEW c \in Client, NEW f \in Filter, UnSubscribe(c, f) PROVE PublisherOK(p)'
        <4>1. op' = [op EXCEPT ![c] = "unsubscribe"] /\ want' = [want EXCEPT ![c] = f]
          BY <3>2 DEF UnSubscribe, Request
        <4>2. \A d \in Client : op'[d] = "subscribe" => op[d] = "subscribe" /\ want'[d] = want[d]
          BY <4>1, Apartness DEF IInv, Types, WalkTypes
        <4>3. QED BY <1>3, <2>2, <4>2
      <3>3. ASSUME NEW t \in Topic, NEW o, NEW m, Retain(t, o, m) PROVE PublisherOK(p)'
        <4>1. op' = [op EXCEPT ![Retainer] = o] /\ want' = [want EXCEPT ![Retainer] = t]
          BY <3>3 DEF Retain, Request
        <4>2. \A d \in Client : op'[d] = "subscribe" => op[d] = "subscribe" /\ want'[d] = want[d]
          BY <4>1, Apartness DEF IInv, Types, WalkTypes
        <4>3. QED BY <1>3, <2>2, <4>2
      <3>4. ASSUME NEW r \in Publisher, NEW t \in Topic, Publish(r, t) PROVE PublisherOK(p)'
        <4>1. op' = op /\ want' = want BY <3>4 DEF Publish, walkVars
        <4>2. QED BY <1>3, <2>2, <4>1
      <3>5. QED BY <1>7, <3>1, <3>2, <3>3, <3>4 DEF Environment
    <2>3. QED BY <1>7, <2>1, <2>2, EnvironmentSearches
  <1>8. CASE UNCHANGED vars
    <2>1. Rests(p) /\ topic'[p] = topic[p] /\ op' = op /\ want' = want BY <1>8 DEF vars, searchVars, walkVars, Rests
    <2>2. QED BY <1>3, <2>1
  <1>9. CASE Next
    BY <1>4, <1>5, <1>6, <1>7, <1>8, <1>9, Zenon DEF Next, Quiet
  <1>10. QED BY <1>8, <1>9
-----------------------------------------------------------------------------
(* A client is answered with no retained message that it may not get *)

\* The items of the search for retained messages, and which topics a step can still
\* lead to.
ClientItem ==
  [step : {"child", "children", "retained", "panic"}, node : Node, level : Level \cup {None}, all : BOOLEAN]
Along(q, f) == Len(q) <= Len(f) /\ \A i \in 1 .. Len(q) : f[i] # MWC /\ (f[i] = SWC \/ f[i] = q[i])
Shown(n, all, t) == n = Root /\ all => t[1] \notin System \cup {""}
Ahead(e, t) ==
  \/ e.step = "retained" /\ path[e.node] = t
  \/ e.step = "child" /\ Under(Append(path[e.node], e.level), t)
  \/ e.step = "children" /\ Under(path[e.node], t) /\ Len(path[e.node]) < Len(t) /\ Shown(e.node, e.all, t)

\* Each is on the way along the filter; where all below is wanted, all it can lead to
\* matches.
OnFilter(e, f) ==
  /\ e.node \in 0 .. nodes
  /\ e.step = "child" => e.level \in Level
  /\ e.all => \A t \in Topic : Ahead(e, t) => Matches(f, t)
  /\ ~e.all /\ e.step = "child" => Along(Append(path[e.node], e.level), f)
  /\ ~e.all /\ e.step = "children" =>
       Along(path[e.node], f) /\ Len(path[e.node]) < Len(f) /\ f[Len(path[e.node]) + 1] = SWC
  /\ ~e.all => e.step # "retained"

LEMMA RetainedItem ==
  ASSUME NEW n \in Node
  PROVE  Retained(n) \in ClientItem /\ Retained(n).step = "retained" /\ Retained(n).node = n /\ Retained(n).all = TRUE
  BY DEF Retained, ToDo, ClientItem

LEMMA ChildrenItem ==
  ASSUME NEW n \in Node, NEW a \in BOOLEAN
  PROVE  /\ Children(n, a) \in ClientItem /\ Children(n, a).step = "children" /\ Children(n, a).node = n
         /\ Children(n, a).all = a
  BY DEF Children, ToDo, ClientItem

LEMMA ChildItem ==
  ASSUME NEW n \in Node, NEW l \in Level, NEW a \in BOOLEAN
  PROVE  /\ Child(n, l, a) \in ClientItem /\ Child(n, l, a).step = "child" /\ Child(n, l, a).node = n
         /\ Child(n, l, a).level = l /\ Child(n, l, a).all = a
  BY DEF Child, ToDo, ClientItem

LEMMA FilterFacts ==
  ASSUME NEW f \in Filter
  PROVE  f \in Seq(Level) /\ f # <<>> /\ Len(f) \in Nat \ {0} /\ \A i \in 1 .. Len(f) : f[i] \in Level
  <1>1. f \in Seq(Level) /\ f # <<>> BY LevelsIn
  <1>2. Len(f) \in Nat \ {0} BY <1>1, LenProperties, EmptySeq
  <1>3. \A i \in 1 .. Len(f) : f[i] \in Level BY <1>1, ElementOfSeq
  <1>4. QED BY <1>1, <1>2, <1>3

\* The levels of a node, in whatever order.
LEMMA OrderedLevels ==
  ASSUME NEW L, IsFiniteSet(L), NEW s \in Seqs!SetToSeqs(L)
  PROVE  s \in Seq(L) /\ DOMAIN s = 1 .. Len(s) /\ Items(s) = L
  <1>1. PICK n : n = Cardinality(L) OBVIOUS
  <1>2. n \in Nat BY <1>1, FS_CardinalityType
  <1>3. Seqs!Cardinality(L) = n BY <1>1 DEF Seqs!Cardinality, Cardinality
  <1>4. s \in [1 .. n -> L] /\ \A i, j \in 1 .. n : i # j => s[i] # s[j] BY <1>3 DEF Seqs!SetToSeqs
  <1>5. s \in Injection(1 .. n, L) BY <1>4 DEF Injection, IsInjective
  <1>6. s \in Surjection(1 .. n, L)
    <2>1. Cardinality(1 .. n) = n
      <3>1. Cardinality(1 .. n) = IF 1 > n THEN 0 ELSE n - 1 + 1 BY <1>2, FS_Interval
      <3>2. QED BY <1>2, <3>1
    <2>2. QED BY <1>1, <1>5, <2>1, FS_Injection
  <1>7. s \in Seq(L) /\ DOMAIN s = 1 .. n /\ Len(s) = n BY <1>2, <1>4, SeqDef
  <1>8. Items(s) = L BY <1>4, <1>6, <1>7 DEF Items, Surjection, Range
  <1>9. QED BY <1>7, <1>8

\* What comes after n items of a filter.
LEMMA RestOf ==
  ASSUME NEW f \in Seq(Level), NEW n \in Nat, n <= Len(f)
  PROVE  /\ SubSeq(f, n + 1, Len(f)) = <<>> <=> n = Len(f)
         /\ n < Len(f) => SubSeq(f, n + 1, Len(f))[1] = f[n + 1]
  <1>1. Len(f) \in Nat BY LenProperties
  <1>2. PICK r : r = SubSeq(f, n + 1, Len(f)) OBVIOUS
  <1>3. \A i \in (n + 1) .. Len(f) : f[i] \in Level BY <1>1, ElementOfSeq
  <1>4. /\ r \in Seq(Level) /\ Len(r) = (IF n + 1 <= Len(f) THEN Len(f) - (n + 1) + 1 ELSE 0)
        /\ \A i \in 1 .. Len(f) - (n + 1) + 1 : r[i] = f[(n + 1) + i - 1]
    BY <1>1, <1>2, <1>3, SubSeqProperties
  <1>5. n < Len(f) => Len(r) # 0 /\ r[1] = f[n + 1] BY <1>1, <1>4
  <1>6. n = Len(f) => r = <<>> BY <1>1, <1>4, EmptySeq
  <1>7. r = <<>> => Len(r) = 0 OBVIOUS
  <1>8. QED BY <1>1, <1>2, <1>5, <1>6, <1>7

\* Where a filter goes on from a node.
LEMMA ArriveItems ==
  ASSUME IInv, NEW n \in Node, NEW f \in Seq(Level), NEW all \in BOOLEAN, ~all => Len(path[n]) <= Len(f)
  PROVE  /\ Arrive(n, f, all) \in Seq(ClientItem) /\ Arrive(n, f, all) # <<>>
         /\ all => Items(Arrive(n, f, all)) = {Retained(n), Children(n, TRUE)}
         /\ ~all /\ Len(path[n]) = Len(f) => Items(Arrive(n, f, all)) = {Retained(n), Child(n, MWC, TRUE)}
         /\ ~all /\ Len(path[n]) < Len(f) =>
              Items(Arrive(n, f, all))
                = IF f[Len(path[n]) + 1] = MWC THEN {Retained(n), Children(n, TRUE)}
                  ELSE IF f[Len(path[n]) + 1] = SWC THEN {Children(n, FALSE)}
                  ELSE {Child(n, f[Len(path[n]) + 1], FALSE)}
  <1>1. PICK k, r, h : k = Len(path[n]) /\ r = SubSeq(f, k + 1, Len(f)) /\ h = Arrive(n, f, all) OBVIOUS
  <1>2. k \in Nat /\ Len(f) \in Nat BY <1>1, PathsIn, LenProperties
  <1>3. ~all => (r = <<>> <=> k = Len(f)) /\ (k < Len(f) => r[1] = f[k + 1] /\ f[k + 1] \in Level)
    <2>1. k < Len(f) => k + 1 \in 1 .. Len(f) BY <1>2
    <2>2. QED BY <1>1, <1>2, <2>1, RestOf, ElementOfSeq
  <1>4. PICK a, b, c, d : a = Retained(n) /\ b = Children(n, TRUE) /\ c = Child(n, MWC, TRUE) /\ d = Children(n, FALSE) OBVIOUS
  <1>5. MWC \in Level BY DEF Level
  <1>6. a \in ClientItem /\ b \in ClientItem /\ c \in ClientItem /\ d \in ClientItem BY <1>4, <1>5, RetainedItem, ChildrenItem, ChildItem
  <1>7. /\ <<a, b>> \in Seq(ClientItem) /\ Items(<<a, b>>) = {a, b} /\ <<a, b>> # <<>>
        /\ <<a, c>> \in Seq(ClientItem) /\ Items(<<a, c>>) = {a, c} /\ <<a, c>> # <<>>
        /\ <<d>> \in Seq(ClientItem) /\ Items(<<d>>) = {d} /\ <<d>> # <<>>
    <2>1. <<a, b>> \in Seq(ClientItem) /\ Items(<<a, b>>) = {a, b} /\ <<a, b>> # <<>> BY <1>6, ItemsTwo
    <2>2. <<a, c>> \in Seq(ClientItem) /\ Items(<<a, c>>) = {a, c} /\ <<a, c>> # <<>> BY <1>6, ItemsTwo
    <2>3. <<d>> \in Seq(ClientItem) /\ Items(<<d>>) = {d} /\ <<d>> # <<>> BY <1>6, ItemsOne
    <2>4. QED BY <2>1, <2>2, <2>3
  <1>8. CASE all
    <2>1. h = <<a, b>> BY <1>1, <1>4, <1>8 DEF Arrive
    <2>2. QED BY <1>1, <1>4, <1>7, <1>8, <2>1, Zenon
  <1>9. CASE ~all
    <2>1. /\ r = <<>> => h = <<a, c>>
          /\ r # <<>> /\ r[1] = MWC => h = <<a, b>>
          /\ r # <<>> /\ r[1] # MWC /\ r[1] = SWC => h = <<d>>
          /\ r # <<>> /\ r[1] # MWC /\ r[1] # SWC => h = <<Child(n, r[1], FALSE)>>
      <3>1. MWC # SWC BY DEF MWC, SWC
      <3>2. QED BY <1>1, <1>4, <1>9, <3>1 DEF Arrive
    <2>2. CASE k = Len(f)
      <3>1. h = <<a, c>> BY <1>3, <1>9, <2>1, <2>2
      <3>2. ~(k < Len(f)) BY <1>2, <2>2
      <3>3. QED BY <1>1, <1>4, <1>7, <1>9, <2>2, <3>1, <3>2, Zenon
    <2>3. CASE k < Len(f)
      <3>1. PICK l, e : l = f[k + 1] /\ e = Child(n, l, FALSE) OBVIOUS
      <3>2. r # <<>> /\ r[1] = l /\ l \in Level /\ k # Len(f) BY <1>2, <1>3, <1>9, <2>3, <3>1
      <3>3. e \in ClientItem BY <3>1, <3>2, RetainedItem, ChildrenItem, ChildItem
      <3>4. <<e>> \in Seq(ClientItem) /\ Items(<<e>>) = {e} /\ <<e>> # <<>> BY <3>3, ItemsOne
      <3>5. MWC # SWC BY DEF MWC, SWC
      <3>6. CASE l = MWC
        <4>1. h = <<a, b>> BY <2>1, <3>2, <3>6
        <4>2. QED BY <1>1, <1>4, <1>7, <1>9, <2>3, <3>1, <3>2, <3>6, <4>1, Zenon
      <3>7. CASE l = SWC
        <4>1. h = <<d>> BY <2>1, <3>2, <3>5, <3>7
        <4>2. QED BY <1>1, <1>4, <1>7, <1>9, <2>3, <3>1, <3>2, <3>5, <3>7, <4>1, Zenon
      <3>8. CASE l # MWC /\ l # SWC
        <4>1. h = <<e>> BY <2>1, <3>1, <3>2, <3>8
        <4>2. QED BY <1>1, <1>4, <1>9, <2>3, <3>1, <3>2, <3>4, <3>8, <4>1, Zenon
      <3>9. QED BY <3>6, <3>7, <3>8
    <2>4. k = Len(f) \/ k < Len(f) BY <1>1, <1>2, <1>9
    <2>5. QED BY <2>2, <2>3, <2>4
  <1>10. QED BY <1>8, <1>9

\* The items on a filter, by what they can lead to.
LEMMA ItemsOnFilter ==
  ASSUME IInv, NEW n \in 0 .. nodes, NEW f, NEW l \in Level, NEW q, q = path[n]
  PROVE  /\ (\A t \in Topic : q = t => Matches(f, t)) => OnFilter(Retained(n), f)
         /\ (\A t \in Topic : Under(q, t) /\ Len(q) < Len(t) /\ Shown(n, TRUE, t) => Matches(f, t))
              => OnFilter(Children(n, TRUE), f)
         /\ (\A t \in Topic : Under(Append(q, l), t) => Matches(f, t)) => OnFilter(Child(n, l, TRUE), f)
         /\ Along(q, f) /\ Len(q) < Len(f) /\ f[Len(q) + 1] = SWC => OnFilter(Children(n, FALSE), f)
         /\ Along(Append(q, l), f) => OnFilter(Child(n, l, FALSE), f)
  <1>1. n \in Node BY NodeFacts DEF IInv, Types
  <1>2. PICK a, b, c, d, e : /\ a = Retained(n) /\ b = Children(n, TRUE) /\ c = Child(n, l, TRUE)
                             /\ d = Children(n, FALSE) /\ e = Child(n, l, FALSE)
    OBVIOUS
  <1>3. /\ a.step = "retained" /\ a.node = n /\ a.all = TRUE
        /\ b.step = "children" /\ b.node = n /\ b.all = TRUE
        /\ c.step = "child" /\ c.node = n /\ c.all = TRUE /\ c.level = l
        /\ d.step = "children" /\ d.node = n /\ d.all = FALSE
        /\ e.step = "child" /\ e.node = n /\ e.all = FALSE /\ e.level = l
    BY <1>1, <1>2 DEF Retained, Children, Child, ToDo
  <1>4. (\A t \in Topic : q = t => Matches(f, t)) => OnFilter(a, f) BY <1>3 DEF OnFilter, Ahead
  <1>5. (\A t \in Topic : Under(q, t) /\ Len(q) < Len(t) /\ Shown(n, TRUE, t) => Matches(f, t)) => OnFilter(b, f)
    BY <1>3 DEF OnFilter, Ahead
  <1>6. (\A t \in Topic : Under(Append(q, l), t) => Matches(f, t)) => OnFilter(c, f) BY <1>3 DEF OnFilter, Ahead
  <1>7. Along(q, f) /\ Len(q) < Len(f) /\ f[Len(q) + 1] = SWC => OnFilter(d, f) BY <1>3 DEF OnFilter
  <1>8. Along(Append(q, l), f) => OnFilter(e, f) BY <1>3 DEF OnFilter
  <1>9. QED BY <1>2, <1>4, <1>5, <1>6, <1>7, <1>8

LEMMA AlongAppend ==
  ASSUME NEW q \in Seq(Level), NEW f \in Seq(Level), Along(q, f), Len(q) < Len(f), NEW l \in Level,
         f[Len(q) + 1] # MWC, f[Len(q) + 1] \in {SWC, l}
  PROVE  Along(Append(q, l), f)
  <1>1. Len(q) \in Nat /\ Len(f) \in Nat BY LenProperties
  <1>2. Len(Append(q, l)) <= Len(f) BY <1>1, AppendIs
  <1>3. ASSUME NEW i \in 1 .. Len(Append(q, l)) PROVE f[i] # MWC /\ (f[i] = SWC \/ f[i] = Append(q, l)[i])
    <2>1. CASE i = Len(q) + 1 BY <2>1, AppendIs
    <2>2. CASE i # Len(q) + 1
      <3>1. i \in 1 .. Len(q) BY <1>1, <2>2, AppendIs
      <3>2. QED BY <3>1, AppendIs DEF Along
    <2>3. QED BY <2>1, <2>2
  <1>4. QED BY <1>2, <1>3 DEF Along

\* At the end of a filter and at a "#" in it: nothing comes after that, and "+" does not
\* stand for a level that begins with "$".
LEMMA AlongMatches ==
  ASSUME Plain, NEW f \in Filter, NEW q \in Seq(Level), Along(q, f), NEW t \in Topic
  PROVE  /\ Len(q) = Len(f) /\ q = t => Matches(f, t)
         /\ /\ Len(q) < Len(f) /\ f[Len(q) + 1] = MWC /\ Under(q, t)
            /\ q = <<>> => t[1] \notin System
            => Matches(f, t)
  <1>1. Len(q) \in Nat /\ Len(f) \in Nat \ {0} /\ Len(t) \in Nat \ {0} /\ t # <<>>
    BY LenProperties, FilterFacts, TopicFacts
  <1>2. (f[1] = SWC => t[1] \notin System) /\ \A i \in 1 .. Len(f) - 1 : f[i] # MWC BY DEF Plain
  <1>3. ASSUME Len(q) = Len(f), q = t PROVE Matches(f, t)
    <2>1. 1 \in 1 .. Len(q) /\ Len(f) \in 1 .. Len(q) BY <1>1, <1>3
    <2>2. f[Len(f)] # MWC /\ (f[1] = SWC \/ f[1] = t[1]) BY <1>3, <2>1 DEF Along
    <2>3. QED BY <1>2, <1>3, <2>2 DEF Along, Matches
  <1>4. ASSUME Len(q) < Len(f), f[Len(q) + 1] = MWC, Under(q, t), q = <<>> => t[1] \notin System PROVE Matches(f, t)
    <2>1. Len(f) = Len(q) + 1
      <3>1. Len(q) + 1 \notin 1 .. Len(f) - 1 BY <1>2, <1>4
      <3>2. QED BY <1>1, <1>4, <3>1
    <2>2. Len(f) - 1 = Len(q) /\ f[Len(f)] = MWC BY <1>1, <1>4, <2>1
    <2>3. \A i \in 1 .. Len(q) : f[i] = SWC \/ f[i] = t[i] BY <1>4 DEF Along, Under
    <2>4. q # <<>> => 1 \in 1 .. Len(q) BY <1>1, EmptySeq
    <2>5. t[1] \in System => f[1] = t[1] BY <1>2, <1>4, <2>3, <2>4
    <2>6. QED BY <1>1, <1>4, <2>2, <2>3, <2>5 DEF Matches, Under
  <1>5. QED BY <1>3, <1>4

\* Where it goes on it is on the filter.
LEMMA ArriveOnFilter ==
  ASSUME IInv, Plain, NEW n \in 0 .. nodes, NEW f \in Filter, NEW all \in BOOLEAN,
         all => \A t \in Topic : Under(path[n], t) => Matches(f, t),
         ~all => Along(path[n], f) /\ (path[n] = <<>> => f[1] # MWC)
  PROVE  /\ Arrive(n, f, all) \in Seq(ClientItem) /\ Arrive(n, f, all) # <<>>
         /\ \A e \in Items(Arrive(n, f, all)) : e.node = n /\ OnFilter(e, f)
  <1>1. PICK q, k : q = path[n] /\ k = Len(q) OBVIOUS
  <1>2. /\ n \in Node /\ q \in Seq(Level) /\ k \in Nat /\ f \in Seq(Level) /\ Len(f) \in Nat \ {0} /\ MWC \in Level
        /\ MWC # SWC /\ \A i \in 1 .. Len(f) : f[i] \in Level
    <2>1. n \in Node BY NodeFacts DEF IInv, Types
    <2>2. q \in Seq(Level) BY <1>1, <2>1, PathsIn
    <2>3. MWC \in Level /\ MWC # SWC BY DEF Level, MWC, SWC
    <2>4. QED BY <1>1, <2>1, <2>2, <2>3, LenProperties, FilterFacts
  <1>3. ~all => k <= Len(f) BY <1>1 DEF Along
  <1>4. PICK h : h = Arrive(n, f, all) OBVIOUS
  <1>5. /\ h \in Seq(ClientItem) /\ h # <<>>
        /\ all => Items(h) = {Retained(n), Children(n, TRUE)}
        /\ ~all /\ k = Len(f) => Items(h) = {Retained(n), Child(n, MWC, TRUE)}
        /\ ~all /\ k < Len(f) =>
              Items(h) = IF f[k + 1] = MWC THEN {Retained(n), Children(n, TRUE)}
                         ELSE IF f[k + 1] = SWC THEN {Children(n, FALSE)}
                         ELSE {Child(n, f[k + 1], FALSE)}
    BY <1>1, <1>2, <1>3, <1>4, ArriveItems
  <1>6. \A l \in Level : /\ Retained(n).node = n /\ Children(n, TRUE).node = n /\ Children(n, FALSE).node = n
                         /\ Child(n, l, TRUE).node = n /\ Child(n, l, FALSE).node = n
    BY DEF Retained, Children, Child, ToDo
  <1>7. CASE all
    <2>1. \A t \in Topic : q = t => Under(q, t) BY <1>2 DEF Under
    <2>2. OnFilter(Retained(n), f) BY <1>1, <1>2, <1>7, <2>1, ItemsOnFilter
    <2>3. OnFilter(Children(n, TRUE), f) BY <1>1, <1>2, <1>7, ItemsOnFilter
    <2>4. QED BY <1>2, <1>4, <1>5, <1>6, <1>7, <2>2, <2>3
  <1>8. CASE ~all /\ k = Len(f)
    <2>1. \A t \in Topic : q = t => Matches(f, t) BY <1>1, <1>2, <1>8, AlongMatches
    <2>2. OnFilter(Retained(n), f) BY <1>1, <1>2, <2>1, ItemsOnFilter
    <2>3. ASSUME NEW t \in Topic, Under(Append(q, MWC), t) PROVE FALSE
      <3>1. t \in Seq(Level) BY TopicFacts
      <3>2. k < Len(t) /\ t[k + 1] = MWC BY <1>1, <1>2, <2>3, <3>1, UnderFront
      <3>3. k + 1 \in 1 .. Len(t) BY <1>2, <3>1, <3>2, LenProperties
      <3>4. QED BY <3>2, <3>3, TopicFacts
    <2>4. OnFilter(Child(n, MWC, TRUE), f) BY <1>1, <1>2, <2>3, ItemsOnFilter
    <2>5. QED BY <1>2, <1>4, <1>5, <1>6, <1>8, <2>2, <2>4
  <1>9. CASE ~all /\ k < Len(f)
    <2>1. PICK l : l = f[k + 1] OBVIOUS
    <2>2. l \in Level BY <1>2, <1>9, <2>1
    <2>3. CASE l = MWC
      <3>1. q # <<>> /\ k >= 1
        <4>1. q = <<>> => k + 1 = 1 BY <1>1
        <4>2. q # <<>> BY <1>1, <1>9, <2>1, <2>3, <4>1
        <4>3. QED BY <1>1, <1>2, <4>2, EmptySeq
      <3>2. \A t \in Topic : Under(q, t) => Matches(f, t) BY <1>1, <1>2, <1>9, <2>1, <2>3, <3>1, AlongMatches
      <3>3. \A t \in Topic : q = t => Under(q, t) BY <1>2 DEF Under
      <3>4. OnFilter(Retained(n), f) BY <1>1, <1>2, <3>2, <3>3, ItemsOnFilter
      <3>5. OnFilter(Children(n, TRUE), f) BY <1>1, <1>2, <3>2, ItemsOnFilter
      <3>6. Items(h) = {Retained(n), Children(n, TRUE)} BY <1>5, <1>9, <2>1, <2>3
      <3>7. QED BY <1>2, <1>4, <1>5, <1>6, <3>4, <3>5, <3>6
    <2>4. CASE l = SWC
      <3>1. OnFilter(Children(n, FALSE), f) BY <1>1, <1>2, <1>9, <2>1, <2>4, ItemsOnFilter
      <3>2. Items(h) = {Children(n, FALSE)} BY <1>2, <1>5, <1>9, <2>1, <2>4
      <3>3. QED BY <1>2, <1>4, <1>5, <1>6, <3>1, <3>2
    <2>5. CASE l # MWC /\ l # SWC
      <3>1. Along(Append(q, l), f) BY <1>1, <1>2, <1>9, <2>1, <2>2, <2>5, AlongAppend
      <3>2. OnFilter(Child(n, l, FALSE), f) BY <1>1, <2>2, <3>1, ItemsOnFilter
      <3>3. Items(h) = {Child(n, l, FALSE)} BY <1>5, <1>9, <2>1, <2>5
      <3>4. QED BY <1>4, <1>5, <1>6, <2>2, <3>2, <3>3
    <2>6. QED BY <2>3, <2>4, <2>5
  <1>10. QED BY <1>2, <1>3, <1>7, <1>8, <1>9

\* It finds nothing but what it may, now and from any node it may come to.
WideToo(S, c) ==
  /\ Closed(S)
  /\ \A n \in S : retained[n] # None /\ Matches(want[c], path[n]) => path[n] \in may[c]
WideForClient(c) == \E S \in SUBSET Node : WideToo(S, c) /\ \A e \in Items(todo[c]) : e.node \in S
ClientOK(c) ==
  /\ todo[c] \in Seq(ClientItem) /\ found[c] \subseteq may[c]
  /\ pc[c] = "collect" <=> todo[c] # <<>>
  /\ pc[c] \notin {"collect", "answer"} => found[c] = {} /\ due[c] = {}
  /\ todo[c] # <<>> =>
       /\ \A e \in Items(todo[c]) : OnFilter(e, want[c])
       /\ WideForClient(c)
       /\ want[Retainer] \in Topic /\ Matches(want[c], want[Retainer]) => want[Retainer] \in may[c]

LEMMA OnFilterKept ==
  ASSUME IInv, TreeMoves, NEW e, NEW f, OnFilter(e, f)
  PROVE  OnFilter(e, f)'
  <1>1. e.node \in 0 .. nodes BY DEF OnFilter
  <1>2. e.node \in (0 .. nodes)' /\ path'[e.node] = path[e.node] BY <1>1, MovesKeep
  <1>3. \A t \in Topic : Ahead(e, t)' <=> Ahead(e, t) BY <1>2 DEF Ahead
  <1>4. QED BY <1>2, <1>3 DEF OnFilter, Matches

LEMMA ClientRests ==
  ASSUME IInv, HeldOK, TreeMoves, NodesMove, NEW c \in Client, ClientOK(c), Rests(c),
         pc'[c] = "collect" <=> pc[c] = "collect",
         pc'[c] \notin {"collect", "answer"} => pc[c] \notin {"collect", "answer"},
         todo[c] # <<>> =>
           /\ want'[c] = want[c]
           /\ want'[Retainer] \in Topic /\ Matches(want[c], want'[Retainer]) => want'[Retainer] \in may'[c]
  PROVE  ClientOK(c)'
  <1>1. PICK f, q : f = want[c] /\ q = todo[c] OBVIOUS
  <1>2. /\ todo'[c] = q /\ found'[c] = found[c] /\ due'[c] \subseteq due[c] /\ may[c] \subseteq may'[c]
        /\ q # <<>> => want'[c] = f
    BY <1>1 DEF Rests
  <1>3. /\ q \in Seq(ClientItem) /\ found'[c] \subseteq may'[c]
        /\ pc'[c] = "collect" <=> q # <<>>
        /\ pc'[c] \notin {"collect", "answer"} => found'[c] = {} /\ due'[c] = {}
    BY <1>1, <1>2 DEF ClientOK
  <1>4. ClientItem' = ClientItem BY DEF ClientItem, Node
  <1>5. ASSUME q # <<>>
        PROVE  (\A e \in Items(q) : OnFilter(e, f)') /\ WideForClient(c)'
    <2>1. ASSUME NEW e \in Items(q) PROVE OnFilter(e, f)'
      <3>1. OnFilter(e, f) BY <1>1, <1>5 DEF ClientOK
      <3>2. QED BY <3>1, OnFilterKept
    <2>2. PICK S \in SUBSET Node : WideToo(S, c) /\ \A e \in Items(q) : e.node \in S
      BY <1>1, <1>5 DEF ClientOK, WideForClient
    <2>3. Closed(S)' BY <2>2, ClosedKept DEF WideToo
    <2>4. ASSUME NEW n \in S, retained'[n] # None, Matches(f, path'[n]) PROVE path'[n] \in may'[c]
      <3>1. /\ path'[n] = path[n] /\ path[n] \in Topic
            /\ retained[n] # None \/ want[Retainer] = path[n]
        BY <2>4, Added
      <3>2. CASE retained[n] # None BY <1>1, <1>2, <2>2, <2>4, <3>1, <3>2 DEF WideToo
      <3>3. CASE want[Retainer] = path[n]
        <4>1. want[Retainer] \in Topic /\ Matches(f, want[Retainer]) BY <2>4, <3>1, <3>3
        <4>2. want[Retainer] \in may[c] BY <1>1, <1>5, <4>1 DEF ClientOK
        <4>3. QED BY <1>2, <3>1, <3>3, <4>2
      <3>4. QED BY <3>1, <3>2, <3>3
    <2>5. WideToo(S, c)' BY <1>2, <1>5, <2>3, <2>4 DEF WideToo, Matches
    <2>6. WideForClient(c)' BY <1>2, <2>2, <2>5 DEF WideForClient, Items, Node
    <2>7. QED BY <2>1, <2>6
  <1>6. ASSUME q # <<>>
        PROVE  want'[Retainer] \in Topic /\ Matches(f, want'[Retainer]) => want'[Retainer] \in may'[c]
    BY <1>1, <1>6
  <1>7. ASSUME q # <<>> PROVE \A e \in Items(q) : OnFilter(e, want[c])' BY <1>2, <1>5, <1>7 DEF OnFilter, Ahead
  <1>8. QED BY <1>2, <1>3, <1>4, <1>5, <1>6, <1>7 DEF ClientOK, Matches, Items

\* The answer to a subscription begins with what is retained or being retained.
LEMMA BeginSearchOK ==
  ASSUME IInv, HeldOK, NotedOK, SearchTypes, Plain, NEW c \in Client, ClientOK(c), pc[c] \in {"leaf", "release"},
         BeginSearch(c), UNCHANGED <<treeVars, retained, want, found>>
  PROVE  ClientOK(c)'
  <1>1. PICK f : f = want[c] OBVIOUS
  <1>2. f \in Filter /\ f \in Seq(Level) /\ Len(f) \in Nat \ {0} /\ c \in Walker
    <2>1. c \in Walker /\ c # Retainer BY Apartness
    <2>2. RequestOK(c) BY <2>1 DEF IInv, WalkOK
    <2>3. f \in Filter BY <1>1, <2>1, <2>2 DEF RequestOK
    <2>4. QED BY <2>1, <2>3, FilterFacts
  <1>3. PICK q, m : /\ q = IF f[1] = MWC THEN <<Children(Root, TRUE)>> ELSE Arrive(Root, f, FALSE)
                    /\ m = {t \in Topic : Matches(f, t) /\ (kept[t] # None \/ want[Retainer] = t)}
    OBVIOUS
  <1>4. todo' = [todo EXCEPT ![c] = q] /\ may' = [may EXCEPT ![c] = m] /\ pc' = [pc EXCEPT ![c] = "collect"]
    <2>1. m = {t \in {t \in Topic : Matches(f, t)} : kept[t] # None \/ want[Retainer] = t} BY <1>3
    <2>2. QED BY <1>1, <1>3, <2>1, Zenon DEF BeginSearch, Goto
  <1>5. todo'[c] = q /\ may'[c] = m /\ pc'[c] = "collect" /\ found'[c] = {} /\ want' = want
    <2>1. found[c] = {} BY DEF ClientOK
    <2>2. QED BY <1>2, <1>4, <2>1, Apartness DEF SearchTypes, IInv, Types, WalkTypes
  <1>6. Root \in 0 .. nodes /\ Root \in Node /\ path[Root] = <<>> /\ Len(<<>>) = 0
    BY NodeFacts, PathsIn DEF IInv, Types
  <1>7. q \in Seq(ClientItem) /\ q # <<>> /\ \A e \in Items(q) : e.node = Root /\ OnFilter(e, f)
    <2>1. CASE f[1] = MWC
      <3>1. PICK e, z : e = Children(Root, TRUE) /\ z = path[Root] OBVIOUS
      <3>2. e \in ClientItem /\ e.node = Root BY <1>6, <3>1, ChildrenItem
      <3>3. <<e>> \in Seq(ClientItem) /\ Items(<<e>>) = {e} /\ <<e>> # <<>> BY <3>2, ItemsOne
      <3>4. z \in Seq(Level) /\ Len(z) = 0 /\ z = <<>> BY <1>6, <3>1, PathsIn
      <3>5. Along(z, f) /\ Len(z) < Len(f) /\ f[Len(z) + 1] = MWC BY <1>2, <2>1, <3>4 DEF Along
      <3>6. \A t \in Topic : Under(z, t) /\ Len(z) < Len(t) /\ Shown(Root, TRUE, t) => Matches(f, t)
        BY <1>2, <3>4, <3>5, AlongMatches DEF Shown
      <3>7. OnFilter(e, f)
        <4>1. PICK l \in Level : TRUE BY DEF Level
        <4>2. QED BY <1>6, <3>1, <3>6, <4>1, ItemsOnFilter
      <3>8. q = <<e>> BY <1>3, <2>1, <3>1
      <3>9. QED BY <3>2, <3>3, <3>7, <3>8
    <2>2. CASE f[1] # MWC
      <3>1. q = Arrive(Root, f, FALSE) BY <1>3, <2>2
      <3>2. Along(path[Root], f) BY <1>2, <1>6 DEF Along
      <3>3. QED BY <1>2, <1>6, <2>2, <3>1, <3>2, ArriveOnFilter
    <2>3. QED BY <2>1, <2>2
  <1>8. TreeMoves BY TreeSame
  <1>9. \A e \in Items(q) : OnFilter(e, f)' BY <1>7, <1>8, OnFilterKept
  <1>10. PICK S : S = Reach OBVIOUS
  <1>11. S \subseteq Node /\ Root \in S /\ Closed(S) BY <1>10, ReachClosed
  <1>12. Closed(S)' BY <1>8, <1>11, ClosedKept
  <1>13. path' = path BY DEF treeVars
  <1>14. ASSUME NEW n \in S, retained'[n] # None, Matches(f, path'[n]) PROVE path'[n] \in m
    <2>1. path[n] \in Topic /\ (kept[path[n]] # None \/ want[Retainer] = path[n])
      BY <1>10, <1>11, <1>14 DEF NotedOK, HeldOK
    <2>2. QED BY <1>3, <1>13, <1>14, <2>1
  <1>15. WideToo(S, c)' BY <1>1, <1>5, <1>12, <1>14 DEF WideToo, Matches
  <1>16. WideForClient(c)' BY <1>5, <1>7, <1>11, <1>15 DEF WideForClient, Items, Node
  <1>17. want[Retainer] \in Topic /\ Matches(f, want[Retainer]) => want[Retainer] \in m BY <1>3
  <1>18. ClientItem' = ClientItem BY DEF ClientItem, Node
  <1>19. QED BY <1>1, <1>5, <1>7, <1>9, <1>16, <1>17, <1>18 DEF ClientOK, OnFilter, Ahead, Matches, Items

\* A step of the search, with the same tree.
LEMMA CollectOn ==
  ASSUME IInv, HeldOK, NEW c \in Client, ClientOK(c), todo[c] # <<>>,
         UNCHANGED <<treeVars, retained, want, may>>, NEW q \in Seq(ClientItem),
         todo'[c] = q, found'[c] \subseteq may[c], pc'[c] = IF q = <<>> THEN "answer" ELSE "collect",
         \A S \in SUBSET Node : Closed(S) /\ (\A e \in Items(todo[c]) : e.node \in S) => \A e \in Items(q) : e.node \in S,
         \A e \in Items(q) : OnFilter(e, want[c])
  PROVE  ClientOK(c)'
  <1>1. PICK f : f = want[c] OBVIOUS
  <1>2. path' = path /\ nodes' = nodes /\ TreeMoves BY TreeSame DEF treeVars
  <1>3. \A e \in Items(q) : OnFilter(e, f)' BY <1>1, <1>2, OnFilterKept
  <1>4. PICK S \in SUBSET Node : WideToo(S, c) /\ \A e \in Items(todo[c]) : e.node \in S BY DEF ClientOK, WideForClient
  <1>5. Closed(S)' BY <1>2, <1>4, ClosedKept DEF WideToo
  <1>6. WideToo(S, c)' BY <1>2, <1>4, <1>5 DEF WideToo, Matches
  <1>7. \A e \in Items(q) : e.node \in S BY <1>4 DEF WideToo
  <1>8. WideForClient(c)' BY <1>6, <1>7 DEF WideForClient, Items, Node
  <1>9. ClientItem' = ClientItem BY DEF ClientItem, Node
  <1>10. want[Retainer] \in Topic /\ Matches(f, want[Retainer]) => want[Retainer] \in may[c] BY <1>1 DEF ClientOK
  <1>11. QED BY <1>1, <1>3, <1>8, <1>9, <1>10 DEF ClientOK, OnFilter, Ahead, Matches, Items

\* The item a client looks at.
LEMMA HeadOn ==
  ASSUME IInv, NEW c \in Client, ClientOK(c), pc[c] = "collect", NEW d, d = Head(todo[c])
  PROVE  /\ todo[c] # <<>> /\ d \in ClientItem /\ d.node \in 0 .. nodes /\ d.node \in Node /\ d.all \in BOOLEAN
         /\ Tail(todo[c]) \in Seq(ClientItem) /\ Items(todo[c]) = {d} \cup Items(Tail(todo[c]))
         /\ OnFilter(d, want[c]) /\ want[c] \in Filter /\ c \in Walker
  <1>1. todo[c] # <<>> /\ todo[c] \in Seq(ClientItem) BY DEF ClientOK
  <1>2. d \in ClientItem /\ Tail(todo[c]) \in Seq(ClientItem) /\ Items(todo[c]) = {d} \cup Items(Tail(todo[c]))
    BY <1>1, ItemsFirst
  <1>3. OnFilter(d, want[c]) BY <1>1, <1>2 DEF ClientOK
  <1>4. d.node \in 0 .. nodes /\ d.node \in Node /\ d.all \in BOOLEAN BY <1>2, <1>3 DEF OnFilter, ClientItem
  <1>5. c \in Walker /\ c # Retainer BY Apartness
  <1>6. RequestOK(c) BY <1>5 DEF IInv, WalkOK
  <1>7. want[c] \in Filter BY <1>5, <1>6 DEF RequestOK
  <1>8. QED BY <1>1, <1>2, <1>3, <1>4, <1>5, <1>7

LEMMA CollectOK ==
  ASSUME IInv, HeldOK, SearchTypes, NEW c \in Client, ClientOK(c), NEW step, NEW next, next \in Seq(ClientItem),
         Collect(c, step, next), found'[c] \subseteq may[c], NEW d, d = Head(todo[c]),
         \A S \in SUBSET Node : Closed(S) /\ d.node \in S => \A e \in Items(next) : e.node \in S,
         \A e \in Items(next) : OnFilter(e, want[c])
  PROVE  ClientOK(c)'
  <1>1. PICK r, q : r = Tail(todo[c]) /\ q = next \o r OBVIOUS
  <1>2. /\ pc[c] = "collect" /\ todo' = [todo EXCEPT ![c] = q]
        /\ pc' = [pc EXCEPT ![c] = IF todo'[c] = <<>> THEN "answer" ELSE "collect"]
        /\ UNCHANGED <<treeVars, retained, want, may>>
    BY <1>1 DEF Collect, Goto
  <1>3. /\ todo[c] # <<>> /\ d \in ClientItem /\ r \in Seq(ClientItem) /\ Items(todo[c]) = {d} \cup Items(r)
        /\ OnFilter(d, want[c]) /\ c \in Walker
    BY <1>1, <1>2, HeadOn
  <1>4. todo'[c] = q BY <1>2, Apartness DEF SearchTypes
  <1>5. pc'[c] = IF q = <<>> THEN "answer" ELSE "collect" BY <1>2, <1>3, <1>4 DEF IInv, Types, WalkTypes
  <1>6. q \in Seq(ClientItem) /\ Items(q) = Items(next) \cup Items(r)
    <2>1. next \in Seq(ClientItem) /\ r \in Seq(ClientItem) BY <1>3
    <2>2. next \o r \in Seq(ClientItem) /\ Items(next \o r) = Items(next) \cup Items(r) BY <2>1, ItemsBoth, SMTT(30)
    <2>3. QED BY <1>1, <2>2, Zenon
  <1>7. \A e \in Items(r) : OnFilter(e, want[c]) BY <1>3 DEF ClientOK
  <1>8. \A e \in Items(q) : OnFilter(e, want[c]) BY <1>6, <1>7
  <1>9. \A S \in SUBSET Node : Closed(S) /\ (\A e \in Items(todo[c]) : e.node \in S) => \A e \in Items(q) : e.node \in S
    BY <1>3, <1>6
  <1>10. QED BY <1>2, <1>3, <1>4, <1>5, <1>6, <1>8, <1>9, CollectOn

\* What a client does next when it has loaded a child.
AfterKid(d, f) ==
  LET n == children[d.node][d.level]
      granted == d.node = Root /\ f[1] \in System
  IN IF n # None THEN Arrive(n, f, d.all) ELSE IF granted THEN <<Panic>> ELSE <<>>

LEMMA LoadKidOK ==
  ASSUME IInv, HeldOK, SearchTypes, Plain, NEW c \in Client, ClientOK(c), LoadKid(c)
  PROVE  ClientOK(c)'
  <1>1. PICK d, f : d = Head(todo[c]) /\ f = want[c] OBVIOUS
  <1>2. PICK next, n : next = AfterKid(d, f) /\ n = children[d.node][d.level] OBVIOUS
  <1>3. Collect(c, "child", next) /\ found' = found BY <1>1, <1>2, Zenon DEF LoadKid, AfterKid
  <1>4. pc[c] = "collect" /\ d.step = "child" BY <1>1, <1>3 DEF Collect
  <1>5. /\ d \in ClientItem /\ d.node \in 0 .. nodes /\ d.node \in Node /\ d.all \in BOOLEAN
        /\ OnFilter(d, f) /\ f \in Filter
    BY <1>1, <1>4, HeadOn
  <1>6. d.level \in Level BY <1>4, <1>5 DEF OnFilter
  <1>7. /\ next \in Seq(ClientItem)
        /\ \A e \in Items(next) : (e.node = n /\ n # None) \/ e.node = d.node
        /\ \A e \in Items(next) : OnFilter(e, f)
    <2>1. CASE n # None
      <3>1. next = Arrive(n, f, d.all) BY <1>2, <2>1, Zenon DEF AfterKid
      <3>2. n \in Created /\ path[n] = Append(path[d.node], d.level) BY <1>2, <1>5, <1>6, <2>1 DEF IInv, TreeOK
      <3>3. n \in 0 .. nodes /\ path[n] # <<>> BY <3>2, NodeFacts, PathsIn DEF IInv, Types
      <3>4. d.all => \A t \in Topic : Under(path[n], t) => Matches(f, t) BY <1>4, <1>5, <3>2 DEF OnFilter, Ahead
      <3>5. ~d.all => Along(path[n], f) BY <1>4, <1>5, <3>2 DEF OnFilter
      <3>6. QED BY <1>5, <2>1, <3>1, <3>3, <3>4, <3>5, ArriveOnFilter
    <2>2. CASE n = None /\ d.node = Root /\ f[1] \in System
      <3>1. PICK e : e = Panic OBVIOUS
      <3>2. e \in ClientItem /\ e.node = Root /\ e.step = "panic" /\ e.all = FALSE BY <1>5, <2>2, <3>1 DEF Panic, ToDo, ClientItem
      <3>3. next = <<e>> BY <1>2, <2>2, <3>1, Zenon DEF AfterKid
      <3>4. <<e>> \in Seq(ClientItem) /\ Items(<<e>>) = {e} BY <3>2, ItemsOne
      <3>5. OnFilter(e, f) BY <1>5, <2>2, <3>2 DEF OnFilter
      <3>6. QED BY <2>2, <3>2, <3>3, <3>4, <3>5
    <2>3. CASE n = None /\ ~(d.node = Root /\ f[1] \in System)
      <3>1. next = <<>> BY <1>2, <2>3, Zenon DEF AfterKid
      <3>2. QED BY <3>1, ItemsZero
    <2>4. QED BY <2>1, <2>2, <2>3
  <1>8. ASSUME NEW S \in SUBSET Node, Closed(S), d.node \in S, NEW e \in Items(next) PROVE e.node \in S
    BY <1>2, <1>6, <1>7, <1>8 DEF Closed
  <1>9. found'[c] \subseteq may[c] BY <1>3 DEF ClientOK
  <1>10. QED BY <1>1, <1>3, <1>7, <1>8, <1>9, CollectOK

LEMMA LoadRetainedOK ==
  ASSUME IInv, HeldOK, SearchTypes, NEW c \in Client, ClientOK(c), LoadRetained(c)
  PROVE  ClientOK(c)'
  <1>1. PICK d, f, n : d = Head(todo[c]) /\ f = want[c] /\ n = d.node OBVIOUS
  <1>2. /\ Collect(c, "retained", <<>>)
        /\ found' = [found EXCEPT ![c] = IF retained[n] = None THEN @ ELSE @ \cup {path[n]}]
    BY <1>1 DEF LoadRetained
  <1>3. pc[c] = "collect" /\ d.step = "retained" BY <1>1, <1>2 DEF Collect
  <1>4. n \in Node /\ OnFilter(d, f) /\ todo[c] # <<>> /\ d \in Items(todo[c]) /\ d.all \in BOOLEAN
    BY <1>1, <1>3, HeadOn
  <1>5. retained[n] # None => path[n] \in may[c]
    <2>1. PICK S \in SUBSET Node : WideToo(S, c) /\ \A e \in Items(todo[c]) : e.node \in S
      BY <1>4 DEF ClientOK, WideForClient
    <2>2. n \in S BY <1>1, <1>4, <2>1
    <2>3. retained[n] # None => path[n] \in Topic BY <1>4 DEF HeldOK
    <2>4. path[n] \in Topic => Matches(f, path[n]) BY <1>1, <1>3, <1>4 DEF OnFilter, Ahead
    <2>5. QED BY <1>1, <2>1, <2>2, <2>3, <2>4 DEF WideToo
  <1>6. found'[c] \subseteq may[c]
    <2>1. found'[c] = IF retained[n] = None THEN found[c] ELSE found[c] \cup {path[n]} BY <1>2, Apartness DEF SearchTypes
    <2>2. QED BY <1>5, <2>1 DEF ClientOK
  <1>7. PICK next : next = <<>> OBVIOUS
  <1>8. next \in Seq(ClientItem) /\ Items(next) = {} BY <1>7, ItemsZero
  <1>9. QED BY <1>1, <1>2, <1>6, <1>7, <1>8, CollectOK

\* The levels that a step through the children of a node shows.
RangeLevels(d) == {l \in Level : children[d.node][l] # None /\ ~(d.node = Root /\ d.all /\ l \in System \cup {""})}

Ranges(c, d, q) ==
  /\ Collect(c, "children", q)
  /\ \A e \in Items(q) : \E l \in RangeLevels(d) : e = Child(d.node, l, d.all)
  /\ \A l \in RangeLevels(d) : Child(d.node, l, d.all) \in Items(q)

LEMMA RangeIs ==
  ASSUME IInv, NEW c \in Client, ClientOK(c), RangeChildren(c), NEW d, d = Head(todo[c])
  PROVE  /\ pc[c] = "collect" /\ d.step = "children" /\ found' = found
         /\ \E q \in Seq(ClientItem) : Ranges(c, d, q)
  <1>1. PICK L : L = RangeLevels(d) OBVIOUS
  <1>2. /\ pc[c] = "collect" /\ found' = found
        /\ \E s \in Seqs!SetToSeqs(L) : Collect(c, "children", [i \in DOMAIN s |-> Child(d.node, s[i], d.all)])
    <2>1. L = {l \in Level : children[d.node][l] # None} \ (IF d.node = Root /\ d.all THEN System \cup {""} ELSE {})
      <3>1. PICK X : X = System \cup {""} OBVIOUS
      <3>2. L = {l \in Level : children[d.node][l] # None /\ ~(d.node = Root /\ d.all /\ l \in X)}
        BY <1>1, <3>1, Zenon DEF RangeLevels
      <3>3. L = {l \in Level : children[d.node][l] # None} \ (IF d.node = Root /\ d.all THEN X ELSE {}) BY <3>2
      <3>4. QED BY <3>1, <3>3, Zenon
    <2>2. QED BY <2>1, Zenon DEF RangeChildren
  <1>3. PICK s \in Seqs!SetToSeqs(L) : Collect(c, "children", [i \in DOMAIN s |-> Child(d.node, s[i], d.all)]) BY <1>2
  <1>4. d.step = "children" BY <1>3 DEF Collect
  <1>5. d.node \in Node /\ d.all \in BOOLEAN BY <1>2, HeadOn
  <1>6. L \subseteq Level /\ IsFiniteSet(L)
    <2>1. PICK T : T = {l \in Level : children[d.node][l] # None} OBVIOUS
    <2>2. IsFiniteSet(T) BY <1>5, <2>1, LevelsKids
    <2>3. L \subseteq T BY <1>1, <2>1, Zenon DEF RangeLevels
    <2>4. QED BY <2>1, <2>2, <2>3, FS_Subset
  <1>7. s \in Seq(L) /\ DOMAIN s = 1 .. Len(s) /\ Items(s) = L BY <1>6, OrderedLevels
  <1>8. PICK q : q = [i \in DOMAIN s |-> Child(d.node, s[i], d.all)] OBVIOUS
  <1>9. Len(s) \in Nat /\ \A i \in DOMAIN s : s[i] \in L BY <1>7, LenProperties, ElementOfSeq
  <1>10. \A i \in DOMAIN s : Child(d.node, s[i], d.all) \in ClientItem BY <1>5, <1>6, <1>9, ChildItem
  <1>11. q \in Seq(ClientItem)
    <2>1. q \in [1 .. Len(s) -> ClientItem] BY <1>7, <1>8, <1>10
    <2>2. QED BY <1>9, <2>1, SeqDef
  <1>12. Items(q) = {Child(d.node, l, d.all) : l \in L} BY <1>7, <1>8 DEF Items
  <1>13. \A e \in Items(q) : \E l \in RangeLevels(d) : e = Child(d.node, l, d.all) BY <1>1, <1>12, Zenon
  <1>14. \A l \in RangeLevels(d) : Child(d.node, l, d.all) \in Items(q) BY <1>1, <1>12, Zenon
  <1>15. Collect(c, "children", q) BY <1>3, <1>8
  <1>16. Ranges(c, d, q) BY <1>13, <1>14, <1>15, Zenon DEF Ranges
  <1>17. QED BY <1>2, <1>4, <1>11, <1>16

LEMMA RangeChildrenOK ==
  ASSUME IInv, HeldOK, SearchTypes, NEW c \in Client, ClientOK(c), RangeChildren(c)
  PROVE  ClientOK(c)'
  <1>1. PICK d, f, p : d = Head(todo[c]) /\ f = want[c] /\ p = path[d.node] OBVIOUS
  <1>2. PICK L : L = RangeLevels(d) OBVIOUS
  <1>3. pc[c] = "collect" /\ d.step = "children" /\ found' = found BY <1>1, RangeIs
  <1>4. PICK q \in Seq(ClientItem) : Ranges(c, d, q) BY <1>1, RangeIs
  <1>5. /\ d.node \in 0 .. nodes /\ d.node \in Node /\ d.all \in BOOLEAN /\ OnFilter(d, f) /\ f \in Filter
        /\ p \in Seq(Level) /\ f \in Seq(Level) /\ MWC # SWC
    <2>1. d.node \in 0 .. nodes /\ d.node \in Node /\ d.all \in BOOLEAN /\ OnFilter(d, f) /\ f \in Filter
      BY <1>1, <1>3, HeadOn
    <2>2. MWC # SWC BY DEF MWC, SWC
    <2>3. QED BY <1>1, <2>1, <2>2, PathsIn, FilterFacts
  <1>6. L \subseteq Level BY <1>2, Zenon DEF RangeLevels
  <1>7. ASSUME NEW l \in L PROVE OnFilter(Child(d.node, l, d.all), f)
    <2>1. CASE d.all
      <3>1. ASSUME NEW t \in Topic, Under(Append(p, l), t) PROVE Matches(f, t)
        <4>1. t \in Seq(Level) BY TopicFacts
        <4>2. Under(p, t) /\ Len(p) < Len(t) /\ t[Len(p) + 1] = l BY <1>5, <1>6, <3>1, <4>1, UnderFront
        <4>3. Shown(d.node, TRUE, t)
          <5>1. CASE d.node = Root
            <6>1. Len(p) + 1 = 1 /\ t[1] = l
              <7>1. p = <<>> BY <1>1, <5>1, PathsIn
              <7>2. QED BY <4>2, <7>1
            <6>2. l \notin System \cup {""} BY <1>2, <2>1, <5>1, Zenon DEF RangeLevels
            <6>3. QED BY <6>1, <6>2, Zenon DEF Shown
          <5>2. CASE d.node # Root BY <5>2, Zenon DEF Shown
          <5>3. QED BY <5>1, <5>2
        <4>4. Ahead(d, t) BY <1>1, <1>3, <2>1, <4>2, <4>3 DEF Ahead
        <4>5. QED BY <1>5, <2>1, <4>4 DEF OnFilter
      <3>2. OnFilter(Child(d.node, l, TRUE), f) BY <1>1, <1>5, <1>6, <3>1, ItemsOnFilter
      <3>3. d.all = TRUE BY <1>5, <2>1
      <3>4. QED BY <3>2, <3>3
    <2>2. CASE ~d.all
      <3>1. Along(p, f) /\ Len(p) < Len(f) /\ f[Len(p) + 1] = SWC BY <1>1, <1>3, <1>5, <2>2 DEF OnFilter
      <3>2. Along(Append(p, l), f) BY <1>5, <1>6, <3>1, AlongAppend
      <3>3. OnFilter(Child(d.node, l, FALSE), f) BY <1>1, <1>5, <1>6, <3>2, ItemsOnFilter
      <3>4. d.all = FALSE BY <1>5, <2>2
      <3>5. QED BY <3>3, <3>4
    <2>3. QED BY <2>1, <2>2
  <1>8. Collect(c, "children", q) /\ \A e \in Items(q) : \E l \in L : e = Child(d.node, l, d.all)
    BY <1>2, <1>4, Zenon DEF Ranges
  <1>9. \A e \in Items(q) : OnFilter(e, f) BY <1>7, <1>8, Zenon
  <1>10. \A e \in Items(q) : e.node = d.node BY <1>8 DEF Child, ToDo
  <1>11. \A S \in SUBSET Node : Closed(S) /\ d.node \in S => \A e \in Items(q) : e.node \in S BY <1>10
  <1>12. found'[c] \subseteq may[c] BY <1>3 DEF ClientOK
  <1>13. QED BY <1>1, <1>4, <1>8, <1>9, <1>11, <1>12, CollectOK

\* What a client's search is like after a step that is not its own.
LEMMA ClientElse ==
  ASSUME IInv, HeldOK, TreeMoves, NodesMove, NEW c \in Client, ClientOK(c), Rests(c), pc'[c] = pc[c],
         want'[c] = want[c], want'[Retainer] \in {want[Retainer], <<>>}
  PROVE  ClientOK(c)'
  <1>1. <<>> \notin Topic BY TopicTreeAssumption DEF TopicTreeAssumption
  <1>2. todo[c] # <<>> => (want'[Retainer] \in Topic /\ Matches(want[c], want'[Retainer]) => want'[Retainer] \in may'[c])
    <2>1. CASE want'[Retainer] = want[Retainer] BY <2>1 DEF ClientOK, Rests
    <2>2. CASE want'[Retainer] = <<>> BY <1>1, <2>2
    <2>3. QED BY <2>1, <2>2
  <1>3. QED BY <1>2, ClientRests

LEMMA StepPc ==
  ASSUME IInv, NEW c \in Client, Insert(c) \/ Remove(c)
  PROVE  /\ pc[c] \notin {"collect", "answer"}
         /\ \/ pc'[c] # "collect"
            \/ pc[c] \in {"leaf", "release"} /\ BeginSearch(c) /\ UNCHANGED <<treeVars, retained, want, found>>
  <1>1. c \in Walker /\ pc = [w \in Walker |-> pc[w]] BY Apartness DEF IInv, Types, WalkTypes
  <1>2. CASE Insert(c)
    <2>1. CASE StoreSub(c) BY <1>1, <2>1 DEF StoreSub, Goto
    <2>2. CASE ReleaseLeaf(c) BY <1>1, <2>2 DEF ReleaseLeaf, Goto
    <2>3. CASE ~StoreSub(c) /\ ~ReleaseLeaf(c)
      BY <1>1, <1>2, <2>3 DEF Insert, Raise, LoadChild, StoreChild, Count, Lower, CheckRemove, BackOff, WaitDeleted, Enter,
                    StoreRetained, Goto
    <2>4. QED BY <2>1, <2>2, <2>3
  <1>3. CASE Remove(c)
    BY <1>1, <1>3 DEF Remove, Seek, LoadSub, Uncount, DeleteSub, ClearRetained, LooksEmpty, Look, Up, HoldDeleted, Mark,
           StillEmpty, Cut, LetGo, Again, Goto
  <1>4. QED BY <1>2, <1>3

LEMMA AnswerOK ==
  ASSUME IInv, SearchTypes, NEW c \in Client, ClientOK(c), Answer(c)
  PROVE  ClientOK(c)'
  <1>1. c \in Walker /\ c \in Searcher BY Apartness
  <1>2. pc[c] = "answer" /\ pc'[c] = "idle" /\ todo' = todo BY <1>1 DEF Answer, Goto, IInv, Types, WalkTypes
  <1>3. found'[c] = {} /\ due'[c] = {} BY <1>1 DEF Answer, Forget
  <1>4. todo'[c] = <<>> /\ todo'[c] \in Seq(ClientItem) BY <1>2 DEF ClientOK
  <1>5. ClientItem' = ClientItem BY DEF ClientItem, Node
  <1>6. QED BY <1>2, <1>3, <1>4, <1>5 DEF ClientOK

LEMMA RequestClient ==
  ASSUME IInv, HeldOK, TreeMoves, NodesMove, NEW c \in Client, ClientOK(c), Rests(c),
         NEW d \in Client, NEW o, NEW f, NEW first \in {"raise", "seek"}, Request(d, o, f, first)
  PROVE  ClientOK(c)'
  <1>1. c \in Walker /\ d \in Walker /\ d # Retainer BY Apartness
  <1>2. /\ pc[d] = "idle" /\ pc' = [pc EXCEPT ![d] = first] /\ want' = [want EXCEPT ![d] = f]
    BY DEF Request, Goto
  <1>3. want'[Retainer] = want[Retainer] BY <1>1, <1>2 DEF IInv, Types, WalkTypes, Walker
  <1>4. CASE d = c
    <2>1. pc'[c] = first BY <1>1, <1>2, <1>4 DEF IInv, Types, WalkTypes
    <2>2. todo[c] = <<>> BY <1>2, <1>4 DEF ClientOK
    <2>3. QED BY <1>2, <1>4, <2>1, <2>2, ClientRests
  <1>5. CASE d # c
    <2>1. pc'[c] = pc[c] /\ want'[c] = want[c] BY <1>1, <1>2, <1>5 DEF IInv, Types, WalkTypes
    <2>2. QED BY <1>3, <2>1, ClientElse
  <1>6. QED BY <1>4, <1>5

LEMMA RetainClient ==
  ASSUME IInv, HeldOK, TreeMoves, NodesMove, NEW c \in Client, ClientOK(c), Rests(c),
         NEW t \in Topic, NEW o, NEW m, Retain(t, o, m)
  PROVE  ClientOK(c)'
  <1>1. c \in Walker /\ c # Retainer /\ c \in Searcher BY Apartness
  <1>2. PICK first : first = IF o = "store" THEN "raise" ELSE "seek" OBVIOUS
  <1>3. Request(Retainer, o, t, first) BY <1>2 DEF Retain
  <1>4. pc' = [pc EXCEPT ![Retainer] = first] /\ want' = [want EXCEPT ![Retainer] = t]
    BY <1>3 DEF Request, Goto
  <1>5. pc'[c] = pc[c] /\ want'[c] = want[c] /\ want'[Retainer] = t
    BY <1>1, <1>4 DEF IInv, Types, WalkTypes, Walker
  <1>6. PICK who : who = {b \in Client : pc[b] = "collect" /\ Matches(want[b], t)} OBVIOUS
  <1>7. may' = With(who, t) BY <1>6 DEF Retain
  <1>8. ASSUME todo[c] # <<>>, Matches(want[c], t) PROVE t \in may'[c]
    <2>1. pc[c] = "collect" BY <1>8 DEF ClientOK
    <2>2. c \in Searching BY <1>1, <1>8 DEF Searching
    <2>3. c \in who BY <1>6, <1>8, <2>1
    <2>4. QED BY <1>1, <1>7, <2>2, <2>3 DEF With
  <1>9. QED BY <1>5, <1>8, ClientRests

LEMMA NextClient ==
  ASSUME IInv, HeldOK, NotedOK, SearchTypes, Plain, [Next]_vars, NEW c \in Client, ClientOK(c)
  PROVE  ClientOK(c)'
  <1>1. TreeMoves /\ NodesMove BY NextMoves
  <1>2. c \in Searcher /\ c \in Walker /\ c # Retainer BY Apartness
  <1>3. ASSUME Rests(c), pc'[c] = pc[c], want'[c] = want[c], want'[Retainer] \in {want[Retainer], <<>>}
        PROVE  ClientOK(c)'
    BY <1>1, <1>3, ClientElse
  <1>4. ASSUME NEW w \in Walker, Walk(w), w # c PROVE ClientOK(c)'
    <2>1. Rests(c) BY <1>2, <1>4, WalkSearches
    <2>2. CASE Answer(w)
      <3>1. pc' = [pc EXCEPT ![w] = "idle"] /\ want' = [want EXCEPT ![w] = <<>>] BY <2>2 DEF Answer, Goto
      <3>2. pc'[c] = pc[c] /\ want'[c] = want[c] /\ want'[Retainer] \in {want[Retainer], <<>>}
        BY <1>2, <1>4, <3>1 DEF IInv, Types, WalkTypes, Walker
      <3>3. QED BY <1>3, <2>1, <3>2
    <2>3. CASE Works(w) BY <1>2, <1>3, <1>4, <2>1, <2>3 DEF Works, OthersStay
    <2>4. QED BY <1>4, <2>2, <2>3, InsertMoves, RemoveMoves DEF Walk
  <1>5. ASSUME Walk(c) PROVE ClientOK(c)'
    <2>1. CASE Answer(c) BY <2>1, AnswerOK
    <2>2. CASE Insert(c) \/ Remove(c)
      <3>1. want' = want BY <1>2, <2>2, InsertMoves, RemoveMoves DEF Works
      <3>2. CASE pc[c] \in {"leaf", "release"} /\ BeginSearch(c) /\ UNCHANGED <<treeVars, retained, want, found>>
        BY <3>2, BeginSearchOK
      <3>3. CASE ~(pc[c] \in {"leaf", "release"} /\ BeginSearch(c) /\ UNCHANGED <<treeVars, retained, want, found>>)
        <4>1. pc[c] \notin {"collect", "answer"} /\ pc'[c] # "collect" BY <2>2, <3>3, StepPc
        <4>2. todo[c] = <<>> BY <4>1 DEF ClientOK
        <4>3. Rests(c)
          <5>1. ~Answer(c) BY <4>1 DEF Answer
          <5>2. ~(pc[c] \in {"leaf", "release"} /\ BeginSearch(c))
            <6>1. ASSUME BeginSearch(c) PROVE pc'[c] = "collect"
              BY <1>2, <6>1 DEF BeginSearch, Goto, IInv, Types, WalkTypes
            <6>2. QED BY <4>1, <6>1
          <5>3. QED BY <1>2, <1>5, <5>1, <5>2, WalkSearches
        <4>4. QED BY <1>1, <4>1, <4>2, <4>3, ClientRests
      <3>4. QED BY <3>2, <3>3
    <2>3. QED BY <1>5, <2>1, <2>2 DEF Walk
  <1>6. ASSUME NEW d \in Client, SearchRetained(d) PROVE ClientOK(c)'
    <2>1. CASE d = c BY <1>6, <2>1, LoadKidOK, LoadRetainedOK, RangeChildrenOK DEF SearchRetained
    <2>2. CASE d # c
      <3>1. Rests(c) BY <1>2, <1>6, <2>2, CollectSearches
      <3>2. pc'[c] = pc[c] BY <1>2, <1>6, <2>2, CollectStays DEF OthersStay
      <3>3. want' = want BY <1>6, CollectMoves
      <3>4. QED BY <1>3, <3>1, <3>2, <3>3
    <2>3. QED BY <2>1, <2>2
  <1>7. ASSUME NEW p \in Publisher, Search(p) PROVE ClientOK(c)'
    <2>1. Rests(c) BY <1>2, <1>7, Apartness, SearchSearches
    <2>2. pc' = pc /\ want' = want BY <1>7, Zenon DEF Search, LoadLevel, TakeSubscribers, Deliver, walkVars
    <2>3. QED BY <1>3, <2>1, <2>2
  <1>8. ASSUME Environment PROVE ClientOK(c)'
    <2>1. Rests(c) BY <1>8, EnvironmentSearches
    <2>2. ASSUME NEW d \in Client, NEW f \in Filter, Subscribe(d, f) PROVE ClientOK(c)'
      <3>1. Request(d, "subscribe", f, "raise") BY <2>2 DEF Subscribe
      <3>2. QED BY <1>1, <2>1, <3>1, RequestClient
    <2>3. ASSUME NEW d \in Client, NEW f \in Filter, UnSubscribe(d, f) PROVE ClientOK(c)'
      <3>1. Request(d, "unsubscribe", f, "seek") BY <2>3 DEF UnSubscribe
      <3>2. QED BY <1>1, <2>1, <3>1, RequestClient
    <2>4. ASSUME NEW t \in Topic, NEW o, NEW m, Retain(t, o, m) PROVE ClientOK(c)' BY <1>1, <2>1, <2>4, RetainClient
    <2>5. ASSUME NEW p \in Publisher, NEW t \in Topic, Publish(p, t) PROVE ClientOK(c)'
      <3>1. pc' = pc /\ want' = want BY <2>5 DEF Publish, walkVars
      <3>2. QED BY <1>3, <2>1, <3>1
    <2>6. QED BY <1>8, <2>2, <2>3, <2>4, <2>5 DEF Environment
  <1>9. CASE UNCHANGED vars
    <2>1. Rests(c) /\ pc' = pc /\ want' = want BY <1>9 DEF vars, searchVars, walkVars, Rests
    <2>2. QED BY <1>3, <2>1
  <1>10. CASE Next
    BY <1>4, <1>5, <1>6, <1>7, <1>8, <1>9, <1>10, Zenon DEF Next, Quiet
  <1>11. QED BY <1>9, <1>10
-----------------------------------------------------------------------------
(* What must be found is found, as long as no insertion and removal overlap *)

\* What is still to do leads to the node of f.
LeadsTo(e, f) ==
  Linked(e.node) /\ IF e.level = None THEN path[e.node] = f ELSE Under(Append(path[e.node], e.level), f)

\* What a publish must find it has found, or it is on the way to it.
DueOK(p) ==
  \A x \in due[p] :
    /\ x \in Settled /\ Matches(x[2], topic[p])
    /\ x \in found[p] \/ \E e \in Items(todo[p]) : LeadsTo(e, x[2])

\* The same of the search for retained messages.
RetainedDueOK(c) ==
  \A t \in due[c] :
    /\ t \in Topic /\ Matches(want[c], t) /\ kept[t] # None /\ want[Retainer] # t
    /\ t \in found[c] \/ \E e \in Items(todo[c]) : Linked(e.node) /\ Ahead(e, t)

Ancestors ==
  IInv /\ LinkOK =>
    \A m \in 0 .. nodes : Linked(m) =>
      \A i \in 0 .. Len(path[m]) : \E a \in 0 .. nodes : Linked(a) /\ Len(path[a]) = i /\ Under(path[a], path[m])

LEMMA AncestorsHold == Ancestors
  BY Ancestor DEF Ancestors

LEMMA AncestorsNext == Ancestors'
  BY AncestorsHold, PTL

\* What is on the way to a node that stays linked stays linked itself.
LEMMA LinkStays ==
  ASSUME IInv, IInv', LinkOK, LinkOK', TreeMoves, NEW n \in 0 .. nodes, Linked(n),
         NEW f \in Seq(Level), Under(path[n], f), NEW m \in (0 .. nodes)', Linked(m)', path'[m] = f
  PROVE  Linked(n)'
  <1>1. /\ nodes \in Nat /\ 0 .. nodes \subseteq Node /\ None \notin Node /\ path \in [Node -> Seq(Level)]
        /\ nodes' \in Nat /\ (0 .. nodes)' \subseteq Node /\ path' \in [Node -> Seq(Level)]
    <2>1. nodes \in Nat /\ 0 .. nodes \subseteq Node /\ None \notin Node /\ path \in [Node -> Seq(Level)]
      BY NodeFacts DEF IInv, Types, TreeTypes
    <2>2. nodes' \in Node /\ path' \in [Node -> Seq(Level)]
      <3>1. TreeTypes' BY DEF IInv, Types
      <3>2. QED BY <3>1 DEF TreeTypes, Node, Level
    <2>3. nodes' \in Nat /\ 0 .. nodes' \subseteq Node
      <3>1. MaxNodes \in Nat BY TopicTreeAssumption DEF TopicTreeAssumption
      <3>2. QED BY <2>2, <3>1 DEF Node, Root
    <2>4. QED BY <2>1, <2>2, <2>3
  <1>2. CASE n = Root BY <1>2 DEF Linked
  <1>3. CASE n # Root /\ TreeGrows
    <2>1. PICK a, l : a = parent[n] /\ l = path[n][Len(path[n])] OBVIOUS
    <2>2. n \in Created BY <1>3, NodeFacts DEF IInv, Types
    <2>3. a \in Node /\ l \in Level BY <2>1, <2>2, ParentOf
    <2>4. children[a][l] = n /\ n \in Node BY <1>1, <1>3, <2>1 DEF Linked, Slot
    <2>5. children'[a][l] = n BY <1>1, <1>3, <2>3, <2>4 DEF TreeGrows
    <2>6. path'[n] = path[n] /\ parent'[n] = parent[n] BY <1>3 DEF TreeGrows
    <2>7. QED BY <2>1, <2>5, <2>6 DEF Linked, Slot
  <1>4. CASE TreeShrinks
    <2>1. UNCHANGED <<parent, path, nodes>> BY <1>4 DEF TreeShrinks
    <2>2. PICK i : i = Len(path[n]) OBVIOUS
    <2>3. i \in 0 .. Len(f) BY <1>1, <2>2, LenProperties DEF Under
    <2>4. PICK a \in 0 .. nodes : Linked(a)' /\ Len(path[a]) = i /\ Under(path[a], f)
      BY <2>1, <2>3, AncestorsNext DEF Ancestors
    <2>5. path[a] = path[n] BY <1>1, <2>2, <2>4, UnderSame
    <2>6. Linked(a)
      <3>1. CASE a = Root BY <3>1 DEF Linked
      <3>2. CASE a # Root
        <4>1. a \in Created BY <3>2, NodeFacts DEF IInv, Types
        <4>2. PICK b, l : b = parent[a] /\ l = path[a][Len(path[a])] OBVIOUS
        <4>3. b \in Node /\ l \in Level BY <4>1, <4>2, ParentOf
        <4>4. children'[b][l] = a BY <2>1, <2>4, <3>2, <4>2 DEF Linked, Slot
        <4>5. children[b][l] = a
          <5>1. a # None BY <1>1
          <5>2. children'[b][l] = children[b][l] \/ children'[b][l] = None BY <1>4, <4>3 DEF TreeShrinks
          <5>3. QED BY <4>4, <5>1, <5>2
        <4>6. QED BY <4>2, <4>5 DEF Linked, Slot
      <3>3. QED BY <3>1, <3>2
    <2>7. a = n BY <2>5, <2>6 DEF LinkOK
    <2>8. QED BY <2>4, <2>7
  <1>5. QED BY <1>2, <1>3, <1>4 DEF TreeMoves

\* What a client is told it has it has until it unsubscribes.
LEMMA SettledKept ==
  ASSUME IInv, [Next]_vars, NEW x \in Settled
  PROVE  x \in Settled' \/ \E c \in Client, f \in Filter : x = <<c, f>> /\ UnSubscribe(c, f)
  <1>1. PICK c, f : c = x[1] /\ f = x[2] OBVIOUS
  <1>2. /\ c \in Client /\ f \in Filter /\ x = <<c, f>> /\ f \in held[c] /\ ~(op[c] = "unsubscribe" /\ want[c] = f)
        /\ c \in Walker /\ c # Retainer
    BY <1>1, Apartness DEF Settled
  <1>3. ASSUME f \in held'[c], op'[c] = "unsubscribe" => op[c] = "unsubscribe" /\ want'[c] = want[c]
        PROVE  x \in Settled'
    BY <1>1, <1>2, <1>3 DEF Settled
  <1>4. ASSUME NEW w \in Walker, Walk(w) PROVE x \in Settled'
    <2>1. CASE Insert(w) \/ Remove(w)
      <3>1. Works(w) /\ (op' = op \/ op[w] = "replace") BY <2>1, InsertMoves, RemoveMoves
      <3>2. held' = held /\ want' = want BY <3>1 DEF Works
      <3>3. op'[c] = op[c]
        <4>1. op[w] = "replace" => w # c BY <1>2 DEF IInv, WalkOK, RequestOK
        <4>2. QED BY <1>2, <3>1, <4>1 DEF Works, OthersStay
      <3>4. QED BY <1>2, <1>3, <3>2, <3>3
    <2>2. CASE Answer(w)
      <3>1. /\ op' = [op EXCEPT ![w] = "none"] /\ want' = [want EXCEPT ![w] = <<>>]
            /\ held' = CASE op[w] = "subscribe"   -> [held EXCEPT ![w] = @ \cup {want[w]}]
                         [] op[w] = "unsubscribe" -> [held EXCEPT ![w] = @ \ {want[w]}]
                         [] OTHER                 -> held
        BY <2>2 DEF Answer
      <3>2. held \in [Client -> SUBSET Filter] /\ op \in [Walker -> Ops] /\ want = [v \in Walker |-> want[v]]
        BY DEF IInv, Types, NoteTypes, WalkTypes
      <3>3. op'[c] = "unsubscribe" => op[c] = "unsubscribe" /\ want'[c] = want[c]
        <4>1. CASE w = c BY <1>2, <3>1, <3>2, <4>1
        <4>2. CASE w # c BY <1>2, <3>1, <3>2, <4>2
        <4>3. QED BY <4>1, <4>2
      <3>4. f \in held'[c]
        <4>1. CASE op[w] = "subscribe" BY <1>2, <3>1, <3>2, <4>1
        <4>2. CASE op[w] = "unsubscribe" BY <1>2, <3>1, <3>2, <4>2
        <4>3. CASE op[w] \notin {"subscribe", "unsubscribe"} BY <1>2, <3>1, <4>3
        <4>4. QED BY <4>1, <4>2, <4>3
      <3>5. QED BY <1>3, <3>3, <3>4
    <2>3. QED BY <1>4, <2>1, <2>2 DEF Walk
  <1>5. CASE UNCHANGED <<held, op, want>> BY <1>2, <1>3, <1>5
  <1>6. ASSUME NEW d \in Client, SearchRetained(d) PROVE x \in Settled'
    <2>1. held' = held /\ op' = op /\ want' = want BY <1>6, CollectMoves DEF clientVars
    <2>2. QED BY <1>2, <1>3, <2>1
  <1>7. ASSUME NEW p \in Publisher, Search(p) PROVE UNCHANGED <<held, op, want>>
    BY <1>7, Zenon DEF Search, LoadLevel, TakeSubscribers, Deliver, walkVars, clientVars
  <1>8. ASSUME NEW w \in Walker, NEW o, NEW g, NEW first, Request(w, o, g, first), held' = held,
               w = c => o # "unsubscribe"
        PROVE  x \in Settled'
    <2>1. op' = [op EXCEPT ![w] = o] /\ want' = [want EXCEPT ![w] = g] BY <1>8 DEF Request
    <2>2. op'[c] = "unsubscribe" => op[c] = "unsubscribe" /\ want'[c] = want[c]
      BY <1>2, <1>8, <2>1 DEF IInv, Types, WalkTypes
    <2>3. QED BY <1>2, <1>3, <1>8, <2>2
  <1>9. ASSUME Environment, ~\E b \in Client, g \in Filter : x = <<b, g>> /\ UnSubscribe(b, g) PROVE x \in Settled'
    <2>1. ASSUME NEW d \in Client, NEW g \in Filter, Subscribe(d, g) PROVE x \in Settled'
      BY <1>8, <2>1, Apartness DEF Subscribe
    <2>2. ASSUME NEW d \in Client, NEW g \in Filter, UnSubscribe(d, g) PROVE x \in Settled'
      <3>1. Request(d, "unsubscribe", g, "seek") /\ held' = held BY <2>2 DEF UnSubscribe
      <3>2. CASE d # c BY <1>8, <3>1, <3>2, Apartness
      <3>3. CASE d = c
        <4>1. g # f BY <1>2, <1>9, <2>2, <3>3
        <4>2. want' = [want EXCEPT ![c] = g] BY <3>1, <3>3 DEF Request
        <4>3. want'[c] = g BY <1>2, <4>2 DEF IInv, Types, WalkTypes
        <4>4. QED BY <1>1, <1>2, <3>1, <4>1, <4>3 DEF Settled
      <3>4. QED BY <3>2, <3>3
    <2>3. ASSUME NEW t \in Topic, NEW o, NEW m, Retain(t, o, m) PROVE x \in Settled'
      <3>1. PICK first : first = IF o = "store" THEN "raise" ELSE "seek" OBVIOUS
      <3>2. Request(Retainer, o, t, first) /\ held' = held BY <2>3, <3>1 DEF Retain
      <3>3. QED BY <1>2, <1>8, <3>2, Apartness
    <2>4. ASSUME NEW p \in Publisher, NEW t \in Topic, Publish(p, t) PROVE x \in Settled'
      <3>1. held' = held /\ op' = op /\ want' = want BY <2>4 DEF Publish, walkVars
      <3>2. QED BY <1>2, <1>3, <3>1
    <2>5. QED BY <1>9, <2>1, <2>2, <2>3, <2>4 DEF Environment
  <1>10. CASE UNCHANGED vars BY <1>5, <1>10 DEF vars, walkVars, clientVars
  <1>11. ASSUME Next, ~\E b \in Client, g \in Filter : x = <<b, g>> /\ UnSubscribe(b, g) PROVE x \in Settled'
    BY <1>4, <1>5, <1>6, <1>7, <1>9, <1>10, <1>11, Zenon DEF Next, Quiet
  <1>12. QED BY <1>10, <1>11

LEMMA ItemsIn ==
  ASSUME NEW S, NEW q \in Seq(S), NEW e \in Items(q)
  PROVE  e \in S /\ q # <<>>
  <1>1. DOMAIN q = 1 .. Len(q) /\ \A i \in 1 .. Len(q) : q[i] \in S BY LenProperties, ElementOfSeq
  <1>2. e \in S BY <1>1 DEF Items
  <1>3. q # <<>> BY ItemsNone
  <1>4. QED BY <1>2, <1>3

\* What may be found at a node, on the way to the node of a filter that matches.
LEMMA VisitLeads ==
  ASSUME IInv, Plain, NEW n \in 0 .. nodes, Linked(n), NEW t \in Topic, Fits(path[n], t),
         NEW f \in Filter, Matches(f, t), Under(path[n], f), t[1] \in System => path[n] # <<>>
  PROVE  \E e \in Items(Visit(n, t)) : LeadsTo(e, f)
  <1>1. PICK q, k : q = path[n] /\ k = Len(q) OBVIOUS
  <1>2. /\ n \in Node /\ q \in Seq(Level) /\ k \in Nat /\ f \in Seq(Level) /\ t \in Seq(Level)
        /\ Len(f) \in Nat \ {0} /\ Len(t) \in Nat \ {0} /\ MWC \in Level /\ SWC \in Level /\ None \notin Level
        /\ MWC # SWC /\ k <= Len(t) /\ k <= Len(f)
    <2>1. n \in Node BY NodeFacts DEF IInv, Types
    <2>2. q \in Seq(Level) BY <1>1, <2>1, PathsIn
    <2>3. k <= Len(t) /\ k <= Len(f) BY <1>1 DEF Fits, Under
    <2>4. k \in Nat BY <1>1, <2>2, LenProperties
    <2>5. QED BY <2>1, <2>2, <2>3, <2>4, FilterFacts, TopicFacts
  <1>3. \A i \in 1 .. k : f[i] = q[i] /\ f[i] # MWC
    <2>1. \A i \in 1 .. k : q[i] = SWC \/ q[i] = t[i] BY <1>1 DEF Fits
    <2>2. \A i \in 1 .. k : f[i] = q[i] BY <1>1 DEF Under
    <2>3. \A i \in 1 .. Len(t) : t[i] # MWC BY TopicFacts
    <2>4. QED BY <1>2, <2>1, <2>2, <2>3
  <1>4. /\ f[Len(f)] # MWC => Len(t) = Len(f) /\ \A i \in 1 .. Len(f) : f[i] = SWC \/ f[i] = t[i]
        /\ f[Len(f)] = MWC => Len(t) >= Len(f) - 1 /\ \A i \in 1 .. Len(f) - 1 : f[i] = SWC \/ f[i] = t[i]
        /\ \A i \in 1 .. Len(f) - 1 : f[i] # MWC
    <2>1. \A i \in 1 .. Len(f) - 1 : f[i] # MWC BY Zenon DEF Plain
    <2>2. QED BY <2>1 DEF Matches
  <1>5. k = Len(f) => Len(t) = Len(f) /\ q = f
    <2>1. k = Len(f) => f[Len(f)] # MWC BY <1>2, <1>3
    <2>2. k = Len(f) => q = f BY <1>1, <1>2, UnderAll
    <2>3. QED BY <1>4, <2>1, <2>2
  <1>6. \A l \in Level \cup {None} : At(n, l) \in PubItem /\ At(n, l).node = n /\ At(n, l).level = l
    BY <1>2 DEF At, PubItem
  <1>7. ASSUME k < Len(f), NEW l \in Level, l = f[k + 1] PROVE LeadsTo(At(n, l), f)
    <2>1. Under(Append(q, l), f) BY <1>1, <1>2, <1>7, UnderAppend
    <2>2. PICK e : e = At(n, l) OBVIOUS
    <2>3. e.node = n /\ e.level = l /\ l # None BY <1>2, <1>6, <2>2
    <2>4. LeadsTo(e, f) BY <1>1, <2>1, <2>3 DEF LeadsTo
    <2>5. QED BY <2>2, <2>4
  <1>8. k < Len(f) => f[k + 1] \in Level
    <2>1. k < Len(f) => k + 1 \in 1 .. Len(f) BY <1>2
    <2>2. QED BY <2>1, FilterFacts
  <1>9. CASE k = Len(t)
    <2>1. Visit(n, t) = <<At(n, None), At(n, MWC)>> BY <1>1, <1>9 DEF Visit
    <2>2. PICK d, e : d = At(n, None) /\ e = At(n, MWC) OBVIOUS
    <2>3. d \in PubItem /\ e \in PubItem /\ d.node = n /\ d.level = None BY <1>2, <1>6, <2>2
    <2>4. Items(<<d, e>>) = {d, e} BY <2>3, ItemsTwo
    <2>5. Items(Visit(n, t)) = {d, e} BY <2>1, <2>2, <2>4, Zenon
    <2>6. CASE k = Len(f)
      <3>1. LeadsTo(d, f) BY <1>1, <1>5, <2>3, <2>6 DEF LeadsTo
      <3>2. QED BY <2>5, <3>1
    <2>7. CASE k < Len(f)
      <3>1. f[Len(f)] = MWC /\ Len(f) = k + 1 BY <1>2, <1>4, <1>9, <2>7
      <3>2. f[k + 1] = MWC BY <3>1
      <3>3. LeadsTo(e, f) BY <1>2, <1>7, <2>2, <2>7, <3>2
      <3>4. QED BY <2>5, <3>3
    <2>8. QED BY <1>2, <2>6, <2>7
  <1>10. CASE k < Len(t)
    <2>1. PICK l, j : l = t[k + 1] /\ j = f[k + 1] OBVIOUS
    <2>2. k < Len(f) /\ k + 1 \in 1 .. Len(f) /\ k + 1 \in 1 .. Len(t) BY <1>2, <1>5, <1>10
    <2>3. l \in Level /\ l # MWC /\ j \in Level BY <1>8, <2>1, <2>2, TopicFacts
    <2>4. LeadsTo(At(n, j), f) BY <1>7, <2>1, <2>2, <2>3
    <2>5. Visit(n, t) = Further(n, l) \o <<At(n, l), At(n, SWC)>>
      <3>1. Len(path[n]) # Len(t) BY <1>1, <1>2, <1>10
      <3>2. QED BY <1>1, <2>1, <3>1 DEF Visit
    <2>6. PICK d, e, g, h : d = At(n, l) /\ e = At(n, SWC) /\ g = At(n, MWC) /\ h = Further(n, l) OBVIOUS
    <2>7. d \in PubItem /\ e \in PubItem /\ g \in PubItem BY <1>2, <1>6, <2>3, <2>6
    <2>8. <<d, e>> \in Seq(PubItem) /\ Items(<<d, e>>) = {d, e} BY <2>7, ItemsTwo
    <2>9. h \in Seq(PubItem) /\ (l # "" => Items(h) = {g})
      <3>1. (l # "" => h = <<g>>) /\ h \in {<<>>, <<g>>} BY <2>6, Zenon DEF Further
      <3>2. <<g>> \in Seq(PubItem) /\ Items(<<g>>) = {g} /\ <<>> \in Seq(PubItem) BY <2>7, ItemsOne, ItemsZero
      <3>3. QED BY <3>1, <3>2
    <2>10. PICK r : r = <<d, e>> OBVIOUS
    <2>11. Items(h \o r) = Items(h) \cup Items(r)
      <3>1. r \in Seq(PubItem) BY <2>8, <2>10
      <3>2. h \in Seq(PubItem) BY <2>9, Zenon
      <3>3. QED BY <3>1, <3>2, ItemsBoth
    <2>12. Items(Visit(n, t)) = Items(h) \cup {d, e}
      <3>1. Visit(n, t) = h \o r BY <2>5, <2>6, <2>10, Zenon
      <3>2. QED BY <2>8, <2>10, <2>11, <3>1
    <2>13. CASE j = MWC
      <3>1. Len(f) = k + 1
        <4>1. k + 1 \notin 1 .. Len(f) - 1 BY <1>4, <2>1, <2>13
        <4>2. QED BY <1>2, <2>2, <4>1
      <3>2. f[Len(f)] = MWC /\ Len(f) <= Len(t) /\ l = t[Len(f)]
        <4>1. Len(f) <= Len(t) BY <1>2, <1>10, <3>1
        <4>2. QED BY <2>1, <2>13, <3>1, <4>1
      <3>3. l # "" BY <3>2, Zenon DEF Plain
      <3>4. QED BY <2>4, <2>6, <2>9, <2>12, <2>13, <3>3
    <2>14. CASE j # MWC
      <3>1. j = SWC \/ j = l
        <4>1. f[Len(f)] = MWC => k + 1 \in 1 .. Len(f) - 1
          <5>1. f[Len(f)] = MWC => k + 1 # Len(f) BY <2>1, <2>14
          <5>2. QED BY <1>2, <2>2, <5>1
        <4>2. QED BY <1>4, <2>1, <2>2, <4>1
      <3>2. QED BY <2>4, <2>6, <2>12, <3>1
    <2>15. QED BY <2>13, <2>14
  <1>11. QED BY <1>2, <1>9, <1>10

\* What a step of another leaves a publish to find.
LEMMA DueStays ==
  ASSUME IInv, IInv', LinkOK, LinkOK', SubsOK', TreeMoves, NEW p \in Publisher, PublisherOK(p), DueOK(p),
         NEW x, x \in due[p], x \in Settled'
  PROVE  \A e \in Items(todo[p]) : LeadsTo(e, x[2]) => LeadsTo(e, x[2])'
  <1>1. PICK c, f : c = x[1] /\ f = x[2] OBVIOUS
  <1>2. c \in Client /\ f \in Filter /\ f \in Seq(Level) BY <1>1, FilterFacts DEF Settled
  <1>3. PICK m \in (0 .. nodes)' : Linked(m)' /\ path'[m] = f BY <1>1 DEF SubsOK, Stands
  <1>4. ASSUME NEW e \in Items(todo[p]), LeadsTo(e, f) PROVE LeadsTo(e, f)'
    <2>1. todo[p] \in Seq(PubItem) BY DEF PublisherOK
    <2>2. e \in PubItem /\ todo[p] # <<>> BY <1>4, <2>1, ItemsIn
    <2>3. OnTopic(e, topic[p]) BY <1>4, <2>2 DEF PublisherOK
    <2>4. e.node \in 0 .. nodes /\ e.node \in Node /\ e.level \in Level \cup {None} /\ path[e.node] \in Seq(Level)
      BY <2>2, <2>3, PathsIn DEF OnTopic, PubItem
    <2>5. Linked(e.node) BY <1>4 DEF LeadsTo
    <2>6. Under(path[e.node], f)
      <3>1. CASE e.level = None
        <4>1. path[e.node] = f BY <1>4, <3>1 DEF LeadsTo
        <4>2. QED BY <1>2, <4>1, LenProperties DEF Under
      <3>2. CASE e.level # None
        <4>1. Under(Append(path[e.node], e.level), f) BY <1>4, <3>2 DEF LeadsTo
        <4>2. QED BY <1>2, <2>4, <3>2, <4>1, UnderFront
      <3>3. QED BY <3>1, <3>2
    <2>7. Linked(e.node)' BY <1>2, <1>3, <2>4, <2>5, <2>6, LinkStays
    <2>8. path'[e.node] = path[e.node] BY <2>4, MovesKeep
    <2>9. QED BY <1>4, <2>7, <2>8 DEF LeadsTo
  <1>5. QED BY <1>1, <1>4

LEMMA PublishDue ==
  ASSUME IInv, LinkOK, SubsOK, SearchTypes, Plain, NEW p \in Publisher, NEW t \in Topic, Publish(p, t)
  PROVE  DueOK(p)'
  <1>1. PICK q : q = IF t[1] \in System THEN <<At(Root, t[1])>> ELSE Visit(Root, t) OBVIOUS
  <1>2. /\ topic' = [topic EXCEPT ![p] = t] /\ todo' = [todo EXCEPT ![p] = q]
        /\ due' = [due EXCEPT ![p] = IF mixed THEN {} ELSE Matching(Settled, t)]
        /\ held' = held /\ op' = op /\ want' = want /\ UNCHANGED treeVars
    BY <1>1 DEF Publish, walkVars
  <1>3. topic'[p] = t /\ todo'[p] = q /\ due'[p] \subseteq Matching(Settled, t) BY <1>2, Apartness DEF SearchTypes
  <1>4. Settled' = Settled BY <1>2 DEF Settled
  <1>5. /\ Root \in 0 .. nodes /\ Root \in Node /\ path[Root] = <<>> /\ Linked(Root)
        /\ t \in Seq(Level) /\ t[1] \in Level /\ None \notin Level /\ Fits(<<>>, t)
    <2>1. t \in Seq(Level) /\ Len(t) \in Nat \ {0} /\ None \notin Level BY TopicFacts
    <2>2. t[1] \in Level BY <2>1, TopicFacts
    <2>3. Fits(<<>>, t) BY <2>1 DEF Fits
    <2>4. QED BY <2>1, <2>2, <2>3, NodeFacts, PathsIn DEF IInv, Types, Linked
  <1>6. ASSUME NEW f \in Filter, Matches(f, t) PROVE \E e \in Items(q) : LeadsTo(e, f)
    <2>1. f \in Seq(Level) /\ Len(f) \in Nat \ {0} BY FilterFacts
    <2>2. CASE t[1] \in System
      <3>1. PICK e, z, l : e = At(Root, t[1]) /\ z = <<>> /\ l = t[1] OBVIOUS
      <3>2. e \in PubItem /\ e.node = Root /\ e.level = l /\ l # None /\ l \in Level BY <1>5, <3>1 DEF At, PubItem
      <3>3. q = <<e>> /\ Items(<<e>>) = {e} BY <1>1, <2>2, <3>1, <3>2, ItemsOne
      <3>4. z \in Seq(Level) /\ Len(z) = 0 /\ Len(z) + 1 = 1 /\ f[Len(z) + 1] = l
        BY <1>6, <2>2, <3>1 DEF Matches
      <3>5. Under(z, f) /\ Len(z) < Len(f) BY <2>1, <3>4 DEF Under
      <3>6. Under(Append(z, l), f) BY <2>1, <3>4, <3>5, UnderAppend
      <3>7. LeadsTo(e, f) BY <1>5, <3>1, <3>2, <3>6 DEF LeadsTo
      <3>8. QED BY <3>3, <3>7
    <2>3. CASE t[1] \notin System
      <3>1. Under(<<>>, f) BY <2>1, UnderEmpty
      <3>2. q = Visit(Root, t) BY <1>1, <2>3
      <3>3. QED BY <1>5, <1>6, <2>3, <3>1, <3>2, VisitLeads
    <2>4. QED BY <2>2, <2>3
  <1>7. ASSUME NEW x \in due'[p] PROVE x \in Settled' /\ Matches(x[2], t) /\ \E e \in Items(q) : LeadsTo(e, x[2])'
    <2>1. x \in Settled /\ Matches(x[2], t) /\ x[2] \in Filter BY <1>3, <1>7 DEF Matching, Settled
    <2>2. PICK e \in Items(q) : LeadsTo(e, x[2]) BY <1>6, <2>1
    <2>3. LeadsTo(e, x[2])' BY <1>2, <2>2 DEF LeadsTo, Linked, Slot, treeVars
    <2>4. QED BY <1>4, <2>1, <2>2, <2>3
  <1>8. QED BY <1>3, <1>7 DEF DueOK, Items, Matches, LeadsTo

\* A step of the search, with the same tree: what the item it takes leads to is found,
\* or what comes in its place leads there.
LEMMA DueOn ==
  ASSUME NEW p \in Publisher, DueOK(p), UNCHANGED <<treeVars, held, op, want, topic, due>>,
         NEW e, NEW r, Items(todo[p]) = {e} \cup r, r \subseteq Items(todo'[p]), found[p] \subseteq found'[p],
         \A x \in due[p] : LeadsTo(e, x[2]) => x \in found'[p] \/ \E d \in Items(todo'[p]) : LeadsTo(d, x[2])
  PROVE  DueOK(p)'
  <1>1. PICK q : q = todo'[p] OBVIOUS
  <1>2. Settled' = Settled BY DEF Settled
  <1>3. \A d : \A x \in due[p] : LeadsTo(d, x[2])' <=> LeadsTo(d, x[2]) BY DEF LeadsTo, Linked, Slot, treeVars
  <1>4. ASSUME NEW x \in due[p]
        PROVE  x \in Settled' /\ Matches(x[2], topic[p]) /\ (x \in found'[p] \/ \E d \in Items(q) : LeadsTo(d, x[2]))
    <2>1. x \in Settled /\ Matches(x[2], topic[p]) BY DEF DueOK
    <2>2. CASE x \in found[p] BY <1>2, <2>1, <2>2
    <2>3. CASE x \notin found[p]
      <3>1. PICK d \in Items(todo[p]) : LeadsTo(d, x[2]) BY <2>3 DEF DueOK
      <3>2. CASE d = e BY <1>1, <1>2, <2>1, <3>1, <3>2
      <3>3. CASE d \in r BY <1>1, <1>2, <2>1, <3>1, <3>3
      <3>4. QED BY <3>1, <3>2, <3>3
    <2>4. QED BY <2>2, <2>3
  <1>5. ASSUME NEW x \in due'[p]
        PROVE  x \in Settled' /\ Matches(x[2], topic[p])
               /\ (x \in found'[p] \/ \E d \in Items(q) : LeadsTo(d, x[2])')
    BY <1>3, <1>4, <1>5
  <1>6. topic'[p] = topic[p] OBVIOUS
  <1>7. QED BY <1>1, <1>5, <1>6 DEF DueOK, Items, Matches, LeadsTo

LEMMA LoadLevelDue ==
  ASSUME IInv, LinkOK, SubsOK, SearchTypes, Plain, NEW p \in Publisher, PublisherOK(p), DueOK(p), LoadLevel(p)
  PROVE  DueOK(p)'
  <1>1. PICK e, t, k, r : e = Head(todo[p]) /\ t = topic[p] /\ k = children[e.node][e.level] /\ r = Tail(todo[p]) OBVIOUS
  <1>2. PICK h : h = CASE k = None -> <<>>
                       [] k # None /\ e.level = MWC -> <<At(k, None)>>
                       [] OTHER -> Visit(k, t)
    OBVIOUS
  <1>3. /\ todo[p] # <<>> /\ e.level # None /\ todo' = [todo EXCEPT ![p] = h \o r]
        /\ topic' = topic /\ found' = found /\ due' = due
        /\ UNCHANGED <<treeVars, held, op, want>>
    BY <1>1, <1>2, Zenon DEF LoadLevel, First, walkVars, clientVars
  <1>4. todo'[p] = h \o r BY <1>3, Apartness DEF SearchTypes
  <1>5. /\ e \in PubItem /\ r \in Seq(PubItem) /\ Items(todo[p]) = {e} \cup Items(r) /\ t \in Topic
    BY <1>1, <1>3, ItemsFirst DEF PublisherOK
  <1>6. OnTopic(e, t) BY <1>1, <1>3, <1>5 DEF PublisherOK
  <1>7. /\ e.node \in 0 .. nodes /\ e.node \in Node /\ e.level \in Level /\ path[e.node] \in Seq(Level)
        /\ (t[1] \in System => Append(path[e.node], e.level)[1] = t[1])
        /\ (e.level # MWC => Fits(Append(path[e.node], e.level), t))
    <2>1. e.node \in Node /\ e.level \in Level BY <1>3, <1>5 DEF PubItem
    <2>2. QED BY <1>3, <1>6, <2>1, PathsIn DEF OnTopic
  <1>8. ASSUME NEW f \in Filter, Matches(f, t), NEW c \in Client, Stands(c, f), LeadsTo(e, f)
        PROVE  h \in Seq(PubItem) /\ \E d \in Items(h) : LeadsTo(d, f)
    <2>1. Linked(e.node) /\ Under(Append(path[e.node], e.level), f) /\ f \in Seq(Level)
      BY <1>3, <1>8, FilterFacts DEF LeadsTo
    <2>2. Under(path[e.node], f) /\ Len(path[e.node]) < Len(f) /\ f[Len(path[e.node]) + 1] = e.level
      BY <1>7, <2>1, UnderFront
    <2>3. k # None
      <3>1. PICK m \in 0 .. nodes : Linked(m) /\ path[m] = f BY <1>8 DEF Stands
      <3>2. ASSUME k = None PROVE FALSE BY <1>1, <1>7, <2>1, <2>2, <3>1, <3>2, WayBroken
      <3>3. QED BY <3>2
    <2>4. k \in Created /\ Linked(k) /\ path[k] = Append(path[e.node], e.level) BY <1>1, <1>7, <2>3, ChildLinked
    <2>5. k \in 0 .. nodes /\ k \in Node /\ path[k] # <<>> /\ path[k] \in Seq(Level)
      BY <2>4, NodeFacts, PathsIn DEF IInv, Types
    <2>6. CASE e.level = MWC
      <3>1. PICK d : d = At(k, None) OBVIOUS
      <3>2. d \in PubItem /\ d.node = k /\ d.level = None BY <2>5, <3>1 DEF At, PubItem
      <3>3. h = <<d>> BY <1>2, <2>3, <2>6, <3>1
      <3>4. <<d>> \in Seq(PubItem) /\ Items(<<d>>) = {d} BY <3>2, ItemsOne
      <3>5. Len(path[k]) = Len(f)
        <4>1. PICK n : n = Len(path[e.node]) OBVIOUS
        <4>2. n \in Nat /\ Len(f) \in Nat /\ Len(path[k]) = n + 1 /\ n + 1 <= Len(f) /\ f[n + 1] = MWC
          BY <1>7, <2>1, <2>2, <2>4, <2>6, <4>1, AppendIs, LenProperties
        <4>3. n + 1 \notin 1 .. Len(f) - 1 BY <4>2, Zenon DEF Plain
        <4>4. QED BY <4>2, <4>3
      <3>6. path[k] = f BY <2>1, <2>4, <2>5, <3>5, UnderAll
      <3>7. LeadsTo(d, f) BY <2>4, <3>2, <3>6 DEF LeadsTo
      <3>8. QED BY <3>3, <3>4, <3>7
    <2>7. CASE e.level # MWC
      <3>1. h = Visit(k, t) BY <1>2, <2>3, <2>7
      <3>2. Fits(path[k], t) /\ (t[1] \in System => path[k][1] = t[1]) BY <1>7, <2>4, <2>7
      <3>3. h \in Seq(PubItem) BY <1>5, <2>5, <3>1, <3>2, VisitOnTopic
      <3>4. \E d \in Items(Visit(k, t)) : LeadsTo(d, f)
        BY <1>5, <1>8, <2>1, <2>4, <2>5, <3>2, VisitLeads
      <3>5. QED BY <3>1, <3>3, <3>4
    <2>8. QED BY <2>6, <2>7
  <1>9. h \in Seq(PubItem)
    <2>1. CASE k = None BY <1>2, <2>1, ItemsZero
    <2>2. CASE k # None
      <3>1. k \in Created /\ path[k] = Append(path[e.node], e.level) BY <1>1, <1>7, <2>2, ChildLinked
      <3>2. k \in 0 .. nodes /\ k \in Node /\ path[k] # <<>> BY <3>1, NodeFacts, PathsIn DEF IInv, Types
      <3>3. CASE e.level = MWC
        <4>1. PICK d : d = At(k, None) OBVIOUS
        <4>2. d \in PubItem BY <3>2, <4>1 DEF At, PubItem
        <4>3. h = <<d>> BY <1>2, <2>2, <3>3, <4>1
        <4>4. QED BY <4>2, <4>3
      <3>4. CASE e.level # MWC
        <4>1. h = Visit(k, t) BY <1>2, <2>2, <3>4
        <4>2. Fits(path[k], t) /\ (t[1] \in System => path[k][1] = t[1]) BY <1>7, <3>1, <3>4
        <4>3. QED BY <1>5, <3>2, <4>1, <4>2, VisitOnTopic
      <3>5. QED BY <3>3, <3>4, SMTT(30)
    <2>3. QED BY <2>1, <2>2
  <1>10. Items(todo'[p]) = Items(h) \cup Items(r) BY <1>4, <1>5, <1>9, ItemsBoth
  <1>11. \A x \in due[p] : LeadsTo(e, x[2]) => \E d \in Items(todo'[p]) : LeadsTo(d, x[2])
    <2>1. ASSUME NEW x \in due[p], LeadsTo(e, x[2]) PROVE \E d \in Items(h) : LeadsTo(d, x[2])
      <3>1. PICK c, f : c = x[1] /\ f = x[2] OBVIOUS
      <3>2. c \in Client /\ f \in Filter /\ Matches(f, t) /\ Stands(c, f)
        BY <1>1, <3>1 DEF DueOK, SubsOK, Settled
      <3>3. QED BY <1>8, <2>1, <3>1, <3>2
    <2>2. QED BY <1>10, <2>1
  <1>12. QED BY <1>3, <1>5, <1>10, <1>11, DueOn

LEMMA TakeDue ==
  ASSUME IInv, LinkOK, SubsOK, SearchTypes, NEW p \in Publisher, PublisherOK(p), DueOK(p), TakeSubscribers(p)
  PROVE  DueOK(p)'
  <1>1. PICK e, r : e = Head(todo[p]) /\ r = Tail(todo[p]) OBVIOUS
  <1>2. PICK g : g = {<<c, path[e.node]>> : c \in subs[e.node]} OBVIOUS
  <1>3. /\ todo[p] # <<>> /\ e.level = None /\ found' = [found EXCEPT ![p] = @ \cup g]
        /\ todo' = [todo EXCEPT ![p] = Tail(@)] /\ topic' = topic /\ due' = due
        /\ UNCHANGED <<treeVars, held, op, want>>
    BY <1>1, <1>2 DEF TakeSubscribers, First, walkVars, clientVars
  <1>4. todo'[p] = r /\ found'[p] = found[p] \cup g BY <1>1, <1>3, Apartness DEF SearchTypes
  <1>5. /\ e \in PubItem /\ Items(todo[p]) = {e} \cup Items(r)
    BY <1>1, <1>3, ItemsFirst DEF PublisherOK
  <1>6. e.node \in 0 .. nodes BY <1>3, <1>5 DEF PublisherOK, OnTopic
  <1>7. ASSUME NEW x \in due[p], LeadsTo(e, x[2]) PROVE x \in found'[p]
    <2>1. PICK c, f : c = x[1] /\ f = x[2] OBVIOUS
    <2>2. x = <<c, f>> /\ Stands(c, f) BY <2>1 DEF DueOK, SubsOK, Settled
    <2>3. PICK n \in 0 .. nodes : Linked(n) /\ path[n] = f /\ c \in subs[n] BY <2>2 DEF Stands
    <2>4. Linked(e.node) /\ path[e.node] = f BY <1>3, <1>7, <2>1 DEF LeadsTo
    <2>5. n = e.node BY <1>6, <2>3, <2>4 DEF LinkOK
    <2>6. <<c, path[e.node]>> \in g BY <1>2, <2>3, <2>5
    <2>7. QED BY <1>4, <2>2, <2>4, <2>6
  <1>8. QED BY <1>3, <1>4, <1>5, <1>7, DueOn

LEMMA NextDue ==
  ASSUME IInv, IInv', Apart, Apart', SearchTypes, Plain, [Next]_vars,
         NEW p \in Publisher, PublisherOK(p), DueOK(p)
  PROVE  DueOK(p)'
  <1>1. TreeMoves BY NextMoves
  <1>2. p \in Searcher /\ p \notin Walker /\ p \notin Client BY Apartness
  <1>3. LinkOK /\ SubsOK /\ LinkOK' /\ SubsOK' BY DEF Apart
  <1>4. ASSUME Rests(p), topic'[p] = topic[p] PROVE DueOK(p)'
    <2>1. PICK q, t : q = todo[p] /\ t = topic[p] OBVIOUS
    <2>2. ASSUME NEW x \in due'[p] PROVE x \in Settled'
      <3>1. x \in due[p] /\ x \in Settled BY <1>4, <2>2 DEF Rests, DueOK
      <3>2. ASSUME NEW c \in Client, NEW f \in Filter, x = <<c, f>>, UnSubscribe(c, f) PROVE FALSE
        <4>1. due' = Without(Publisher, <<c, f>>) BY <3>2 DEF UnSubscribe
        <4>2. QED BY <1>2, <2>2, <3>2, <4>1 DEF Without
      <3>3. QED BY <3>1, <3>2, SettledKept
    <2>3. ASSUME NEW x \in due'[p]
          PROVE  /\ x \in Settled' /\ Matches(x[2], t)
                 /\ x \in found'[p] \/ \E e \in Items(q) : LeadsTo(e, x[2])'
      <3>1. x \in due[p] /\ x \in Settled' /\ found'[p] = found[p] BY <1>4, <2>2, <2>3 DEF Rests
      <3>2. Matches(x[2], t) /\ (x \in found[p] \/ \E e \in Items(q) : LeadsTo(e, x[2])) BY <2>1, <3>1 DEF DueOK
      <3>3. \A e \in Items(q) : LeadsTo(e, x[2]) => LeadsTo(e, x[2])' BY <1>1, <1>3, <2>1, <3>1, DueStays
      <3>4. QED BY <3>1, <3>2, <3>3
    <2>4. topic'[p] = t /\ todo'[p] = q BY <1>4, <2>1 DEF Rests
    <2>5. QED BY <2>3, <2>4 DEF DueOK, Items, Matches, LeadsTo
  <1>5. ASSUME NEW w \in Walker, Walk(w) PROVE DueOK(p)'
    BY <1>2, <1>4, <1>5, WalkSearches
  <1>6. ASSUME NEW c \in Client, SearchRetained(c) PROVE DueOK(p)'
    BY <1>2, <1>4, <1>6, CollectSearches
  <1>7. ASSUME NEW r \in Publisher, Search(r) PROVE DueOK(p)'
    <2>1. CASE r = p
      <3>1. ASSUME Deliver(p) PROVE DueOK(p)'
        <4>1. due'[p] = {} BY <1>2, <3>1 DEF Deliver, Forget
        <4>2. QED BY <4>1 DEF DueOK
      <3>2. QED BY <1>3, <1>7, <2>1, <3>1, LoadLevelDue, TakeDue DEF Search
    <2>2. CASE r # p BY <1>2, <1>4, <1>7, <2>2, SearchSearches
    <2>3. QED BY <2>1, <2>2
  <1>8. ASSUME Environment PROVE DueOK(p)'
    BY <1>3, <1>4, <1>8, EnvironmentSearches, PublishDue
  <1>9. CASE UNCHANGED vars
    <2>1. Rests(p) /\ topic'[p] = topic[p] BY <1>9 DEF vars, searchVars, Rests
    <2>2. QED BY <1>4, <2>1
  <1>10. CASE Next
    BY <1>5, <1>6, <1>7, <1>8, <1>9, <1>10, Zenon DEF Next, Quiet
  <1>11. QED BY <1>9, <1>10

\* On the way along a filter to a topic that matches, what is to do next leads there.
LEMMA ArriveLeads ==
  ASSUME IInv, Plain, NEW n \in 0 .. nodes, NEW f \in Filter, NEW all \in BOOLEAN, NEW t \in Topic,
         Matches(f, t), Under(path[n], t), all => n # Root,
         ~all => Along(path[n], f) /\ (path[n] = <<>> => f[1] # MWC)
  PROVE  \E e \in Items(Arrive(n, f, all)) : e.node = n /\ Ahead(e, t)
  <1>1. PICK q, k, h : q = path[n] /\ k = Len(q) /\ h = Arrive(n, f, all) OBVIOUS
  <1>2. /\ n \in Node /\ q \in Seq(Level) /\ k \in Nat /\ f \in Seq(Level) /\ t \in Seq(Level)
        /\ Len(f) \in Nat \ {0} /\ Len(t) \in Nat \ {0} /\ k <= Len(t) /\ (n = Root => q = <<>>)
        /\ MWC \in Level /\ MWC # SWC
    <2>1. n \in Node BY NodeFacts DEF IInv, Types
    <2>2. q \in Seq(Level) /\ (n = Root => q = <<>>) BY <1>1, <2>1, PathsIn
    <2>3. k \in Nat /\ k <= Len(t) BY <1>1, <2>2, LenProperties DEF Under
    <2>4. QED BY <2>1, <2>2, <2>3, FilterFacts, TopicFacts
  <1>3. ~all => k <= Len(f) BY <1>1 DEF Along
  <1>4. /\ all => Items(h) = {Retained(n), Children(n, TRUE)}
        /\ ~all /\ k = Len(f) => Items(h) = {Retained(n), Child(n, MWC, TRUE)}
        /\ ~all /\ k < Len(f) =>
              Items(h) = IF f[k + 1] = MWC THEN {Retained(n), Children(n, TRUE)}
                         ELSE IF f[k + 1] = SWC THEN {Children(n, FALSE)}
                         ELSE {Child(n, f[k + 1], FALSE)}
    BY <1>1, <1>2, <1>3, ArriveItems
  <1>5. q = t => Ahead(Retained(n), t)
    <2>1. PICK e : e = Retained(n) OBVIOUS
    <2>2. e.step = "retained" /\ e.node = n BY <1>2, <2>1, RetainedItem
    <2>3. q = t => Ahead(e, t) BY <1>1, <2>2 DEF Ahead
    <2>4. QED BY <2>1, <2>3
  <1>6. ASSUME NEW a \in BOOLEAN, k < Len(t), a => n # Root PROVE Ahead(Children(n, a), t)
    <2>1. PICK e : e = Children(n, a) OBVIOUS
    <2>2. e.step = "children" /\ e.node = n /\ e.all = a BY <1>2, <2>1, ChildrenItem
    <2>3. Shown(n, a, t) BY <1>6, Zenon DEF Shown
    <2>4. Ahead(e, t) BY <1>1, <1>6, <2>2, <2>3 DEF Ahead
    <2>5. QED BY <2>1, <2>4
  <1>7. \A l \in Level : /\ Retained(n).node = n /\ Children(n, TRUE).node = n /\ Children(n, FALSE).node = n
                         /\ Child(n, l, FALSE).node = n
    BY DEF Retained, Children, Child, ToDo
  <1>8. ASSUME n # Root, Items(h) = {Retained(n), Children(n, TRUE)}
        PROVE  \E e \in Items(h) : e.node = n /\ Ahead(e, t)
    <2>1. CASE k = Len(t)
      <3>1. q = t BY <1>1, <1>2, <2>1, UnderAll
      <3>2. QED BY <1>2, <1>5, <1>7, <1>8, <3>1
    <2>2. CASE k < Len(t)
      <3>1. Ahead(Children(n, TRUE), t) BY <1>6, <1>8, <2>2
      <3>2. QED BY <1>2, <1>7, <1>8, <3>1
    <2>3. QED BY <1>2, <2>1, <2>2
  <1>9. CASE all BY <1>1, <1>4, <1>8, <1>9
  <1>10. CASE ~all
    <2>1. \A i \in 1 .. k : f[i] # MWC BY <1>1, <1>10 DEF Along
    <2>2. /\ f[Len(f)] # MWC => Len(t) = Len(f) /\ \A i \in 1 .. Len(f) : f[i] = SWC \/ f[i] = t[i]
          /\ f[Len(f)] = MWC => Len(t) >= Len(f) - 1 /\ \A i \in 1 .. Len(f) - 1 : f[i] = SWC \/ f[i] = t[i]
      BY DEF Matches
    <2>3. CASE k = Len(f)
      <3>1. Len(t) = k BY <1>2, <2>1, <2>2, <2>3
      <3>2. q = t BY <1>1, <1>2, <3>1, UnderAll
      <3>3. Items(h) = {Retained(n), Child(n, MWC, TRUE)} BY <1>4, <1>10, <2>3
      <3>4. QED BY <1>1, <1>2, <1>5, <1>7, <3>2, <3>3
    <2>4. CASE k < Len(f)
      <3>1. PICK l : l = f[k + 1] OBVIOUS
      <3>2. k + 1 \in 1 .. Len(f) /\ l \in Level BY <1>2, <2>4, <3>1, FilterFacts
      <3>3. CASE l = MWC
        <4>1. n # Root
          <5>1. q = <<>> => k + 1 = 1 BY <1>1
          <5>2. q = <<>> => f[1] # MWC BY <1>1, <1>10
          <5>3. QED BY <1>2, <3>1, <3>3, <5>1, <5>2
        <4>2. Items(h) = {Retained(n), Children(n, TRUE)} BY <1>4, <1>10, <2>4, <3>1, <3>3
        <4>3. QED BY <1>1, <1>8, <4>1, <4>2
      <3>4. CASE l # MWC
        <4>1. k < Len(t) /\ (l = SWC \/ l = t[k + 1])
          <5>1. f[Len(f)] = MWC => k + 1 \in 1 .. Len(f) - 1
            <6>1. f[Len(f)] = MWC => k + 1 # Len(f) BY <3>1, <3>4
            <6>2. QED BY <1>2, <3>2, <6>1
          <5>2. QED BY <1>2, <2>2, <2>4, <3>1, <3>2, <5>1
        <4>2. CASE l = SWC
          <5>1. Items(h) = {Children(n, FALSE)} BY <1>2, <1>4, <1>10, <2>4, <3>1, <4>2
          <5>2. Ahead(Children(n, FALSE), t) BY <1>6, <4>1
          <5>3. QED BY <1>1, <1>2, <1>7, <5>1, <5>2
        <4>3. CASE l # SWC
          <5>1. PICK e : e = Child(n, l, FALSE) OBVIOUS
          <5>2. Items(h) = {e} BY <1>4, <1>10, <2>4, <3>1, <3>4, <4>3, <5>1
          <5>3. e.step = "child" /\ e.node = n /\ e.level = l BY <1>2, <3>2, <5>1, ChildItem
          <5>4. Under(Append(q, l), t) BY <1>1, <1>2, <4>1, <4>3, UnderAppend
          <5>5. Ahead(e, t) BY <1>1, <5>3, <5>4 DEF Ahead
          <5>6. QED BY <1>1, <5>2, <5>3, <5>5
        <4>4. QED BY <4>2, <4>3
      <3>5. QED BY <3>3, <3>4
    <2>5. QED BY <1>2, <1>3, <1>10, <2>3, <2>4
  <1>11. QED BY <1>9, <1>10

LEMMA AheadUnder ==
  ASSUME IInv, NEW e, e.node \in Node, e.step = "child" => e.level \in Level, NEW t \in Topic, Ahead(e, t)
  PROVE  Under(path[e.node], t)
  <1>1. t \in Seq(Level) /\ path[e.node] \in Seq(Level) BY TopicFacts, PathsIn
  <1>2. CASE e.step = "retained"
    <2>1. path[e.node] = t BY <1>2 DEF Ahead
    <2>2. QED BY <1>1, <2>1, LenProperties DEF Under
  <1>3. CASE e.step = "child"
    <2>1. Under(Append(path[e.node], e.level), t) BY <1>3 DEF Ahead
    <2>2. QED BY <1>1, <1>3, <2>1, UnderFront
  <1>4. CASE e.step = "children" BY <1>4 DEF Ahead
  <1>5. QED BY <1>2, <1>3, <1>4 DEF Ahead

\* What a step of another leaves a client to find.
LEMMA RetainedStays ==
  ASSUME IInv, IInv', LinkOK, LinkOK', RetainedOK', TreeMoves, NEW c \in Client, ClientOK(c),
         NEW t \in Topic, kept'[t] # None, want'[Retainer] # t
  PROVE  \A e \in Items(todo[c]) : Linked(e.node) /\ Ahead(e, t) => Linked(e.node)' /\ Ahead(e, t)'
  <1>1. t \in Seq(Level) BY TopicFacts
  <1>2. PICK m \in (0 .. nodes)' : Linked(m)' /\ path'[m] = t BY DEF RetainedOK, RetainedIs
  <1>3. ASSUME NEW e \in Items(todo[c]), Linked(e.node), Ahead(e, t) PROVE Linked(e.node)' /\ Ahead(e, t)'
    <2>1. todo[c] \in Seq(ClientItem) BY DEF ClientOK
    <2>2. e \in ClientItem /\ todo[c] # <<>> BY <2>1, ItemsIn
    <2>3. OnFilter(e, want[c]) BY <2>2 DEF ClientOK
    <2>4. e.node \in 0 .. nodes /\ e.node \in Node /\ (e.step = "child" => e.level \in Level)
      BY <2>2, <2>3 DEF OnFilter, ClientItem
    <2>5. Under(path[e.node], t) BY <1>3, <2>4, AheadUnder
    <2>6. Linked(e.node)' BY <1>1, <1>2, <1>3, <2>4, <2>5, LinkStays
    <2>7. path'[e.node] = path[e.node] BY <2>4, MovesKeep
    <2>8. QED BY <1>3, <2>6, <2>7 DEF Ahead
  <1>4. QED BY <1>3

LEMMA BeginSearchDue ==
  ASSUME IInv, SearchTypes, Plain, NEW c \in Client, pc[c] \in {"leaf", "release"},
         BeginSearch(c), UNCHANGED <<treeVars, want, kept>>
  PROVE  RetainedDueOK(c)'
  <1>1. PICK f : f = want[c] OBVIOUS
  <1>2. f \in Filter /\ f \in Seq(Level) /\ Len(f) \in Nat \ {0}
    <2>1. c \in Walker /\ c # Retainer BY Apartness
    <2>2. RequestOK(c) BY <2>1 DEF IInv, WalkOK
    <2>3. f \in Filter BY <1>1, <2>1, <2>2 DEF RequestOK
    <2>4. QED BY <2>3, FilterFacts
  <1>3. PICK q, m : /\ q = IF f[1] = MWC THEN <<Children(Root, TRUE)>> ELSE Arrive(Root, f, FALSE)
                    /\ m = {t \in Topic : Matches(f, t) /\ ~mixed /\ kept[t] # None /\ want[Retainer] # t}
    OBVIOUS
  <1>4. todo' = [todo EXCEPT ![c] = q] /\ due' = [due EXCEPT ![c] = m]
    <2>1. m = {t \in {t \in Topic : Matches(f, t)} : ~mixed /\ kept[t] # None /\ want[Retainer] # t} BY <1>3
    <2>2. QED BY <1>1, <1>3, <2>1, Zenon DEF BeginSearch
  <1>5. todo'[c] = q /\ due'[c] = m /\ want'[c] = f BY <1>1, <1>4, Apartness DEF SearchTypes
  <1>6. Root \in 0 .. nodes /\ Root \in Node /\ path[Root] = <<>> /\ Len(<<>>) = 0 /\ Linked(Root)
    BY NodeFacts, PathsIn DEF IInv, Types, Linked
  <1>7. ASSUME NEW t \in Topic, Matches(f, t) PROVE \E e \in Items(q) : e.node = Root /\ Ahead(e, t)
    <2>1. t \in Seq(Level) /\ Len(t) \in Nat \ {0} /\ Under(<<>>, t) BY TopicFacts, UnderEmpty
    <2>2. CASE f[1] = MWC
      <3>1. PICK e : e = Children(Root, TRUE) OBVIOUS
      <3>2. e \in ClientItem /\ e.step = "children" /\ e.node = Root /\ e.all = TRUE BY <1>6, <3>1, ChildrenItem
      <3>3. q = <<e>> /\ Items(<<e>>) = {e} BY <1>3, <2>2, <3>1, <3>2, ItemsOne
      <3>4. t[1] \notin System
        <4>1. t[1] # MWC BY <2>1, TopicFacts
        <4>2. QED BY <1>7, <2>2, <4>1 DEF Matches
      <3>5. f[Len(f)] = MWC /\ Len(f) = 1
        <4>1. \A i \in 1 .. Len(f) - 1 : f[i] # MWC BY <1>2, Zenon DEF Plain
        <4>2. ~(1 \in 1 .. Len(f) - 1) BY <2>2, <4>1, Zenon
        <4>3. PICK k \in Nat \ {0} : k = Len(f) BY <1>2
        <4>4. ~(1 \in 1 .. k - 1) BY <4>2, <4>3, Zenon
        <4>5. k = 1 BY <4>4
        <4>6. QED BY <2>2, <4>3, <4>5
      <3>6. Len(f) <= Len(t) BY <2>1, <3>5
      <3>7. t[1] # ""
        <4>1. t[Len(f)] # "" BY <1>2, <3>5, <3>6, Zenon DEF Plain
        <4>2. QED BY <3>5, <4>1, Zenon
      <3>8. Shown(Root, TRUE, t) BY <3>4, <3>7, Zenon DEF Shown
      <3>9. Ahead(e, t)
        <4>1. PICK z : z = path[Root] OBVIOUS
        <4>2. Under(z, t) /\ Len(z) < Len(t) BY <1>6, <2>1, <4>1
        <4>3. QED BY <3>2, <3>8, <4>1, <4>2, Zenon DEF Ahead
      <3>10. QED BY <3>2, <3>3, <3>9
    <2>3. CASE f[1] # MWC
      <3>1. Along(path[Root], f) BY <1>2, <1>6 DEF Along
      <3>2. Under(path[Root], t) BY <1>6, <2>1
      <3>3. \E e \in Items(Arrive(Root, f, FALSE)) : e.node = Root /\ Ahead(e, t)
        BY <1>2, <1>6, <1>7, <2>3, <3>1, <3>2, ArriveLeads
      <3>4. q = Arrive(Root, f, FALSE) BY <1>3, <2>3
      <3>5. QED BY <3>3, <3>4
    <2>4. QED BY <2>2, <2>3
  <1>8. path' = path BY DEF treeVars
  <1>9. ASSUME NEW t \in m
        PROVE  /\ t \in Topic /\ Matches(f, t) /\ kept[t] # None /\ want[Retainer] # t
               /\ \E e \in Items(q) : Linked(e.node)' /\ Ahead(e, t)'
    <2>1. t \in Topic /\ Matches(f, t) /\ kept[t] # None /\ want[Retainer] # t BY <1>3
    <2>2. PICK e \in Items(q) : e.node = Root /\ Ahead(e, t) BY <1>7, <2>1
    <2>3. Linked(e.node)' BY <2>2 DEF Linked, Root
    <2>4. Ahead(e, t)' BY <1>8, <2>2, Zenon DEF Ahead
    <2>5. QED BY <2>1, <2>2, <2>3, <2>4
  <1>10. QED BY <1>5, <1>9 DEF RetainedDueOK, Items, Matches, Linked, Slot, Ahead

LEMMA CollectDue ==
  ASSUME IInv, SearchTypes, NEW c \in Client, ClientOK(c), RetainedDueOK(c), NEW step, NEW next,
         next \in Seq(ClientItem), Collect(c, step, next), found[c] \subseteq found'[c], NEW d, d = Head(todo[c]),
         \A t \in due[c] : Linked(d.node) /\ Ahead(d, t) =>
            t \in found'[c] \/ \E e \in Items(next) : Linked(e.node) /\ Ahead(e, t)
  PROVE  RetainedDueOK(c)'
  <1>1. PICK r, q : r = Tail(todo[c]) /\ q = next \o r OBVIOUS
  <1>2. /\ pc[c] = "collect" /\ todo' = [todo EXCEPT ![c] = q]
        /\ want' = want /\ due' = due /\ kept' = kept /\ UNCHANGED treeVars
    BY <1>1 DEF Collect, clientVars
  <1>3. r \in Seq(ClientItem) /\ Items(todo[c]) = {d} \cup Items(r) BY <1>1, <1>2, HeadOn
  <1>4. todo'[c] = q BY <1>2, Apartness DEF SearchTypes
  <1>5. Items(q) = Items(next) \cup Items(r)
    <2>1. next \in Seq(ClientItem) /\ r \in Seq(ClientItem) BY <1>3
    <2>2. Items(next \o r) = Items(next) \cup Items(r) BY <2>1, ItemsBoth, SMTT(30)
    <2>3. QED BY <1>1, <2>2, Zenon
  <1>6. \A e, t : (Linked(e.node)' <=> Linked(e.node)) /\ (Ahead(e, t)' <=> Ahead(e, t))
    BY <1>2 DEF Linked, Slot, Ahead, treeVars
  <1>7. ASSUME NEW t \in due[c]
        PROVE  /\ t \in Topic /\ Matches(want[c], t) /\ kept[t] # None /\ want[Retainer] # t
               /\ t \in found'[c] \/ \E e \in Items(q) : Linked(e.node)' /\ Ahead(e, t)'
    <2>1. /\ t \in Topic /\ Matches(want[c], t) /\ kept[t] # None /\ want[Retainer] # t
          /\ t \in found[c] \/ \E e \in Items(todo[c]) : Linked(e.node) /\ Ahead(e, t)
      BY DEF RetainedDueOK
    <2>2. CASE t \in found[c] BY <2>1, <2>2
    <2>3. CASE t \notin found[c]
      <3>1. PICK e \in Items(todo[c]) : Linked(e.node) /\ Ahead(e, t) BY <2>1, <2>3
      <3>2. CASE e = d BY <1>5, <1>6, <2>1, <3>1, <3>2
      <3>3. CASE e \in Items(r) BY <1>5, <1>6, <2>1, <3>1, <3>3
      <3>4. QED BY <1>3, <3>1, <3>2, <3>3
    <2>4. QED BY <2>2, <2>3
  <1>8. PICK f, k, rt, D : f = want[c] /\ k = kept /\ rt = want[Retainer] /\ D = due[c] OBVIOUS
  <1>9. want'[c] = f /\ kept' = k /\ want'[Retainer] = rt /\ due'[c] = D BY <1>2, <1>8
  <1>10. \A t \in D :
           /\ t \in Topic /\ Matches(f, t) /\ k[t] # None /\ rt # t
           /\ t \in found'[c] \/ \E e \in Items(q) : Linked(e.node)' /\ Ahead(e, t)'
    BY <1>7, <1>8
  <1>11. ASSUME NEW t \in due'[c]
         PROVE  /\ t \in Topic /\ Matches(want'[c], t) /\ kept'[t] # None /\ want'[Retainer] # t
                /\ t \in found'[c] \/ \E e \in Items(todo'[c]) : Linked(e.node)' /\ Ahead(e, t)'
    BY <1>4, <1>9, <1>10, <1>11
  <1>12. QED BY <1>11, Zenon DEF RetainedDueOK, Items, Matches, Linked, Slot, Ahead

\* What a client must find is at a node that is linked.
LEMMA DueIs ==
  ASSUME RetainedOK, NEW c \in Client, RetainedDueOK(c), NEW t \in due[c]
  PROVE  /\ t \in Topic /\ t \in Seq(Level) /\ Matches(want[c], t)
         /\ \E m \in 0 .. nodes : Linked(m) /\ path[m] = t
         /\ \A n \in 0 .. nodes : Linked(n) /\ path[n] = t => retained[n] # None
  <1>1. t \in Topic /\ kept[t] # None /\ want[Retainer] # t /\ Matches(want[c], t) BY DEF RetainedDueOK
  <1>2. RetainedIs(t, kept[t]) BY <1>1 DEF RetainedOK
  <1>3. QED BY <1>1, <1>2, TopicFacts DEF RetainedIs

LEMMA LoadKidDue ==
  ASSUME IInv, LinkOK, RetainedOK, SearchTypes, Plain, NEW c \in Client, ClientOK(c), RetainedDueOK(c), LoadKid(c)
  PROVE  RetainedDueOK(c)'
  <1>1. PICK d, f : d = Head(todo[c]) /\ f = want[c] OBVIOUS
  <1>2. PICK next, n : next = AfterKid(d, f) /\ n = children[d.node][d.level] OBVIOUS
  <1>3. Collect(c, "child", next) /\ found' = found BY <1>1, <1>2, Zenon DEF LoadKid, AfterKid
  <1>4. pc[c] = "collect" /\ d.step = "child" BY <1>1, <1>3 DEF Collect
  <1>5. /\ d.node \in 0 .. nodes /\ d.node \in Node /\ d.all \in BOOLEAN /\ OnFilter(d, f) /\ f \in Filter
        /\ path[d.node] \in Seq(Level)
    BY <1>1, <1>4, HeadOn, PathsIn
  <1>6. d.level \in Level BY <1>4, <1>5 DEF OnFilter
  <1>7. ASSUME n # None
        PROVE  /\ next = Arrive(n, f, d.all) /\ n \in 0 .. nodes /\ n # Root /\ n \in Node /\ path[n] # <<>>
               /\ Linked(n) /\ path[n] = Append(path[d.node], d.level) /\ (~d.all => Along(path[n], f))
    <2>1. next = Arrive(n, f, d.all) BY <1>2, <1>7, Zenon DEF AfterKid
    <2>2. n \in Created /\ Linked(n) /\ path[n] = Append(path[d.node], d.level) BY <1>2, <1>5, <1>6, <1>7, ChildLinked
    <2>3. n \in 0 .. nodes /\ n \in Node /\ n # Root /\ path[n] # <<>>
      BY <2>2, NodeFacts, PathsIn DEF IInv, Types, Created, Root
    <2>4. ~d.all => Along(path[n], f) BY <1>4, <1>5, <2>2 DEF OnFilter
    <2>5. QED BY <2>1, <2>2, <2>3, <2>4
  <1>8. next \in Seq(ClientItem)
    <2>1. CASE n # None
      <3>1. ~d.all => Len(path[n]) <= Len(f) BY <1>7, <2>1 DEF Along
      <3>2. f \in Seq(Level) BY <1>5, FilterFacts
      <3>3. Arrive(n, f, d.all) \in Seq(ClientItem) BY <1>5, <1>7, <2>1, <3>1, <3>2, ArriveItems
      <3>4. QED BY <1>7, <2>1, <3>3
    <2>2. CASE n = None
      <3>1. Panic \in ClientItem BY NodeFacts DEF Panic, ToDo, ClientItem, IInv, Types
      <3>2. PICK e : e = Panic OBVIOUS
      <3>3. next \in {<<e>>, <<>>} BY <1>2, <2>2, <3>2, Zenon DEF AfterKid
      <3>4. <<e>> \in Seq(ClientItem) BY <3>1, <3>2, ItemsOne
      <3>5. <<>> \in Seq(ClientItem) BY ItemsZero
      <3>6. QED BY <3>3, <3>4, <3>5
    <2>3. QED BY <2>1, <2>2
  <1>9. ASSUME NEW t \in due[c], Linked(d.node), Ahead(d, t)
        PROVE  \E e \in Items(next) : Linked(e.node) /\ Ahead(e, t)
    <2>1. /\ t \in Topic /\ t \in Seq(Level) /\ Matches(f, t)
          /\ \E m \in 0 .. nodes : Linked(m) /\ path[m] = t
      BY <1>1, DueIs
    <2>2. Under(Append(path[d.node], d.level), t) BY <1>4, <1>9 DEF Ahead
    <2>3. Under(path[d.node], t) /\ Len(path[d.node]) < Len(t) /\ t[Len(path[d.node]) + 1] = d.level
      BY <1>5, <1>6, <2>1, <2>2, UnderFront
    <2>4. n # None
      <3>1. PICK m \in 0 .. nodes : Linked(m) /\ path[m] = t BY <2>1
      <3>2. ASSUME n = None PROVE FALSE BY <1>2, <1>5, <1>9, <2>1, <2>3, <3>1, <3>2, WayBroken
      <3>3. QED BY <3>2
    <2>5. \E e \in Items(Arrive(n, f, d.all)) : e.node = n /\ Ahead(e, t)
      <3>1. Under(path[n], t) BY <1>7, <2>2, <2>4
      <3>2. /\ n \in 0 .. nodes /\ n # Root /\ path[n] # <<>> /\ (~d.all => Along(path[n], f)) BY <1>7, <2>4
      <3>3. QED BY <1>5, <2>1, <3>1, <3>2, ArriveLeads
    <2>6. QED BY <1>7, <2>4, <2>5
  <1>10. found[c] \subseteq found'[c] BY <1>3
  <1>11. QED BY <1>1, <1>3, <1>8, <1>9, <1>10, CollectDue

LEMMA LoadRetainedDue ==
  ASSUME IInv, RetainedOK, SearchTypes, NEW c \in Client, ClientOK(c), RetainedDueOK(c), LoadRetained(c)
  PROVE  RetainedDueOK(c)'
  <1>1. PICK d, n : d = Head(todo[c]) /\ n = d.node OBVIOUS
  <1>2. /\ Collect(c, "retained", <<>>)
        /\ found' = [found EXCEPT ![c] = IF retained[n] = None THEN @ ELSE @ \cup {path[n]}]
    BY <1>1 DEF LoadRetained
  <1>3. pc[c] = "collect" /\ d.step = "retained" BY <1>1, <1>2 DEF Collect
  <1>4. n \in 0 .. nodes BY <1>1, <1>3, HeadOn
  <1>5. found'[c] = IF retained[n] = None THEN found[c] ELSE found[c] \cup {path[n]} BY <1>2, Apartness DEF SearchTypes
  <1>6. ASSUME NEW t \in due[c], Linked(d.node), Ahead(d, t) PROVE t \in found'[c]
    <2>1. path[n] = t BY <1>1, <1>3, <1>6 DEF Ahead
    <2>2. retained[n] # None BY <1>1, <1>4, <1>6, <2>1, DueIs
    <2>3. QED BY <1>5, <2>1, <2>2
  <1>7. PICK next : next = <<>> OBVIOUS
  <1>8. next \in Seq(ClientItem) BY <1>7, ItemsZero
  <1>9. Collect(c, "retained", next) BY <1>2, <1>7
  <1>10. found[c] \subseteq found'[c] BY <1>5
  <1>11. \A t \in due[c] : Linked(d.node) /\ Ahead(d, t) =>
           t \in found'[c] \/ \E e \in Items(next) : Linked(e.node) /\ Ahead(e, t)
    BY <1>6
  <1>12. QED BY <1>1, <1>8, <1>9, <1>10, <1>11, CollectDue

LEMMA RangeChildrenDue ==
  ASSUME IInv, LinkOK, RetainedOK, SearchTypes, NEW c \in Client, ClientOK(c), RetainedDueOK(c), RangeChildren(c)
  PROVE  RetainedDueOK(c)'
  <1>1. PICK d, p : d = Head(todo[c]) /\ p = path[d.node] OBVIOUS
  <1>2. PICK L : L = RangeLevels(d) OBVIOUS
  <1>3. pc[c] = "collect" /\ d.step = "children" /\ found' = found BY <1>1, RangeIs
  <1>4. PICK q \in Seq(ClientItem) : Ranges(c, d, q) BY <1>1, RangeIs
  <1>5. Collect(c, "children", q) /\ \A l \in L : Child(d.node, l, d.all) \in Items(q)
    BY <1>2, <1>4, Zenon DEF Ranges
  <1>6. d.node \in 0 .. nodes /\ d.node \in Node /\ d.all \in BOOLEAN /\ p \in Seq(Level)
    BY <1>1, <1>3, HeadOn, PathsIn
  <1>7. ASSUME NEW t \in due[c], Linked(d.node), Ahead(d, t)
        PROVE  \E e \in Items(q) : Linked(e.node) /\ Ahead(e, t)
    <2>1. /\ t \in Topic /\ t \in Seq(Level)
          /\ \E m \in 0 .. nodes : Linked(m) /\ path[m] = t
      BY DueIs
    <2>2. Under(p, t) /\ Len(p) < Len(t) /\ Shown(d.node, d.all, t) BY <1>1, <1>3, <1>7 DEF Ahead
    <2>3. PICK l : l = t[Len(p) + 1] OBVIOUS
    <2>4. l \in Level
      <3>1. Len(p) + 1 \in 1 .. Len(t) BY <1>6, <2>1, <2>2, LenProperties
      <3>2. QED BY <2>1, <2>3, <3>1, TopicFacts
    <2>5. children[d.node][l] # None
      <3>1. PICK m \in 0 .. nodes : Linked(m) /\ path[m] = t BY <2>1
      <3>2. ASSUME children[d.node][l] = None PROVE FALSE
        BY <1>1, <1>6, <1>7, <2>1, <2>2, <2>3, <3>1, <3>2, WayBroken
      <3>3. QED BY <3>2
    <2>6. l \in L
      <3>1. ~(d.node = Root /\ d.all /\ l \in System \cup {""})
        <4>1. d.node = Root => l = t[1]
          <5>1. d.node = Root => p = <<>> BY <1>1, PathsIn
          <5>2. p = <<>> => Len(p) + 1 = 1 OBVIOUS
          <5>3. QED BY <2>3, <5>1, <5>2
        <4>2. QED BY <2>2, <4>1, Zenon DEF Shown
      <3>2. QED BY <1>2, <2>4, <2>5, <3>1, Zenon DEF RangeLevels
    <2>7. PICK e : e = Child(d.node, l, d.all) OBVIOUS
    <2>8. e \in Items(q) BY <1>5, <2>6, <2>7
    <2>9. e.step = "child" /\ e.node = d.node /\ e.level = l BY <1>6, <2>4, <2>7, ChildItem
    <2>10. Under(Append(p, l), t) BY <1>6, <2>1, <2>2, <2>3, UnderAppend
    <2>11. Ahead(e, t) BY <1>1, <2>9, <2>10 DEF Ahead
    <2>12. QED BY <1>7, <2>8, <2>9, <2>11
  <1>8. found[c] \subseteq found'[c] BY <1>3
  <1>9. QED BY <1>1, <1>5, <1>7, <1>8, CollectDue

LEMMA RestsDue ==
  ASSUME IInv, IInv', LinkOK, LinkOK', RetainedOK', TreeMoves, NEW c \in Client, ClientOK(c), RetainedDueOK(c), Rests(c),
         \A t \in due'[c] : want'[c] = want[c] /\ kept'[t] = kept[t] /\ want'[Retainer] # t
  PROVE  RetainedDueOK(c)'
  <1>1. ASSUME NEW t \in due'[c]
        PROVE  /\ t \in Topic /\ Matches(want'[c], t) /\ kept'[t] # None /\ want'[Retainer] # t
               /\ t \in found'[c] \/ \E e \in Items(todo'[c]) : Linked(e.node)' /\ Ahead(e, t)'
    <2>1. t \in due[c] /\ todo'[c] = todo[c] /\ found'[c] = found[c] BY DEF Rests
    <2>2. /\ t \in Topic /\ Matches(want[c], t) /\ kept[t] # None
          /\ t \in found[c] \/ \E e \in Items(todo[c]) : Linked(e.node) /\ Ahead(e, t)
      BY <2>1 DEF RetainedDueOK
    <2>3. want'[c] = want[c] /\ kept'[t] = kept[t] /\ want'[Retainer] # t OBVIOUS
    <2>4. \A e \in Items(todo[c]) : Linked(e.node) /\ Ahead(e, t) => Linked(e.node)' /\ Ahead(e, t)'
      BY <2>2, <2>3, RetainedStays
    <2>5. t \in found'[c] \/ \E e \in Items(todo'[c]) : Linked(e.node)' /\ Ahead(e, t)' BY <2>1, <2>2, <2>4
    <2>6. QED BY <2>2, <2>3, <2>5
  <1>2. QED BY <1>1, Zenon DEF RetainedDueOK, Items, Matches, Linked, Slot, Ahead

LEMMA RequestDue ==
  ASSUME IInv, NEW c \in Client, ClientOK(c), RetainedDueOK(c), due'[c] \subseteq due[c], kept' = kept,
         NEW d \in Client, NEW o, NEW f, NEW first, Request(d, o, f, first)
  PROVE  \A t \in due'[c] : want'[c] = want[c] /\ kept'[t] = kept[t] /\ want'[Retainer] # t
  <1>1. d \in Walker /\ d # Retainer /\ c \in Walker /\ Retainer \in Walker BY Apartness
  <1>2. pc[d] = "idle" /\ want' = [want EXCEPT ![d] = f] BY DEF Request
  <1>3. want'[Retainer] = want[Retainer] BY <1>1, <1>2 DEF IInv, Types, WalkTypes
  <1>4. \A t \in due'[c] : want[Retainer] # t BY DEF RetainedDueOK
  <1>5. CASE d = c
    <2>1. due[c] = {} BY <1>2, <1>5 DEF ClientOK
    <2>2. QED BY <2>1
  <1>6. CASE d # c
    <2>1. want'[c] = want[c] BY <1>1, <1>2, <1>6 DEF IInv, Types, WalkTypes
    <2>2. QED BY <1>3, <1>4, <2>1
  <1>7. QED BY <1>5, <1>6

LEMMA RetainDue ==
  ASSUME IInv, NEW c \in Client, ClientOK(c), RetainedDueOK(c), due'[c] \subseteq due[c],
         NEW s \in Topic, NEW o, NEW m, Retain(s, o, m)
  PROVE  \A t \in due'[c] : want'[c] = want[c] /\ kept'[t] = kept[t] /\ want'[Retainer] # t
  <1>1. c \in Walker /\ c # Retainer /\ Retainer \in Walker /\ c \in Searcher BY Apartness
  <1>2. PICK first : first = IF o = "store" THEN "raise" ELSE "seek" OBVIOUS
  <1>3. Request(Retainer, o, s, first) BY <1>2 DEF Retain
  <1>4. want' = [want EXCEPT ![Retainer] = s] BY <1>3 DEF Request
  <1>5. want'[c] = want[c] /\ want'[Retainer] = s BY <1>1, <1>4 DEF IInv, Types, WalkTypes
  <1>6. due' = Without(Client, s) /\ kept' = [kept EXCEPT ![s] = m] BY DEF Retain
  <1>7. due'[c] = due[c] \ {s} BY <1>1, <1>6 DEF Without
  <1>8. \A t \in due'[c] : t # s /\ t \in Topic BY <1>7 DEF RetainedDueOK
  <1>9. \A t \in due'[c] : kept'[t] = kept[t] BY <1>6, <1>8 DEF IInv, Types, NoteTypes
  <1>10. QED BY <1>5, <1>8, <1>9

LEMMA NextRetainedDue ==
  ASSUME IInv, IInv', Apart, Apart', SearchTypes, Plain, [Next]_vars,
         NEW c \in Client, ClientOK(c), RetainedDueOK(c)
  PROVE  RetainedDueOK(c)'
  <1>1. TreeMoves BY NextMoves
  <1>2. c \in Searcher /\ c \in Walker /\ c # Retainer /\ Retainer \in Walker BY Apartness
  <1>3. LinkOK /\ RetainedOK /\ LinkOK' /\ RetainedOK' BY DEF Apart
  <1>4. ASSUME Rests(c), \A t \in due'[c] : want'[c] = want[c] /\ kept'[t] = kept[t] /\ want'[Retainer] # t
        PROVE  RetainedDueOK(c)'
    BY <1>1, <1>3, <1>4, RestsDue
  <1>5. ASSUME Rests(c), want'[c] = want[c], want'[Retainer] \in {want[Retainer], <<>>}, kept' = kept
        PROVE  RetainedDueOK(c)'
    <2>1. <<>> \notin Topic BY TopicTreeAssumption DEF TopicTreeAssumption
    <2>2. \A t \in due'[c] : t \in Topic /\ want[Retainer] # t BY <1>5 DEF Rests, RetainedDueOK
    <2>3. QED BY <1>4, <1>5, <2>1, <2>2
  <1>6. ASSUME NEW w \in Walker, Walk(w), w # c PROVE RetainedDueOK(c)'
    <2>1. Rests(c) BY <1>2, <1>6, WalkSearches
    <2>2. CASE Answer(w)
      <3>1. want' = [want EXCEPT ![w] = <<>>] /\ kept' = kept BY <2>2 DEF Answer
      <3>2. want'[c] = want[c] /\ want'[Retainer] \in {want[Retainer], <<>>}
        BY <1>2, <1>6, <3>1 DEF IInv, Types, WalkTypes
      <3>3. QED BY <1>5, <2>1, <3>1, <3>2
    <2>3. CASE Works(w) BY <1>5, <2>1, <2>3 DEF Works
    <2>4. QED BY <1>6, <2>2, <2>3, InsertMoves, RemoveMoves DEF Walk
  <1>7. ASSUME Walk(c) PROVE RetainedDueOK(c)'
    <2>1. CASE Answer(c)
      <3>1. due'[c] = {} BY <1>2, <2>1 DEF Answer, Forget
      <3>2. QED BY <3>1 DEF RetainedDueOK
    <2>2. CASE Insert(c) \/ Remove(c)
      <3>1. want' = want /\ kept' = kept BY <1>2, <2>2, InsertMoves, RemoveMoves DEF Works
      <3>2. CASE pc[c] \in {"leaf", "release"} /\ BeginSearch(c) /\ UNCHANGED <<treeVars, retained, want, found>>
        BY <3>1, <3>2, BeginSearchDue
      <3>3. CASE ~(pc[c] \in {"leaf", "release"} /\ BeginSearch(c) /\ UNCHANGED <<treeVars, retained, want, found>>)
        <4>1. pc[c] \notin {"collect", "answer"} /\ pc'[c] # "collect" BY <2>2, <3>3, StepPc
        <4>2. ~Answer(c) BY <4>1 DEF Answer
        <4>3. ~(pc[c] \in {"leaf", "release"} /\ BeginSearch(c))
          <5>1. ASSUME BeginSearch(c) PROVE pc'[c] = "collect"
            BY <1>2, <5>1 DEF BeginSearch, Goto, IInv, Types, WalkTypes
          <5>2. QED BY <4>1, <5>1
        <4>4. Rests(c) BY <1>2, <1>7, <4>2, <4>3, WalkSearches
        <4>5. QED BY <1>5, <3>1, <4>4
      <3>4. QED BY <3>2, <3>3
    <2>3. QED BY <1>7, <2>1, <2>2 DEF Walk
  <1>8. ASSUME NEW d \in Client, SearchRetained(d) PROVE RetainedDueOK(c)'
    <2>1. CASE d = c BY <1>3, <1>8, <2>1, LoadKidDue, LoadRetainedDue, RangeChildrenDue DEF SearchRetained
    <2>2. CASE d # c
      <3>1. Rests(c) BY <1>2, <1>8, <2>2, CollectSearches
      <3>2. want' = want /\ kept' = kept BY <1>8, CollectMoves DEF clientVars
      <3>3. QED BY <1>5, <3>1, <3>2
    <2>3. QED BY <2>1, <2>2
  <1>9. ASSUME NEW p \in Publisher, Search(p) PROVE RetainedDueOK(c)'
    <2>1. Rests(c) BY <1>2, <1>9, Apartness, SearchSearches
    <2>2. want' = want /\ kept' = kept
      BY <1>9, Zenon DEF Search, LoadLevel, TakeSubscribers, Deliver, walkVars, clientVars
    <2>3. QED BY <1>5, <2>1, <2>2
  <1>10. ASSUME Environment PROVE RetainedDueOK(c)'
    <2>1. Rests(c) /\ due'[c] \subseteq due[c] BY <1>10, EnvironmentSearches DEF Rests
    <2>2. ASSUME NEW d \in Client, NEW f \in Filter, Subscribe(d, f) PROVE RetainedDueOK(c)'
      <3>1. Request(d, "subscribe", f, "raise") /\ kept' = kept BY <2>2 DEF Subscribe
      <3>2. QED BY <1>4, <2>1, <3>1, RequestDue
    <2>3. ASSUME NEW d \in Client, NEW f \in Filter, UnSubscribe(d, f) PROVE RetainedDueOK(c)'
      <3>1. Request(d, "unsubscribe", f, "seek") /\ kept' = kept BY <2>3 DEF UnSubscribe
      <3>2. QED BY <1>4, <2>1, <3>1, RequestDue
    <2>4. ASSUME NEW t \in Topic, NEW o, NEW m, Retain(t, o, m) PROVE RetainedDueOK(c)'
      BY <1>4, <2>1, <2>4, RetainDue
    <2>5. ASSUME NEW p \in Publisher, NEW t \in Topic, Publish(p, t) PROVE RetainedDueOK(c)'
      <3>1. want' = want /\ kept' = kept BY <2>5 DEF Publish, walkVars
      <3>2. QED BY <1>5, <2>1, <3>1
    <2>6. QED BY <1>10, <2>2, <2>3, <2>4, <2>5 DEF Environment
  <1>11. CASE UNCHANGED vars
    <2>1. Rests(c) /\ want' = want /\ kept' = kept BY <1>11 DEF vars, searchVars, walkVars, clientVars, Rests
    <2>2. QED BY <1>5, <2>1
  <1>12. CASE Next
    BY <1>6, <1>7, <1>8, <1>9, <1>10, <1>11, <1>12, Zenon DEF Next, Quiet
  <1>13. QED BY <1>11, <1>12
-----------------------------------------------------------------------------
(* The invariant of the searches *)

SearchOK ==
  /\ SearchTypes /\ HeldOK /\ LooksOK /\ NotedOK
  /\ \A p \in Publisher : PublisherOK(p)
  /\ \A c \in Client : ClientOK(c)
DuesOK == ~mixed => (\A p \in Publisher : DueOK(p)) /\ (\A c \in Client : RetainedDueOK(c))

LEMMA InitSearch ==
  ASSUME Init
  PROVE  SearchOK /\ DuesOK
  <1>1. SearchTypes BY DEF Init, SearchTypes
  <1>2. \A n \in Node : subs[n] = {} /\ retained[n] = None BY DEF Init
  <1>3. \A w \in Walker : pc[w] = "idle" /\ op[w] = "none" BY DEF Init
  <1>4. \A s \in Searcher : todo[s] = <<>> /\ found[s] = {} /\ due[s] = {} BY DEF Init
  <1>5. HeldOK BY <1>2 DEF HeldOK
  <1>6. LooksOK BY <1>3 DEF LooksOK, LooksAt, Removes
  <1>7. NotedOK
    <2>1. Retainer \in Walker BY Apartness
    <2>2. op[Retainer] \notin {"store", "replace"} BY <1>3, <2>1
    <2>3. QED BY <1>2, <2>2 DEF NotedOK, Reach
  <1>8. ASSUME NEW p \in Publisher PROVE PublisherOK(p) /\ DueOK(p)
    <2>1. p \in Searcher /\ topic[p] = <<>> BY Apartness DEF Init
    <2>2. todo[p] = <<>> /\ found[p] = {} /\ due[p] = {} BY <1>4, <2>1
    <2>3. <<>> \in Seq(PubItem) BY ItemsZero
    <2>4. QED BY <2>1, <2>2, <2>3 DEF PublisherOK, DueOK
  <1>9. ASSUME NEW c \in Client PROVE ClientOK(c) /\ RetainedDueOK(c)
    <2>1. c \in Searcher /\ c \in Walker BY Apartness
    <2>2. todo[c] = <<>> /\ found[c] = {} /\ due[c] = {} /\ pc[c] = "idle" BY <1>3, <1>4, <2>1
    <2>3. <<>> \in Seq(ClientItem) BY ItemsZero
    <2>4. QED BY <2>2, <2>3 DEF ClientOK, RetainedDueOK
  <1>10. QED BY <1>1, <1>5, <1>6, <1>7, <1>8, <1>9 DEF SearchOK, DuesOK

LEMMA NextSearch ==
  ASSUME IInv, SearchOK, Plain, [Next]_vars
  PROVE  SearchOK'
  <1>1. /\ SearchTypes /\ HeldOK /\ LooksOK /\ NotedOK
        /\ \A p \in Publisher : PublisherOK(p)
        /\ \A c \in Client : ClientOK(c)
    BY DEF SearchOK
  <1>2. SearchTypes'
    <2>1. CASE UNCHANGED vars BY <1>1, <2>1 DEF vars, searchVars, SearchTypes
    <2>2. CASE Next
      BY <1>1, <2>1, <2>2, WalkSearches, CollectSearches, SearchSearches, EnvironmentSearches, Zenon DEF Next, Quiet
    <2>3. QED BY <2>1, <2>2
  <1>3. HeldOK' BY <1>1, NextMoves, HeldKept
  <1>4. LooksOK' BY <1>1, NextLooks
  <1>5. NotedOK' BY <1>1, NextNoted
  <1>6. ASSUME NEW p \in Publisher PROVE PublisherOK(p)' BY <1>1, NextPublisher
  <1>7. ASSUME NEW c \in Client PROVE ClientOK(c)' BY <1>1, NextClient
  <1>8. QED BY <1>2, <1>3, <1>4, <1>5, <1>6, <1>7 DEF SearchOK

LEMMA NextDues ==
  ASSUME IInv, IInv', Undisturbed, Undisturbed', SearchOK, DuesOK, Plain, [Next]_vars
  PROVE  DuesOK'
  <1>1. ASSUME ~mixed' PROVE ~mixed
    BY <1>1, NextUnmixed
  <1>2. ASSUME ~mixed' PROVE (\A p \in Publisher : DueOK(p)') /\ (\A c \in Client : RetainedDueOK(c)')
    <2>1. Apart /\ Apart' BY <1>1, <1>2 DEF Undisturbed
    <2>2. (\A p \in Publisher : DueOK(p)) /\ (\A c \in Client : RetainedDueOK(c)) BY <1>1, <1>2 DEF DuesOK
    <2>3. ASSUME NEW p \in Publisher PROVE DueOK(p)' BY <2>1, <2>2, NextDue DEF SearchOK
    <2>4. ASSUME NEW c \in Client PROVE RetainedDueOK(c)' BY <2>1, <2>2, NextRetainedDue DEF SearchOK
    <2>5. QED BY <2>3, <2>4
  <1>3. QED BY <1>2 DEF DuesOK

LEMMA FindsAllHolds ==
  ASSUME SearchOK, DuesOK
  PROVE  FindsAll
  <1>1. ASSUME NEW p \in Publisher
        PROVE  found[p] \subseteq may[p] /\ (todo[p] = <<>> /\ ~mixed => due[p] \subseteq found[p])
    <2>1. found[p] \subseteq may[p] BY DEF SearchOK, PublisherOK
    <2>2. ASSUME todo[p] = <<>>, ~mixed PROVE due[p] \subseteq found[p]
      <3>1. Items(todo[p]) = {} BY <2>2, ItemsNone, ItemsZero
      <3>2. QED BY <2>2, <3>1 DEF DuesOK, DueOK
    <2>3. QED BY <2>1, <2>2
  <1>2. ASSUME NEW c \in Client
        PROVE  found[c] \subseteq may[c] /\ (todo[c] = <<>> /\ ~mixed => due[c] \subseteq found[c])
    <2>1. found[c] \subseteq may[c] BY DEF SearchOK, ClientOK
    <2>2. ASSUME todo[c] = <<>>, ~mixed PROVE due[c] \subseteq found[c]
      <3>1. Items(todo[c]) = {} BY <2>2, ItemsNone, ItemsZero
      <3>2. QED BY <2>2, <3>1 DEF DuesOK, RetainedDueOK
    <2>3. QED BY <2>1, <2>2
  <1>3. QED BY <1>1, <1>2 DEF FindsAll, Searcher

\* A publish goes to those only who had, at some moment of the search, a subscription
\* that matches, and, unless an insertion and a removal overlap, to all who had one
\* during the whole search, whatever is inserted or removed elsewhere meanwhile; so
\* with the retained messages a new subscription is answered with (node.go:204-351,
\* topics.go:239-283). It holds where the code takes filters as the specification
\* does, see Plain.
THEOREM FindsAllCorrect ==
  ASSUME Plain
  PROVE  Spec => []FindsAll
  <1>1. Init => SearchOK /\ DuesOK BY InitSearch
  <1>2. IInv /\ SearchOK /\ [Next]_vars => SearchOK' BY NextSearch
  <1>3. /\ IInv /\ IInv' /\ Undisturbed /\ Undisturbed' /\ SearchOK /\ DuesOK /\ [Next]_vars => DuesOK'
    BY NextDues
  <1>4. SearchOK /\ DuesOK => FindsAll BY FindsAllHolds
  <1>5. QED BY <1>1, <1>2, <1>3, <1>4, Invariant, ApartCorrect, PTL DEF Spec
=============================================================================
