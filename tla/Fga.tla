---------------------------------- MODULE Fga ----------------------------------
(***************************************************************************)
(* Fine-grained authorization (fga/config.ts): relationship tuples, the    *)
(* rules that let relations inherit, and the memoized check.               *)
(*                                                                         *)
(* A node is a relation on a resource.  A check reads the tuples of one    *)
(* node at a time, awaits each read, evaluates the nodes it finds in       *)
(* parallel, and enters no node twice and none beyond maxDepth.  Tuples    *)
(* are written between those reads, by this instance, whose cache is then  *)
(* cleared, and by others.                                                 *)
(***************************************************************************)
EXTENDS Naturals, FiniteSets

CONSTANTS
    Request,        \* slots for checks in flight together
    None,
    Node,           \* relations on resources
    Query,          \* nodes that are checked
    User,           \* subjects
    Computed,       \* computedUserset rules: <<node, node>>
    Via,            \* tupleToUserset rules: <<node, the node of the linking tuples>>
    Space,          \* the tuples that may be written: <<node, node or user>>
    Depths,         \* set of values of maxDepth
    MaxWrites       \* bound on the tuples written and deleted

VARIABLES
    maxDepth,       \* configuration
    warrants,       \* the warrant store
    cache,          \* <<node, user>> -> the cached answer, or None
    work,           \* checks and listings between two reads
    writing,        \* a write of this instance whose cache is not cleared yet
    writes,
    raced,          \* history: answers cached by a check that a write overlapped, and those
                    \* another instance has written past
    shallow         \* history: answers cached after maxDepth cut a path

vars == <<maxDepth, warrants, cache, work, writing, writes, raced, shallow>>
histories == <<raced, shallow>>

Key == Query \X User
Item == [node : Node, kind : {"self", "via"}, depth : Nat]
TypeOK ==
    /\ maxDepth \in Depths /\ warrants \subseteq Space
    /\ cache \in [Key -> BOOLEAN \cup {None}]
    /\ \A r \in Request : work[r] # None =>
         /\ work[r].key \in Query \X (User \cup {None}) /\ work[r].items \subseteq Item
         /\ work[r].visited \subseteq Node /\ work[r].found \subseteq User
         /\ work[r].raced \in BOOLEAN /\ work[r].cut \in BOOLEAN
    /\ writing \in BOOLEAN /\ writes \in 0 .. MaxWrites
    /\ raced \subseteq Key /\ shallow \subseteq Key

Init ==
    /\ maxDepth \in Depths /\ warrants \in SUBSET Space
    /\ cache = [k \in Key |-> None] /\ work = [r \in Request |-> None]
    /\ writing = FALSE /\ writes = 0 /\ raced = {} /\ shallow = {}

-----------------------------------------------------------------------------
(* evaluate and expand.                                                    *)

\* Where a rule of kind computedUserset leads to, and one of kind tupleToUserset looks for links.
ComputedInto(n) == {e[1] : e \in {e \in Computed : e[2] = n}}  \* defect: inherited backwards
ComputedFrom(n) == {e[2] : e \in {e \in Computed : e[1] = n}}
ViaOf(n) == {e[2] : e \in {e \in Via : e[1] = n}}

\* The depths at which nodes are entered in one step: those asked for, unless they were entered
\* before or the depth is used up, and those their rules of kind computedUserset lead to, as
\* nothing is awaited on the way.  Of two paths to a node the one that comes first decides.
Enter(t, nodes, depth) ==
    {d \in UNION {[E -> 1 .. depth] : E \in SUBSET ((nodes \cup {e[2] : e \in Computed}) \ t.visited)} :
        /\ depth > 0 => nodes \subseteq t.visited \cup DOMAIN d
        /\ \A n \in DOMAIN d :
              /\ \/ n \in nodes /\ d[n] = depth
                 \/ \E m \in DOMAIN d : n \in ComputedFrom(m) /\ d[m] = d[n] + 1
              /\ d[n] > 1 => ComputedFrom(n) \subseteq t.visited \cup DOMAIN d}
Entered(t, nodes, depth) ==
    {[t EXCEPT !.visited = @ \cup DOMAIN d,
               !.items = @ \cup {i \in [node : DOMAIN d, kind : {"self", "via"}, depth : 1 .. depth] :
                                    i.depth = d[i.node] /\ (i.kind = "via" => ViaOf(i.node) # {})},
               !.cut = @ \/ ~(nodes \cup UNION {ComputedFrom(n) : n \in DOMAIN d}
                                  \subseteq t.visited \cup DOMAIN d)] :
        d \in Enter(t, nodes, depth)}

Begin(r, key) ==
    /\ work[r] = None
    /\ \E t \in Entered([key |-> key, items |-> {}, visited |-> {}, found |-> {},
                         raced |-> FALSE, cut |-> FALSE], {key[1]}, maxDepth) :
           work' = [work EXCEPT ![r] = t]

\* check answers from the cache, or begins to evaluate; listSubjects always begins.
Check(r) ==
    /\ \E k \in Key : cache[k] = None /\ Begin(r, k)
    /\ UNCHANGED <<maxDepth, warrants, cache, writing, writes, histories>>
ListSubjects(r) ==
    /\ \E q \in Query : Begin(r, <<q, None>>)
    /\ UNCHANGED <<maxDepth, warrants, cache, writing, writes, histories>>

\* matchesSelf reads the tuples of the node: a direct one answers, usersets are evaluated.
ReadSelf(r) ==
    /\ work[r] # None
    /\ \E i \in work[r].items :
         LET read == {w[2] : w \in {w \in warrants : w[1] = i.node}}
             t == [work[r] EXCEPT !.items = @ \ {i}, !.found = @ \cup (read \cap User)] IN
         /\ i.kind = "self"
         /\ \E next \in IF t.key[2] \in read THEN {t} ELSE Entered(t, read \cap Node, i.depth - 1) :
                work' = [work EXCEPT ![r] = next]
    /\ UNCHANGED <<maxDepth, warrants, cache, writing, writes, histories>>

\* tupleToUserset reads the linking tuples, and evaluates the relation on what they name.
ReadLinks(r) ==
    /\ work[r] # None
    /\ \E i \in work[r].items :
         LET read == {w[2] : w \in {w \in warrants : w[1] \in ViaOf(i.node)}} \cap Node
             t == [work[r] EXCEPT !.items = @ \ {i}] IN
         /\ i.kind = "via"
         /\ \E next \in Entered(t, read, i.depth - 1) : work' = [work EXCEPT ![r] = next]
    /\ UNCHANGED <<maxDepth, warrants, cache, writing, writes, histories>>

\* A finished check stores its answer, whatever was written since it began.
Answer(r) ==
    LET t == work[r]
        k == t.key IN
    /\ t # None /\ (t.items = {} \/ k[2] \in t.found) /\ work' = [work EXCEPT ![r] = None]
    /\ IF k[2] = None THEN UNCHANGED <<cache, histories>>
       ELSE /\ cache' = [cache EXCEPT ![k] = k[2] \in t.found]
            /\ raced' = IF t.raced THEN raced \cup {k} ELSE raced \ {k}
            /\ shallow' = IF t.cut THEN shallow \cup {k} ELSE shallow \ {k}
    /\ UNCHANGED <<maxDepth, warrants, writing, writes>>

-----------------------------------------------------------------------------
(* Writes.                                                                 *)

Overlap == [r \in Request |-> IF work[r] = None THEN None ELSE [work[r] EXCEPT !.raced = TRUE]]
Changes == /\ writes < MaxWrites /\ writes' = writes + 1
           /\ \E w \in Space :
                warrants' = IF w \in warrants THEN warrants \ {w} ELSE warrants \cup {w}
           /\ work' = Overlap

\* writeWarrant and deleteWarrant: the store first, the cache of this instance after it.
WriteWarrant ==
    /\ ~writing /\ Changes /\ writing' = TRUE
    /\ UNCHANGED <<maxDepth, cache, histories>>
ClearedNot(c) == c                                    \* defect: the cache is kept
Cleared(c) == [k \in Key |-> None]
ClearCache ==
    /\ writing /\ writing' = FALSE /\ cache' = Cleared(cache)
    /\ UNCHANGED <<maxDepth, warrants, work, writes, histories>>

\* Another instance writes: this one does not hear of it.
ForeignWrite ==
    /\ Changes /\ raced' = Key
    /\ UNCHANGED <<maxDepth, cache, writing, shallow>>

\* An entry outlives its ttl, or is the oldest of a full cache.
ExpireEntry ==
    /\ \E k \in Key : cache[k] # None /\ cache' = [cache EXCEPT ![k] = None]
    /\ UNCHANGED <<maxDepth, warrants, work, writing, writes, histories>>

Next ==
    \/ \E r \in Request :
         Check(r) \/ ListSubjects(r) \/ ReadSelf(r) \/ ReadLinks(r) \/ Answer(r)
    \/ WriteWarrant \/ ClearCache \/ ForeignWrite \/ ExpireEntry

Spec == Init /\ [][Next]_vars

-----------------------------------------------------------------------------
(* Properties.                                                             *)

\* The nodes that grant the node: the least set closed under the rules and the tuples.
Leads(n) ==
    {m \in Node : <<n, m>> \in Computed} \cup
        ({w[2] : w \in {w \in warrants : w[1] \in {n} \cup ViaOf(n)}} \cap Node)
Holds(k) ==
    \A S \in SUBSET Node : k[1] \in S /\ (\A n \in S : Leads(n) \subseteq S) =>
        \E n \in S : <<n, k[2]>> \in warrants

\* Once the cache is cleared after a write, a cached answer is what the tuples and the rules
\* say, unless a write overlapped the check that stored it or another instance wrote since,
\* or the check was cut at maxDepth (check, deleteWarrant).
CacheFollowsWrites ==
    ~writing => \A k \in Key : cache[k] # None /\ k \notin raced \cup shallow =>
                                   cache[k] = Holds(k)

\* The depth limit and the visited nodes only withhold: whatever order the reads of one check
\* return in, a subject it finds, for check and for listSubjects, has the relation
\* (evaluate, expand).
FoundHolds ==
    \A r \in Request : work[r] # None /\ ~work[r].raced =>
        \A u \in work[r].found : Holds(<<work[r].key[1], u>>)

=============================================================================
