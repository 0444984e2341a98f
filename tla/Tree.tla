-------------------------------- MODULE Tree --------------------------------
(* The balanced search tree of src/include/tree.h, pointers, sizes and heights
   included, in a program with one thread: each call is one step.

   There is at most one node for a key, so a node is named by its key; node[k] holds
   the fields of the node of key k, or NULL.  The recursive walk down to a key becomes the
   sequence Way, and what the code does on the way back up is folded over it. *)
EXTENDS Integers, FiniteSets, Sequences

LOCAL INSTANCE SequencesExt

CONSTANTS Keys,              \* numbers
          Values, NULL,
          Inserts,           \* the pairs of a key and a value that the program inserts
          Combine(_, _),     \* the update function the program may set
          DefaultOrder,      \* the order that comp.h has for the type of the keys, or NULL
          Histories          \* the sequences of keys that may have been inserted before

ASSUME TreeAssumption == /\ Keys \subseteq Int
                         /\ Inserts \subseteq Keys \X Values
                         /\ DefaultOrder \in {1, -1, NULL}
                         /\ Histories \subseteq Seq(Keys)

VARIABLES tree,      \* the tree, or NULL
          reply      \* the last call, its result, and the values it freed, by key

vars == <<tree, reply>>

Nothing == [k \in {} |-> NULL]

Reply(call, result, freed) == [call |-> call, result |-> result, freed |-> freed]

Fresh == [root |-> NULL, node |-> [k \in Keys |-> NULL], comp |-> DefaultOrder,
          update |-> FALSE, value_free |-> FALSE]

Nodes(t) == {k \in Keys : t.node[k] # NULL}

ValueOf(t) == [k \in Nodes(t) |-> t.node[k].value]

-----------------------------------------------------------------------------
(* Balancing.  h is a function like tree.node.  The operators that may change the
   root of a subtree return the new h and the new root, top. *)

Subtree(h, top) == [node |-> h, top |-> top]

Other(side) == IF side = "left" THEN "right" ELSE "left"

Height(h, n) == IF n = NULL THEN 0 ELSE h[n].height
Size(h, n) == IF n = NULL THEN 0 ELSE h[n].size

Higher(h, n, side) == Height(h, h[n][side]) - Height(h, h[n][Other(side)])

FillIn(h, n) ==
  LET l == h[n].left
      r == h[n].right
  IN  [h EXCEPT ![n].size = 1 + Size(h, l) + Size(h, r),
                ![n].height = 1 + IF Height(h, l) > Height(h, r) THEN Height(h, l) ELSE Height(h, r)]

SetParent(h, n, p) == IF n = NULL THEN h ELSE [h EXCEPT ![n].parent = p]

\* Mutant: the inner subtree keeps its parent.
TurnKeepsParent(h, n, m, side) ==
  LET b == h[m][Other(side)]
      lowered == FillIn([h EXCEPT ![n][side] = b, ![n].parent = m], n)
  IN  Subtree([lowered EXCEPT ![m][Other(side)] = n, ![m].parent = NULL], m)

(* m, from below n on one side, takes the place of n; n gets the inner subtree of m.
   The size and the height of m are filled in by the caller. *)
Turn(h, n, m, side) ==
  LET b == h[m][Other(side)]
      lowered == FillIn([h EXCEPT ![n][side] = b, ![n].parent = m], n)
  IN  Subtree([SetParent(lowered, b, n) EXCEPT ![m][Other(side)] = n, ![m].parent = NULL], m)

\* Mutant: the inner subtree is not looked at.
RotateOnce(h, n, side) == Turn(h, n, h[n][side], side)

(* rotate_right (side left) and rotate_left, with more = true: when the inner
   subtree of m is the higher one, m is rotated the other way first. *)
Rotate(h, n, side) ==
  LET m == h[n][side]
      other == Other(side)
  IN  IF Higher(h, m, side) < 0
      THEN LET inner == Turn(h, m, h[m][other], other)
           IN  Turn(inner.node, n, inner.top, side)
      ELSE Turn(h, n, m, side)

Balance(h, n) == IF Higher(h, n, "left") >= 2 THEN Rotate(h, n, "left")
                 ELSE IF Higher(h, n, "right") >= 2 THEN Rotate(h, n, "right")
                 ELSE Subtree(h, n)

Rebalanced(h, n) == LET s == Balance(h, n)
                    IN  Subtree(FillIn(s.node, s.top), s.top)

-----------------------------------------------------------------------------
(* Finding *)

Side(t, k, n) == IF t.comp * k < t.comp * n THEN "left" ELSE "right"

Depths == 0 .. Cardinality(Keys)

(* The steps of a walk from x on, each got from the one before by Go, which ends it
   with NULL. *)
Chain(x, Go(_)) ==
  LET Append1(walk, i) == LET next == IF walk = <<>> THEN x ELSE Go(Last(walk))
                          IN  IF Len(walk) = i - 1 /\ next # NULL THEN Append(walk, next) ELSE walk
  IN  FoldLeft(Append1, <<>>, [i \in 1 .. Cardinality(Keys) |-> i])

(* From the root to the node of k, or to where it would be. *)
Way(t, k) == Chain(t.root, LAMBDA n : IF n = k THEN NULL ELSE t.node[n][Side(t, k, n)])

Found(t, k) == \E i \in DOMAIN Way(t, k) : Way(t, k)[i] = k

(* The nodes from n on along one side; the last is the smallest or largest. *)
Along(h, n, side) == Chain(n, LAMBDA m : h[m][side])

-----------------------------------------------------------------------------
(* Changing.  Climb goes back up a way: the subtree s, which may have a new root,
   becomes the child of the node above, which is rebalanced. *)

Climb(s, way, SideOf(_)) ==
  LET Link(below, n) ==
        Rebalanced(SetParent([below.node EXCEPT ![n][SideOf(n)] = below.top], below.top, n), n)
  IN  FoldLeft(Link, s, Reverse(way))

Rooted(t, s) == [t EXCEPT !.node = SetParent(s.node, s.top, NULL), !.root = s.top]

NewNode == [value |-> NULL, size |-> 1, height |-> 1, left |-> NULL, right |-> NULL, parent |-> NULL]

Added(t, k, v) ==
  LET h == [t.node EXCEPT ![k] = [NewNode EXCEPT !.value = v]]
  IN  Rooted(t, Climb(Subtree(h, k), Way(t, k), LAMBDA n : Side(t, k, n)))

(* insert without memory: the last call of the recursion comes back with no node, each one
   before it with its own, which it has not touched, and the root is not set. *)
NotAdded(t, k) ==
  LET Unwind(below, n) == Subtree(below.node, n)
  IN  [t EXCEPT !.node = FoldLeft(Unwind, Subtree(t.node, NULL), Reverse(Way(t, k))).node]

(* delete_min_node (side left) and delete_max_node: the subtree without its last
   node on that side. *)
WithoutLast(h, n, side) ==
  LET way == Along(h, n, side)
  IN  Climb(Subtree(h, h[Last(way)][Other(side)]), Front(way), LAMBDA m : side)

(* delete_node at the node itself: what takes its place. *)
Replacement(h, n) ==
  IF h[n].left = NULL THEN Subtree(h, h[n].right)
  ELSE IF h[n].right = NULL THEN Subtree(h, h[n].left)
  ELSE LET m == Last(Along(h, h[n].right, "left"))
           rest == WithoutLast(h, h[n].right, "left")
           moved == [rest.node EXCEPT ![m].left = h[n].left, ![m].right = rest.top]
       IN  Rebalanced(SetParent(SetParent(moved, h[n].left, m), rest.top, m), m)

Freed(t, k) == [t EXCEPT !.node[k] = NULL]

Removed(t, k) ==
  Freed(Rooted(t, Climb(Replacement(t.node, k), Front(Way(t, k)), LAMBDA n : Side(t, k, n))), k)

Entry(t, k) == <<k, t.node[k].value>>

-----------------------------------------------------------------------------
(* The calls that change the tree *)

Init == /\ \E keys \in Histories :
              tree = FoldLeft(LAMBDA t, k : Added(t, k, k), Fresh, keys)
        /\ reply = Reply(<<"none">>, 0, Nothing)

Create == /\ tree = NULL
          /\ tree' = Fresh
          /\ reply' = Reply(<<"set_comp">>, 0, Nothing)

Destroy == /\ tree # NULL
           /\ tree' = NULL
           /\ reply' = Reply(<<"destroy">>, 0,
                             IF tree.value_free THEN ValueOf(tree) ELSE Nothing)

\* Mutant: the order may be changed at any time.
SetCompAnyTime(c) ==
  /\ tree # NULL
  /\ tree' = [tree EXCEPT !.comp = c]
  /\ reply' = Reply(<<"set_comp">>, 0, Nothing)

SetComp(c) ==
  /\ tree # NULL
  /\ IF tree.root # NULL THEN reply' = Reply(<<"set_comp">>, -1, Nothing) /\ UNCHANGED tree
     ELSE reply' = Reply(<<"set_comp">>, 0, Nothing) /\ tree' = [tree EXCEPT !.comp = c]

SetUpdate(b) == /\ tree # NULL
                /\ tree' = [tree EXCEPT !.update = b]
                /\ reply' = Reply(<<"set">>, 0, Nothing)

SetValueFree(b) == /\ tree # NULL
                   /\ tree' = [tree EXCEPT !.value_free = b]
                   /\ reply' = Reply(<<"set">>, 0, Nothing)

Ready == tree # NULL /\ tree.comp # NULL

InsertNew(k, v) == /\ Ready
                   /\ ~Found(tree, k)
                   /\ tree' = Added(tree, k, v)
                   /\ reply' = Reply(<<"insert", k, v>>, 0, Nothing)

InsertFound(k, v) ==
  /\ Ready
  /\ Found(tree, k)
  /\ tree' = [tree EXCEPT !.node[k].value = IF tree.update THEN Combine(@, v) ELSE v]
  /\ reply' = Reply(<<"insert", k, v>>, 0,
                    IF tree.value_free /\ ~tree.update THEN [l \in {k} |-> tree.node[k].value]
                    ELSE Nothing)

(* no tree or no compare function, or no memory for a node *)
InsertFails(k, v) == /\ Ready => ~Found(tree, k)
                     /\ tree' = IF Ready THEN NotAdded(tree, k) ELSE tree
                     /\ reply' = Reply(<<"insert", k, v>>, -1, Nothing)

Delete(k) == /\ Ready
             /\ Found(tree, k)
             /\ tree' = Removed(tree, k)
             /\ reply' = Reply(<<"delete", k>>, Entry(tree, k), Nothing)

DeleteAbsent(k) == /\ Ready => ~Found(tree, k)
                   /\ reply' = Reply(<<"delete", k>>, NULL, Nothing)
                   /\ UNCHANGED tree

(* delete_min (side left) and delete_max *)
DeleteLast(side, call) ==
  /\ tree # NULL
  /\ tree.root # NULL
  /\ LET k == Last(Along(tree.node, tree.root, side))
     IN  /\ tree' = Freed(Rooted(tree, WithoutLast(tree.node, tree.root, side)), k)
         /\ reply' = Reply(call, Entry(tree, k), Nothing)

DeleteFromEmpty == /\ tree # NULL => tree.root = NULL
                   /\ \E call \in {<<"delete_min">>, <<"delete_max">>} : reply' = Reply(call, NULL, Nothing)
                   /\ UNCHANGED tree

-----------------------------------------------------------------------------
(* The calls that only read *)

LastEntry(t, side) == IF t.root = NULL THEN NULL ELSE Entry(t, Last(Along(t.node, t.root, side)))

Retrieve(t, k) == IF Found(t, k) THEN Entry(t, k) ELSE NULL

(* num_less, num_less_equal (sign 1), num_greater and num_greater_equal (sign -1):
   the walk down counts the nodes it passes on one side, with their subtrees. *)
Count(t, k, sign, equal) ==
  LET near == IF sign = 1 THEN "left" ELSE "right"
      C(n) == sign * t.comp * (k - n)
      Weight(n) == IF C(n) < 0 THEN 0
                   ELSE Size(t.node, t.node[n][near]) + IF C(n) > 0 \/ equal THEN 1 ELSE 0
  IN  FoldLeft(LAMBDA total, n : total + Weight(n), 0,
               Chain(t.root, LAMBDA n : t.node[n][IF C(n) < 0 THEN near ELSE Other(near)]))

GetRank(t, rank) ==
  LET LeftSize(n) == Size(t.node, t.node[n].left)
      Go(x) == IF x[2] < LeftSize(x[1]) THEN <<t.node[x[1]].left, x[2]>>
               ELSE IF x[2] > LeftSize(x[1]) THEN <<t.node[x[1]].right, x[2] - LeftSize(x[1]) - 1>>
               ELSE NULL
  IN  IF rank >= Size(t.node, t.root) THEN NULL ELSE Entry(t, Last(Chain(<<t.root, rank>>, Go))[1])

(* next: the smallest node on the right, or the first node above of which this is
   on the left. *)
Next1(h, n) ==
  IF h[n].right # NULL THEN Last(Along(h, h[n].right, "left"))
  ELSE LET up == Along(h, n, "parent")
           turns == {i \in 1 .. Len(up) - 1 : h[up[i + 1]].left = up[i]}
       IN  IF turns = {} THEN NULL ELSE up[(CHOOSE i \in turns : \A j \in turns : i <= j) + 1]

Walk(t) == Chain(IF t.root = NULL THEN NULL ELSE Last(Along(t.node, t.root, "left")),
                 LAMBDA n : Next1(t.node, n))

(* first_from: the last node on the way to k that does not come before it. *)
WalkFrom(t, k) ==
  LET best == SelectSeq(Way(t, k), LAMBDA n : t.comp * k <= t.comp * n)
  IN  Chain(IF best = <<>> THEN NULL ELSE Last(best), LAMBDA n : Next1(t.node, n))

PostDescent(h, n) ==
  Last(Chain(n, LAMBDA m : IF h[m].left # NULL THEN h[m].left ELSE h[m].right))

\* Mutant: not asked whether n is the left child.
PostNextAnyChild(h, n) == LET p == h[n].parent
                          IN  IF p # NULL /\ h[p].right # NULL THEN PostDescent(h, h[p].right) ELSE p

PostNext(h, n) == LET p == h[n].parent
                  IN  IF p # NULL /\ n = h[p].left /\ h[p].right # NULL
                      THEN PostDescent(h, h[p].right) ELSE p

PostWalk(t) == Chain(IF t.root = NULL THEN NULL ELSE PostDescent(t.node, t.root),
                     LAMBDA n : PostNext(t.node, n))

Ask ==
  /\ Ready
  /\ reply' = Reply(<<"ask">>,
       [retrieve |-> [k \in Keys |-> Retrieve(tree, k)],
        retrieve_min |-> LastEntry(tree, "left"),
        retrieve_max |-> LastEntry(tree, "right"),
        size |-> Size(tree.node, tree.root),
        height |-> Height(tree.node, tree.root),
        num_less |-> [k \in Keys |-> Count(tree, k, 1, FALSE)],
        num_less_equal |-> [k \in Keys |-> Count(tree, k, 1, TRUE)],
        num_greater |-> [k \in Keys |-> Count(tree, k, -1, FALSE)],
        num_greater_equal |-> [k \in Keys |-> Count(tree, k, -1, TRUE)],
        get_rank |-> [r \in 0 .. Cardinality(Keys) |-> GetRank(tree, r)],
        walk |-> Walk(tree),
        walk_from |-> [k \in Keys |-> WalkFrom(tree, k)]], Nothing)
  /\ UNCHANGED tree

-----------------------------------------------------------------------------
Next == \/ Create \/ Destroy \/ DeleteFromEmpty \/ Ask
        \/ \E c \in {1, -1, NULL} : SetComp(c)
        \/ \E b \in BOOLEAN : SetUpdate(b) \/ SetValueFree(b)
        \/ \E p \in Inserts : InsertNew(p[1], p[2]) \/ InsertFound(p[1], p[2]) \/ InsertFails(p[1], p[2])
        \/ \E k \in Keys : Delete(k) \/ DeleteAbsent(k)
        \/ DeleteLast("left", <<"delete_min">>)
        \/ DeleteLast("right", <<"delete_max">>)

Spec == Init /\ [][Next]_vars

-----------------------------------------------------------------------------
(* Properties *)

\* The tree has the fields of the struct, and so has every node.
TypeOK ==
  tree # NULL =>
    /\ tree.root \in Keys \cup {NULL}
    /\ tree.comp \in {1, -1, NULL}
    /\ {tree.update, tree.value_free} \subseteq BOOLEAN
    /\ DOMAIN tree.node = Keys
    /\ \A k \in Nodes(tree) :
          /\ tree.node[k].value \in Values
          /\ {tree.node[k].left, tree.node[k].right, tree.node[k].parent}
               \subseteq Nodes(tree) \cup {NULL}

\* After every call, with all its rotations, no link leads out of the tree, and the links
\* down and up agree: each node but the root is a child of its parent, and a parent of
\* its children.
Linked ==
  /\ TypeOK
  /\ tree # NULL =>
       LET h == tree.node
           parents == [k \in Nodes(tree) |-> {p \in Nodes(tree) : k \in {h[p].left, h[p].right}}]
       IN  /\ tree.root = NULL <=> Nodes(tree) = {}
           /\ \A k \in Nodes(tree) : parents[k] = IF k = tree.root THEN {} ELSE {h[k].parent}
           /\ tree.root # NULL => h[tree.root].parent = NULL

\* The heights of the two subtrees of a node differ by at most one, and the heights
\* and sizes that are stored in the nodes are the true ones.
Balanced ==
  tree # NULL =>
    \A k \in Nodes(tree) :
      /\ Higher(tree.node, k, "left") \in -1 .. 1
      /\ FillIn(tree.node, k) = tree.node

\* A post-order walk meets every node once, and the children before their parent.
ChildrenFirst ==
  tree # NULL =>
    LET walk == PostWalk(tree)
    IN  /\ Len(walk) = Cardinality(Nodes(tree))
        /\ \A i, j \in DOMAIN walk : tree.node[walk[i]].parent = walk[j] => i < j

\* The tree is an ordered map: what the removing calls take out, what can be
\* retrieved by key or rank, the counts and the walks are those of the set of
\* entries in the order of the compare function; values are freed only when they
\* leave the tree by replacement or destruction.
Map == INSTANCE OrderedMap WITH
         map <- IF tree = NULL THEN Nothing ELSE ValueOf(tree),
         order <- IF tree = NULL THEN DefaultOrder ELSE tree.comp,
         update <- tree # NULL /\ tree.update,
         frees <- tree # NULL /\ tree.value_free

ImplementsOrderedMap == Map!Spec
=============================================================================
