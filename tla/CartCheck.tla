------------------------------ MODULE CartCheck ------------------------------
(***************************************************************************)
(* What the three checkers say of a cart of components: validate_cart      *)
(* (backend/cart.py), which the build screen asks; check_cart              *)
(* (backend/compat_check.py), which marries a cart into a stack; and       *)
(* explain_cart (backend/compat_explainer.py).  The catalog and the locks  *)
(* of the stacks are data; the reading of the two is repeated in the two   *)
(* last modules, and the verdicts have to go together.                     *)
(*                                                                         *)
(* Scores of readiness, headlines and reasons are left out.                *)
(***************************************************************************)
EXTENDS Naturals, FiniteSets, Sequences, FiniteSetsExt, Functions

CONSTANTS
  CartIds,          \* component ids a cart may name
  Category,         \* component_index: [indexed ids -> category]
  CompatibleWith,   \* [indexed ids -> ids the catalog says it works with]
  Required,         \* the required categories, in the order of the catalog
  Recommended,      \* [categories -> the recommended pick of the UDP set, or "none"]
  Locks,            \* the locks in the order of their stack ids: status, the ids of
                    \* the components, and the incompatible combinations
  RecommendedSets,  \* the recommended sets in their order: stack and components
  Details           \* pairs <<id, an id that begins with id- >>

VARIABLE shopCart

Index == DOMAIN Category
CatalogStacks == DOMAIN Locks
NoStack == 0

SetsOf(s) == {i \in DOMAIN RecommendedSets : RecommendedSets[i].stack = s}

-----------------------------------------------------------------------------
(* Stacks *)

(* _stack_vocabulary: ids of the lock and of all its recommended sets.     *)
Vocabulary(s) == Locks[s].ids \cup UNION {RecommendedSets[i].components : i \in SetsOf(s)}

ASSUME CartAssumption ==
  /\ UNION {RecommendedSets[i].components : i \in DOMAIN RecommendedSets} \subseteq CartIds
  /\ CatalogStacks \subseteq Nat \ {NoStack}
  /\ \A s \in CatalogStacks : IsFiniteSet(Vocabulary(s))
  /\ Required \in Seq(DOMAIN Recommended)

(* The components of a stack are no combination that a lock rules out by   *)
(* their ids, unless the lock of that stack says so, too, and plainly.     *)
ASSUME LocksAssumption ==
  \A s, t \in CatalogStacks : \A e \in Locks[t].incompatible :
    (Len(e) >= 2 /\ \A i \in DOMAIN e : e[i].form # "tag" /\ e[i].id \in Vocabulary(s))
      => e \in Locks[s].incompatible /\ \A i \in DOMAIN e : e[i].form = "bare"

STATUS_PRIORITY ==
  [s \in CatalogStacks |->
     CASE Locks[s].status = "production" -> 4 [] Locks[s].status = "linux-stable" -> 3
       [] Locks[s].status = "pilot-stable" -> 2 [] Locks[s].status = "candidate" -> 1
       [] OTHER -> 0]

(* The candidates in their order: priority, size of the vocabulary, id.    *)
Ahead(s, t, p) ==
  LET n(u) == Cardinality(Vocabulary(u))
  IN p[s] > p[t] \/ (p[s] = p[t] /\ (n(s) < n(t) \/ (n(s) = n(t) /\ s <= t)))

BestOf(S, priority) ==
  IF S = {} THEN NoStack ELSE CHOOSE s \in S : \A t \in S : Ahead(s, t, priority)

-----------------------------------------------------------------------------
(* check_cart *)

(* A cart has to cover three fifths of the stack, and three components.    *)
Enough(s, c) ==
  LET floor == (6 * Cardinality(Vocabulary(s))) \div 10
  IN Cardinality(c) >= (IF floor > 3 THEN floor ELSE 3)

Married(c) ==
  BestOf({s \in CatalogStacks : c # {} /\ c \subseteq Vocabulary(s) /\ Enough(s, c)},
         STATUS_PRIORITY)

(* _check_incompatible: only combinations of bare ids can be told.         *)
Hits(s, c) ==
  {e \in Locks[s].incompatible :
     /\ e # <<>> /\ \A i \in DOMAIN e : e[i].form = "bare" /\ e[i].id \in c}

CheckCart(c) ==
  LET s == Married(c) IN
  CASE s = NoStack -> IF c = {} THEN "warning" ELSE "incompatible"
    [] s # NoStack /\ Hits(s, c) # {} -> "incompatible"
    [] s # NoStack /\ Hits(s, c) = {} ->
         IF Locks[s].status = "candidate" THEN "warning" ELSE "compatible"

-----------------------------------------------------------------------------
(* explain_cart *)

Trust ==
  [s \in CatalogStacks |->
     CASE Locks[s].status \in {"pilot-stable", "linux-stable", "production"} -> 2
       [] Locks[s].status = "candidate" -> 1
       [] OTHER -> 0]

(* Of several recommended sets of a stack the last one counts.             *)
RecommendedSet(s) ==
  IF SetsOf(s) = {} THEN {} ELSE RecommendedSets[Max(SetsOf(s))].components

ExactMatch(c) == BestOf({s \in CatalogStacks : c # {} /\ c \subseteq Vocabulary(s)}, Trust)

(* Every id of the recommended set is there, or a detail of it is.         *)
IsFullMatch(c, s) ==
  \A r \in RecommendedSet(s) \ c : \E d \in c \cap Vocabulary(s) : <<r, d>> \in Details

Linked(a, b) == b \in CompatibleWith[a] \/ a \in CompatibleWith[b]

DirectBinding ==
  {{"table_format", "catalog"}, {"table_format", "processing"},
   {"catalog", "processing"}, {"catalog", "serving"}}

(* Mutant: that a stack hosts both is not asked. *)
CoexistInAnyStack_Never(a, b) == FALSE

CoexistInAnyStack(a, b) == \E s \in CatalogStacks : {a, b} \subseteq Vocabulary(s)

(* Mutant: a third component that works with both will do for a binding.   *)
PairIncompatible_Bridged(c) ==
  {p \in c \X c :
     LET a == p[1]  b == p[2] IN
     /\ {a, b} \subseteq Index /\ {Category[a], Category[b]} \in DirectBinding
     /\ ~Linked(a, b) /\ ~CoexistInAnyStack(a, b)
     /\ ~\E x \in c \cap Index : Linked(a, x) /\ Linked(x, b)}

(* Pairs that need a binding, have none, and are in no stack together.     *)
PairIncompatible(c) ==
  {p \in c \X c :
     LET a == p[1]  b == p[2] IN
     /\ {a, b} \subseteq Index /\ {Category[a], Category[b]} \in DirectBinding
     /\ ~Linked(a, b) /\ ~CoexistInAnyStack(a, b)}

(* Combinations of any lock, but for those of one id and those with a tag; *)
(* a tag that is prose is none, and prose stands for its first word.       *)
LockIncompatible(c) ==
  {e \in UNION {Locks[s].incompatible : s \in CatalogStacks} :
     Len(e) >= 2 /\ \A i \in DOMAIN e : e[i].form # "tag" /\ e[i].id \in c}

CategoriesOf(ids) == {Category[c] : c \in ids \cap Index}

(* What the matched stack does not fill itself is not missing.             *)
MissingCategories(c, s) ==
  LET required == {Required[i] : i \in DOMAIN Required}
      siblings == {r \in RecommendedSet(s) : \E d \in (c \cap Vocabulary(s)) \ Index :
                                               <<r, d>> \in Details}
  IN IF s = NoStack THEN required \ CategoriesOf(c)
     ELSE (required \ CategoriesOf(c \cup siblings)) \cap CategoriesOf(RecommendedSet(s))

ExplainCart(c) ==
  LET s == ExactMatch(c) IN
  CASE c = {} -> "untested"
    [] c # {} /\ (LockIncompatible(c) # {} \/ PairIncompatible(c) # {}) -> "wont_work"
    [] OTHER -> IF s # NoStack /\ MissingCategories(c, s) = {} /\ IsFullMatch(c, s)
                THEN "will_work" ELSE "untested"

-----------------------------------------------------------------------------
(* validate_cart *)

UDP_RECOMMENDED_SET == {"iceberg", "iceberg-rest", "minio", "spark-iceberg", "starrocks"}

Certified ==
  UDP_RECOMMENDED_SET
    \cup UNION {RecommendedSets[i].components : i \in DOMAIN RecommendedSets}

(* The places of the required categories that are not filled.              *)
Missing(c) == {i \in DOMAIN Required : Required[i] \notin CategoriesOf(c)}

Experimental(c) == c \ (Index \cap Certified)

Doubled(c) == {p \in c \X c : p[1] # p[2] /\ {p[1], p[2]} \subseteq Index
                              /\ Category[p[1]] = Category[p[2]]}

Valid(c) == Experimental(c) = {} /\ Doubled(c) = {}

Complete(c) == Missing(c) = {} /\ Experimental(c) = {}

(* The score, in required categories. *)
Score(c) == Len(Required) - Cardinality(Missing(c))

(* The recommendation for the first category that is missing.              *)
NextPick(c) ==
  IF Missing(c) = {} THEN "none" ELSE Recommended[Required[Min(Missing(c))]]

(* It is one of that category, and of the UDP set.                         *)
ASSUME RecommendedAssumption ==
  \A k \in DOMAIN Recommended : Recommended[k] # "none" =>
    Recommended[k] \in Index \cap UDP_RECOMMENDED_SET /\ Category[Recommended[k]] = k

-----------------------------------------------------------------------------
CartInit == shopCart = {}

Add(x) == x \notin shopCart /\ shopCart' = shopCart \cup {x}

Remove(x) == x \in shopCart /\ shopCart' = shopCart \ {x}

CartNext == \E x \in CartIds : Add(x) \/ Remove(x)

CartSpec == CartInit /\ [][CartNext]_shopCart

-----------------------------------------------------------------------------
(* Properties *)

(* A cart that check_cart finds compatible with a stack is not one that    *)
(* explain_cart says will not install, although the one looks at the lock  *)
(* of that stack and the other at all locks and at every pair.             *)
CheckersAgree == CheckCart(shopCart) = "compatible" => ExplainCart(shopCart) # "wont_work"

(* One more component never makes a cart work that could not be installed, *)
(* not even when the cart then matches another stack.                      *)
AddingNeverHeals ==
  (shopCart \subseteq shopCart' /\ ExplainCart(shopCart) = "wont_work")
    => ExplainCart(shopCart') = "wont_work"

(* "one-at-a-time recommendation (the next required pick)": following the  *)
(* recommendation keeps a valid cart valid and always fills a category, so *)
(* a shopper who only follows it ends with a complete cart.                *)
RecommendedPickHelps ==
  \A x \in shopCart' \ shopCart :
    (Valid(shopCart) /\ x = NextPick(shopCart) /\ x # "none" /\ shopCart' = shopCart \cup {x})
      => /\ Valid(shopCart')
         /\ Score(shopCart') > Score(shopCart)
         /\ Missing(shopCart') = {} => Complete(shopCart')

CartStepsAreSound == [][AddingNeverHeals /\ RecommendedPickHelps]_shopCart
=============================================================================
