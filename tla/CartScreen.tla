----------------------------- MODULE CartScreen -----------------------------
(***************************************************************************)
(* The build screen (frontend/index.html): the cart of the browser, the    *)
(* requests that change it or have it validated, and the verdict and the   *)
(* button that show what came back.  Requests are answered in any order,   *)
(* or fail; the handlers of the browser run one at a time.                 *)
(***************************************************************************)
EXTENDS Naturals, FiniteSets

CONSTANTS
  Items,         \* components on the screen
  Formats,       \* those of the table format
  Templates,     \* templates of the gallery
  Goals,         \* the classic goals, which are shown in their place
  CartOf,        \* [Templates and goals -> the items the server has for them]
  Default,       \* the recommended cart when neither a template nor a goal is chosen
  CompleteCarts, \* the carts that validate_cart calls complete and compatible
  MaxRequests,   \* bound: validations that are asked for
  MaxFlying      \* bound: requests under way

ScreenAssumption ==
  /\ Formats \subseteq Items /\ Default \subseteq Items /\ CartOf \in [Templates \cup Goals -> SUBSET Items]
  /\ CompleteCarts \subseteq SUBSET Items /\ MaxRequests \in Nat /\ MaxFlying \in Nat

None == "none"

VARIABLES
  cart,       \* state.cart
  chosen,     \* the template or the goal, one of state.template and state.goal
  cartReq,    \* state._cartReq
  flying,     \* validations under way: number and cart
  fetches,    \* what else was asked for: a template, or the recommended cart
  shown,      \* the cart of state.cartValidation
  enabled     \* the Continue button

screenVars == <<cart, chosen, cartReq, flying, fetches, shown, enabled>>

ScreenInit ==
  /\ cart = {} /\ chosen = None /\ cartReq = 0
  /\ flying = {} /\ fetches = {} /\ shown = {} /\ enabled = FALSE

Room == Cardinality(flying) + Cardinality(fetches) < MaxFlying

(* refreshCartValidation, called in the handler that changed the cart.     *)
Changes(to) ==
  /\ cartReq < MaxRequests /\ Room
  /\ cart' = to
  /\ cartReq' = cartReq + 1
  /\ flying' = flying \cup {[n |-> cartReq', cart |-> to]}

(* The add and remove buttons of the catalog and of the details.           *)
Toggle(x) ==
  /\ Changes(IF x \in cart THEN cart \ {x} ELSE cart \cup {x})
  /\ UNCHANGED <<chosen, fetches, shown, enabled>>

ResetCart ==
  /\ Changes({})
  /\ UNCHANGED <<chosen, fetches, shown, enabled>>

(* A goal that is not the one that was chosen begins with an empty cart.   *)
PickGoal(g) ==
  /\ Changes(IF chosen = g THEN cart ELSE {})
  /\ chosen' = g
  /\ UNCHANGED <<fetches, shown, enabled>>

Asks(f) ==
  /\ Room
  /\ fetches' = fetches \cup {f}
  /\ UNCHANGED <<cart, chosen, cartReq, flying, shown, enabled>>

PickTemplate(t) == Asks([what |-> "template", of |-> t])

AskRecommended == Asks([what |-> "recommended", of |-> chosen])

(* The template leaves the choice of the table format to the user; the     *)
(* recommended cart has it.  Both replace what is in the cart by then.     *)
Arrives(f) ==
  /\ f \in fetches
  /\ cartReq < MaxRequests
  /\ fetches' = fetches \ {f}
  /\ cartReq' = cartReq + 1
  /\ cart' = CASE f.what = "template" -> CartOf[f.of] \ Formats
               [] f.what = "recommended" /\ f.of # None -> CartOf[f.of]
               [] f.what = "recommended" /\ f.of = None -> Default
  /\ flying' = flying \cup {[n |-> cartReq', cart |-> cart']}
  /\ chosen' = IF f.what = "template" THEN f.of ELSE chosen
  /\ UNCHANGED <<shown, enabled>>

FetchFails(f) ==
  /\ f \in fetches
  /\ fetches' = fetches \ {f}
  /\ UNCHANGED <<cart, chosen, cartReq, flying, shown, enabled>>

(* Mutant: whatever comes is shown. *)
Superseded_Never(r) == FALSE

(* "newer request superseded us". *)
Superseded(r) == r.n # cartReq

Answered(r) ==
  /\ r \in flying
  /\ flying' = flying \ {r}
  /\ IF Superseded(r)
     THEN UNCHANGED <<shown, enabled>>
     ELSE shown' = r.cart /\ enabled' = (r.cart \in CompleteCarts)
  /\ UNCHANGED <<cart, chosen, cartReq, fetches>>

(* A failure disables the button and leaves the verdict.                   *)
Failed(r) ==
  /\ r \in flying
  /\ flying' = flying \ {r}
  /\ enabled' = (enabled /\ Superseded(r))
  /\ UNCHANGED <<cart, chosen, cartReq, fetches, shown>>

ScreenNext ==
  \/ \E x \in Items : Toggle(x)
  \/ ResetCart \/ AskRecommended
  \/ \E t \in Templates : PickTemplate(t)
  \/ \E g \in Goals : PickGoal(g)
  \/ \E f \in fetches : Arrives(f) \/ FetchFails(f)
  \/ \E r \in flying : Answered(r) \/ Failed(r)

ScreenSpec == ScreenInit /\ [][ScreenNext]_screenVars

-----------------------------------------------------------------------------
(* Properties *)

ScreenTypeOK ==
  /\ cart \subseteq Items /\ shown \subseteq Items /\ chosen \in Templates \cup Goals \cup {None}
  /\ cartReq \in 0..MaxRequests /\ enabled \in BOOLEAN
  /\ flying \subseteq [n : 1..MaxRequests, cart : SUBSET Items]
  /\ fetches \subseteq [what : {"template", "recommended"}, of : Templates \cup Goals \cup {None}]

(* "only the most recent in-flight validation result wins": once the       *)
(* newest validation has been answered, the verdict is the one of the cart *)
(* and the button lets no other cart through; if it failed, none goes on.  *)
SettledOnTheCart ==
  (enabled /\ \A r \in flying : r.n # cartReq) => shown = cart /\ cart \in CompleteCarts

(* The button is only pressed for the cart it was enabled for.  Between a  *)
(* change and its answer it still stands as the last answer left it.       *)
ButtonIsOfTheCart == enabled => cart \in CompleteCarts
=============================================================================
