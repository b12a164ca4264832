---------------------------- MODULE StacksProofs ----------------------------
(***************************************************************************)
(* The verdict of the build screen is the one of its cart, for any items,  *)
(* templates, goals and complete carts, and any number of requests; the    *)
(* checkers agree about any cart, for any catalog that fits its locks; an  *)
(* install directory is whole for any overlays and any number of runs; a   *)
(* custom build is whole for any names, components, builds and losses; and *)
(* a harness certifies only what stood on its own.                         *)
(***************************************************************************)
EXTENDS CartScreen, CartCheck, InstallDirectory, CustomStack, InstallHarness,
        FiniteSetTheorems, WellFoundedInduction, TLAPS

-----------------------------------------------------------------------------
(* The build screen *)

(* The numbers of the validations under way are numbers that were given    *)
(* out, and the newest one asks about the cart as it is.                   *)
NewestIsOfTheCart ==
  \A r \in flying : r.n \in Nat /\ r.n <= cartReq /\ (r.n = cartReq => r.cart = cart)

Numbered == cartReq \in Nat /\ enabled \in BOOLEAN

ScreenInv == Numbered /\ NewestIsOfTheCart /\ SettledOnTheCart

(* Whatever changes the cart asks for a validation of it with a number of  *)
(* its own: the newest one is under way.                                   *)
LEMMA ChangeIsAsked ==
  ASSUME ScreenInv, UNCHANGED <<shown, enabled>>,
         cartReq' = cartReq + 1,
         flying' = flying \cup {[n |-> cartReq', cart |-> cart']}
  PROVE  ScreenInv'
<1>1. Numbered'
  BY DEF ScreenInv, Numbered
<1>2. NewestIsOfTheCart'
  <2> SUFFICES ASSUME NEW r \in flying'
               PROVE  r.n \in Nat /\ r.n <= cartReq' /\ (r.n = cartReq' => r.cart = cart')
    BY DEF NewestIsOfTheCart
  <2>1. CASE r \in flying
    BY <2>1 DEF ScreenInv, Numbered, NewestIsOfTheCart
  <2>2. CASE r = [n |-> cartReq', cart |-> cart']
    BY <2>2 DEF ScreenInv, Numbered
  <2> QED BY <2>1, <2>2
<1>3. SettledOnTheCart'
  <2>1. [n |-> cartReq', cart |-> cart'] \in flying'
    OBVIOUS
  <2> QED BY <2>1 DEF SettledOnTheCart
<1> QED BY <1>1, <1>2, <1>3 DEF ScreenInv

(* What neither touches the cart nor a validation leaves the invariant.    *)
LEMMA NothingShows ==
  ASSUME ScreenInv, UNCHANGED <<cart, cartReq, flying, shown, enabled>>
  PROVE  ScreenInv'
BY DEF ScreenInv, Numbered, NewestIsOfTheCart, SettledOnTheCart

(* An answer, or a failure, that is not superseded is the one of the cart. *)
LEMMA AnswerIsOfTheCart ==
  ASSUME ScreenInv, NEW r, Answered(r) \/ Failed(r)
  PROVE  ScreenInv'
<1>1. /\ r \in flying /\ flying' = flying \ {r}
      /\ UNCHANGED <<cart, cartReq>>
  BY DEF Answered, Failed
<1>2. NewestIsOfTheCart'
  BY <1>1 DEF ScreenInv, NewestIsOfTheCart
<1>3. CASE Superseded(r)
  <2>1. enabled' = enabled /\ shown' = shown
    BY <1>3 DEF Answered, Failed, ScreenInv, Numbered
  <2>2. SettledOnTheCart'
    BY <1>1, <1>3, <2>1 DEF ScreenInv, SettledOnTheCart, Superseded
  <2> QED BY <1>1, <1>2, <2>1, <2>2 DEF ScreenInv, Numbered
<1>4. CASE ~Superseded(r)
  <2>1. r.cart = cart
    BY <1>1, <1>4 DEF ScreenInv, NewestIsOfTheCart, Superseded
  <2>2. CASE Answered(r)
    <3>1. shown' = cart /\ enabled' = (cart \in CompleteCarts)
      BY <1>4, <2>1, <2>2 DEF Answered
    <3>2. Numbered'
      BY <1>1, <3>1 DEF ScreenInv, Numbered
    <3>3. SettledOnTheCart'
      BY <1>1, <3>1 DEF SettledOnTheCart
    <3> QED BY <1>2, <3>2, <3>3 DEF ScreenInv
  <2>3. CASE Failed(r)
    <3>1. enabled' = FALSE
      BY <1>4, <2>3 DEF Failed
    <3>2. SettledOnTheCart'
      BY <3>1 DEF SettledOnTheCart
    <3> QED BY <1>1, <1>2, <3>1, <3>2 DEF ScreenInv, Numbered
  <2> QED BY <2>2, <2>3
<1> QED BY <1>3, <1>4

(* The screen begins with the validation of its first cart. *)
LEMMA ScreenInvInit == ScreenInit => ScreenInv
<1> SUFFICES ASSUME ScreenInit
             PROVE  ScreenInv
  OBVIOUS
<1>1. Numbered
  BY DEF ScreenInit, Numbered
<1>2. NewestIsOfTheCart
  BY DEF ScreenInit, NewestIsOfTheCart
<1>3. SettledOnTheCart
  BY DEF ScreenInit, SettledOnTheCart
<1> QED BY <1>1, <1>2, <1>3 DEF ScreenInv

(* Every handler of the screen keeps the invariant. *)
LEMMA ScreenInvNext == ScreenInv /\ [ScreenNext]_screenVars => ScreenInv'
<1> SUFFICES ASSUME ScreenInv, [ScreenNext]_screenVars
             PROVE  ScreenInv'
  OBVIOUS
<1>1. ASSUME NEW x \in Items, Toggle(x)
      PROVE  ScreenInv'
  BY <1>1, ChangeIsAsked DEF Toggle, Changes
<1>2. CASE ResetCart
  BY <1>2, ChangeIsAsked DEF ResetCart, Changes
<1>3. ASSUME NEW g \in Goals, PickGoal(g)
      PROVE  ScreenInv'
  BY <1>3, ChangeIsAsked DEF PickGoal, Changes
<1>4. ASSUME NEW f \in fetches, Arrives(f)
      PROVE  ScreenInv'
  BY <1>4, ChangeIsAsked DEF Arrives
<1>5. CASE AskRecommended
  BY <1>5, NothingShows DEF AskRecommended, Asks
<1>6. ASSUME NEW t \in Templates, PickTemplate(t)
      PROVE  ScreenInv'
  BY <1>6, NothingShows DEF PickTemplate, Asks
<1>7. ASSUME NEW f \in fetches, FetchFails(f)
      PROVE  ScreenInv'
  BY <1>7, NothingShows DEF FetchFails
<1>8. ASSUME NEW r \in flying, Answered(r) \/ Failed(r)
      PROVE  ScreenInv'
  BY <1>8, AnswerIsOfTheCart
<1>9. CASE UNCHANGED screenVars
  BY <1>9, NothingShows DEF screenVars
<1> QED BY <1>1, <1>2, <1>3, <1>4, <1>5, <1>6, <1>7, <1>8, <1>9 DEF ScreenNext

(* "only the most recent in-flight validation result wins"                 *)
(* (refreshCartValidation): in whatever order validations, templates and   *)
(* recommended carts are answered or fail, once the newest validation is   *)
(* answered the button goes on only with the cart that was found complete. *)
THEOREM ScreenSettles == ScreenSpec => []SettledOnTheCart
<1>1. ScreenInv => SettledOnTheCart
  BY DEF ScreenInv
<1> QED BY <1>1, ScreenInvInit, ScreenInvNext, PTL DEF ScreenSpec

-----------------------------------------------------------------------------
(* The install directory *)

(* A comprehension keeps a sequence without repeats, of what it looks for. *)
LEMMA KeptIsSound ==
  ASSUME NEW U, NEW s \in Seq(U), NoRepeats(s), NEW S, NEW t \in Kept(s, S)
  PROVE  t \in Seq(U) /\ Elems(t) = Elems(s) \cap S /\ NoRepeats(t)
<1>1. PICK n \in 0..Len(s) : t \in [1..n -> Elems(s)]
  BY DEF Kept
<1>2. /\ Elems(t) = Elems(s) \cap S
      /\ \A i, j \in DOMAIN t :
           i < j => \E k, l \in DOMAIN s : k < l /\ s[k] = t[i] /\ s[l] = t[j]
  BY DEF Kept
<1>3. Elems(s) \subseteq U
  BY DEF Elems
<1>4. t \in Seq(U)
  <2>1. n \in Nat
    BY <1>1
  <2>2. t \in [1..n -> U]
    BY <1>1, <1>3
  <2> QED BY <2>1, <2>2
<1>5. NoRepeats(t)
  <2>1. \A i, j \in DOMAIN t : i < j => t[i] # t[j]
    <3> SUFFICES ASSUME NEW i \in DOMAIN t, NEW j \in DOMAIN t, i < j
                 PROVE  t[i] # t[j]
      OBVIOUS
    <3>1. PICK k \in DOMAIN s, l \in DOMAIN s : k < l /\ s[k] = t[i] /\ s[l] = t[j]
      BY <1>2
    <3>2. k # l
      BY <3>1
    <3> QED BY <3>1, <3>2 DEF NoRepeats
  <2>2. \A i, j \in DOMAIN t : i \in Nat /\ j \in Nat
    BY <1>1
  <2>3. \A i, j \in Nat : i # j => i < j \/ j < i
    OBVIOUS
  <2> QED BY <2>1, <2>2, <2>3 DEF NoRepeats
<1> QED BY <1>2, <1>4, <1>5

(* A file put in front of a sequence that does not have it. *)
LEMMA Prepended ==
  ASSUME NEW U, NEW s \in Seq(U), NEW x \in U
  PROVE  LET t == <<x>> \o s IN
         /\ t \in Seq(U) /\ t # <<>> /\ t[1] = x /\ Len(t) = Len(s) + 1
         /\ \A i \in 1..Len(s) : t[i + 1] = s[i]
         /\ Elems(t) = Elems(s) \cup {x}
         /\ s # <<>> => t[2] = s[1] /\ t[Len(t)] = s[Len(s)]
         /\ NoRepeats(s) /\ x \notin Elems(s) => NoRepeats(t)
<1> DEFINE t == <<x>> \o s
<1>1. /\ t \in Seq(U) /\ t[1] = x /\ Len(s) \in Nat /\ Len(t) = Len(s) + 1
      /\ \A i \in 1..Len(s) : t[i + 1] = s[i]
  OBVIOUS
<1>2. DOMAIN t = 1..Len(t) /\ DOMAIN s = 1..Len(s) /\ t # <<>>
  BY <1>1
<1>3. \A i \in 1..Len(t) : i = 1 \/ (i - 1 \in 1..Len(s) /\ t[i] = s[i - 1])
  <2> SUFFICES ASSUME NEW i \in 1..Len(t), i # 1
               PROVE  i - 1 \in 1..Len(s) /\ t[i] = s[i - 1]
    OBVIOUS
  <2>1. i - 1 \in 1..Len(s) /\ (i - 1) + 1 = i
    BY <1>1
  <2> HIDE DEF t
  <2> QED BY <1>1, <2>1
<1>4. s # <<>> => t[2] = s[1] /\ t[Len(t)] = s[Len(s)]
  <2>1. s # <<>> => 1 \in 1..Len(s) /\ Len(s) \in 1..Len(s) /\ 1 + 1 = 2
    OBVIOUS
  <2> HIDE DEF t
  <2> QED BY <1>1, <2>1
<1> HIDE DEF t
<1>5. Elems(t) = Elems(s) \cup {x}
  <2>1. Elems(t) \subseteq Elems(s) \cup {x}
    BY <1>1, <1>2, <1>3 DEF Elems
  <2>2. x \in Elems(t)
    <3>1. 1 \in DOMAIN t
      BY <1>1, <1>2
    <3> QED BY <1>1, <3>1 DEF Elems
  <2>3. Elems(s) \subseteq Elems(t)
    <3>1. \A i \in 1..Len(s) : i + 1 \in 1..Len(t)
      BY <1>1
    <3> QED BY <1>1, <1>2, <3>1 DEF Elems
  <2> QED BY <2>1, <2>2, <2>3
<1>6. ASSUME NoRepeats(s), x \notin Elems(s)
      PROVE  NoRepeats(t)
  <2> SUFFICES ASSUME NEW i \in 1..Len(t), NEW j \in 1..Len(t), t[i] = t[j]
               PROVE  i = j
    BY <1>2 DEF NoRepeats
  <2>1. \A k \in 1..Len(s) : s[k] # x
    BY <1>2, <1>6 DEF Elems
  <2>2. CASE i = 1 \/ j = 1
    BY <1>1, <1>3, <2>1, <2>2
  <2>3. CASE i # 1 /\ j # 1
    <3>1. i - 1 \in 1..Len(s) /\ j - 1 \in 1..Len(s) /\ s[i - 1] = s[j - 1]
      BY <1>3, <2>3
    <3>2. i - 1 = j - 1
      BY <1>2, <1>6, <3>1 DEF NoRepeats
    <3> QED BY <1>1, <3>2
  <2> QED BY <2>2, <2>3
<1> QED BY <1>1, <1>2, <1>4, <1>5, <1>6 DEF t

(* A file put behind one. *)
LEMMA Appended ==
  ASSUME NEW U, NEW s \in Seq(U), NEW x \in U
  PROVE  LET t == Append(s, x) IN
         /\ t \in Seq(U) /\ t # <<>> /\ t[Len(t)] = x /\ Len(t) = Len(s) + 1
         /\ Elems(t) = Elems(s) \cup {x}
         /\ s # <<>> => t[1] = s[1]
         /\ NoRepeats(s) /\ x \notin Elems(s) => NoRepeats(t)
<1> DEFINE t == Append(s, x)
<1>1. /\ t \in Seq(U) /\ Len(s) \in Nat /\ Len(t) = Len(s) + 1 /\ t[Len(s) + 1] = x
      /\ \A i \in 1..Len(s) : t[i] = s[i]
  OBVIOUS
<1>2. DOMAIN t = 1..Len(t) /\ DOMAIN s = 1..Len(s) /\ t # <<>> /\ t[Len(t)] = x
  BY <1>1
<1>3. s # <<>> => t[1] = s[1]
  <2>1. s # <<>> => 1 \in 1..Len(s)
    OBVIOUS
  <2> HIDE DEF t
  <2> QED BY <1>1, <2>1
<1> HIDE DEF t
<1>4. 1..Len(t) = 1..Len(s) \cup {Len(t)} /\ Len(t) \notin 1..Len(s)
  BY <1>1
<1>5. Elems(t) = Elems(s) \cup {x}
  BY <1>1, <1>2, <1>4 DEF Elems
<1>6. ASSUME NoRepeats(s), x \notin Elems(s)
      PROVE  NoRepeats(t)
  BY <1>1, <1>2, <1>4, <1>6 DEF NoRepeats, Elems
<1> QED BY <1>1, <1>2, <1>3, <1>5, <1>6 DEF t

(* The empty sequence has no files and repeats none. *)
LEMMA NoFiles ==
  /\ Elems(<<>>) = {} /\ <<>> \in Seq(Files) /\ Len(<<>>) = 0
  /\ NoRepeats(<<>>)
  /\ <<>> \in Seq(Secrets) /\ DOMAIN <<>> = {}
BY DEF Elems, NoRepeats

(* A run or a retry begins with a new runner, to which nothing is          *)
(* attached.                                                               *)
LEMMA BeginRunKeeps ==
  ASSUME DirectoryInv, NEW at \in {"clone", "patch", "start"}, NEW f \in Flags, BeginRun(at, f)
  PROVE  DirectoryInv'
<1> USE DEF DirectoryInv
<1>1. /\ run \in Nat /\ run' = run + 1 /\ run' \in 0..MaxRuns /\ pc = "failed" /\ pc' = at
      /\ flags' = f /\ attached' = <<>> /\ used' = <<>> /\ promised' \in {{}, promised}
      /\ Len(fe) \in Nat /\ generated \in Nat
      /\ UNCHANGED <<stack, cloned, repo, fe, be, scripts, dotenv, disk, generated, unwritten, unswept>>
  BY DirectoryAssumption DEF BeginRun, DirTypeOK, secretVars, passedOver
<1>2. DirTypeOK'
  BY <1>1, NoFiles DEF DirTypeOK, Pcs
<1>3. OncePerRun'
  <2>1. Len(fe) <= run /\ generated <= run
    BY DEF OncePerRun
  <2>2. Len(fe') < run' /\ generated' < run' /\ run' > 0
    <3> HIDE DEF DirectoryInv
    <3> QED BY <1>1, <2>1
  <2>3. Len(fe') \in Nat /\ generated' \in Nat /\ run' \in Nat
    BY <1>1
  <2> QED BY <2>2, <2>3 DEF OncePerRun
<1>4. FilesLie'
  BY <1>1, NoFiles DEF FilesLie
<1>5. InTheirPlaces'
  BY <1>1, NoFiles DEF InTheirPlaces
<1>6. SecretsAreDated'
  <2>1. 0..run \subseteq 0..run'
    BY <1>1
  <2>2. generated = 0 /\ cloned /\ pc' \in EnvPcs => pc' = "patch"
    BY <1>1 DEF EnvPcs
  <2>3. pc' # "sweep"
    BY <1>1
  <2> QED BY <1>1, <2>1, <2>2, <2>3 DEF SecretsAreDated
<1>7. DirectoryIsWhole'
  <2>1. dotenv # run'
    <3>1. dotenv \in 0..run \cup {MaxRuns + 1}
      BY DEF SecretsAreDated, Nothing
    <3>2. run' < MaxRuns + 1
      BY <1>1, DirectoryAssumption
    <3> QED BY <1>1, <3>1, <3>2
  <2>2. SecretIsSwept'
    BY <1>1, <2>1 DEF SecretIsSwept
  <2> QED BY <1>1, <2>2 DEF DirectoryIsWhole, StartCoversLastEnv, FilesInOrder
<1> QED BY <1>2, <1>3, <1>4, <1>5, <1>6, <1>7

(* Where nothing is in use and the run is not at its start, a start has    *)
(* promised nothing yet.                                                   *)
LEMMA WholeOnTheWay ==
  ASSUME used' = <<>>, pc' # "start"
  PROVE  DirectoryIsWhole'
BY DEF DirectoryIsWhole, StartCoversLastEnv, FilesInOrder, SecretIsSwept

(* A clone, or a directory brought back to upstream's files. *)
LEMMA CloneKeeps ==
  ASSUME DirectoryInv, Clone
  PROVE  DirectoryInv'
<1> USE DEF DirectoryInv
<1>1. /\ pc = "clone" /\ pc' = "patch" /\ run \in Nat \ {0} /\ attached = <<>> /\ used = <<>>
      /\ cloned' = TRUE /\ repo' = {Demo} /\ fe' = <<>> /\ be' = Nothing
      /\ scripts' \in {scripts, {}} /\ dotenv' \in {dotenv, Nothing}
      /\ disk' \in {disk, {}} /\ generated' = 0 /\ promised' = {}
      /\ UNCHANGED <<stack, run, flags, attached, used, unwritten, unswept>>
  BY DirectoryAssumption DEF Clone, TrackedFilesFresh, DirTypeOK, OncePerRun, FilesLie, passedOver
<1>2. DirTypeOK'
  <2>1. fe' \in Seq(Secrets) /\ Len(fe') = 0 /\ 0 \in 0..MaxRuns /\ 0 <= MaxRuns
    BY <1>1, DirectoryAssumption
  <2>2. /\ repo' \subseteq Secrets /\ scripts' \subseteq Secrets
        /\ {be', dotenv'} \subseteq Secrets \cup {Nothing}
    BY <1>1, <2>1 DEF DirTypeOK, Demo, Secrets
  <2>3. disk' \subseteq Files /\ pc' \in Pcs /\ cloned' \in BOOLEAN /\ promised' \subseteq Files
    BY <1>1 DEF DirTypeOK, Pcs
  <2> QED BY <1>1, <2>1, <2>2, <2>3 DEF DirTypeOK
<1>3. OncePerRun'
  <2>1. Len(fe') = 0
    BY <1>1
  <2> QED BY <1>1, <2>1 DEF OncePerRun
<1>4. FilesLie' /\ InTheirPlaces'
  BY <1>1, NoFiles DEF FilesLie, InTheirPlaces
<1>5. SecretsAreDated'
  <2>1. 0 \in 0..run
    BY <1>1
  <2>2. /\ repo' \subseteq 0..run' /\ scripts' \subseteq 0..run'
        /\ {be', dotenv'} \subseteq 0..run' \cup {Nothing}
    BY <1>1, <2>1 DEF SecretsAreDated, Demo
  <2>3. DOMAIN fe' = {}
    BY <1>1
  <2> QED BY <1>1, <2>2, <2>3 DEF SecretsAreDated, EnvPcs
<1> QED BY <1>1, <1>2, <1>3, <1>4, <1>5, WholeOnTheWay

(* A clone that fails ends the run. *)
LEMMA CloneFailsKeeps ==
  ASSUME DirectoryInv, CloneFails
  PROVE  DirectoryInv'
<1> USE DEF DirectoryInv
<1>1. /\ pc = "clone" /\ pc' = "failed" /\ run \in Nat \ {0} /\ attached = <<>> /\ used = <<>>
      /\ promised' = {} /\ UNCHANGED <<stack, run, flags, attached, used, generated>>
      /\ \/ UNCHANGED <<cloned, repo, fe, be, scripts, dotenv, disk>>
         \/ /\ cloned' = FALSE /\ repo' = {} /\ fe' = <<>> /\ be' = Nothing
            /\ scripts' = {} /\ dotenv' = Nothing /\ disk' = {}
      /\ unwritten' = {} /\ unswept' = {}
  BY DirectoryAssumption DEF CloneFails, Fails, secretVars, DirTypeOK, OncePerRun, FilesLie
<1>2. fe' = fe \/ (fe' \in Seq(Secrets) /\ Len(fe') = 0 /\ DOMAIN fe' = {})
  BY <1>1, NoFiles
<1>3. DirTypeOK'
  <2>1. 0 <= MaxRuns /\ pc' \in Pcs
    BY <1>1, DirectoryAssumption DEF Pcs
  <2>2. fe' \in Seq(Secrets) /\ Len(fe') <= MaxRuns
    BY <1>2, <2>1 DEF DirTypeOK
  <2>3. /\ repo' \subseteq Secrets /\ scripts' \subseteq Secrets
        /\ {be', dotenv'} \subseteq Secrets \cup {Nothing} /\ disk' \subseteq Files
    BY <1>1 DEF DirTypeOK
  <2> QED BY <1>1, <2>1, <2>2, <2>3 DEF DirTypeOK
<1>4. OncePerRun'
  BY <1>1, <1>2 DEF OncePerRun, EnvPcs
<1>5. FilesLie' /\ InTheirPlaces'
  BY <1>1, NoFiles DEF FilesLie, InTheirPlaces
<1>6. SecretsAreDated'
  <2>1. /\ repo' \subseteq 0..run' /\ scripts' \subseteq 0..run'
        /\ {be', dotenv'} \subseteq 0..run' \cup {Nothing}
    BY <1>1 DEF SecretsAreDated
  <2>2. CASE cloned' = FALSE
    BY <1>1, <2>1, <2>2 DEF SecretsAreDated
  <2>3. CASE UNCHANGED <<cloned, repo, fe, be, scripts, dotenv, disk>>
    BY <1>1, <2>1, <2>3 DEF SecretsAreDated, EnvPcs
  <2> QED BY <1>1, <2>2, <2>3
<1> QED BY <1>1, <1>3, <1>4, <1>5, <1>6, WholeOnTheWay

(* The image patches. *)
LEMMA EnvPatchKeeps ==
  ASSUME DirectoryInv, EnvPatch
  PROVE  DirectoryInv'
<1> USE DEF DirectoryInv
<1>0. /\ run \in Nat /\ run <= MaxRuns /\ Len(fe) \in Nat /\ fe \in Seq(Secrets)
  BY DirectoryAssumption DEF DirTypeOK
<1>1. /\ pc = "patch" /\ pc' = "bootstrap" /\ attached = <<>> /\ used = <<>> /\ Len(fe) < run
      /\ \/ cloned /\ fe' = Patched(fe) /\ be' = (IF be = Nothing THEN Demo ELSE be)
         \/ (~cloned \/ "compose" \in unwritten') /\ fe' = fe /\ be' = be
      /\ unwritten' \in {unwritten, unwritten \cup {"compose"}}
      /\ UNCHANGED <<stack, run, flags, cloned, repo, scripts, dotenv, disk, attached, used,
                     promised, generated, unswept>>
  BY DEF EnvPatch, OncePerRun, FilesLie, overlayVars
<1>2. Demo \in Secrets
  BY DirectoryAssumption DEF Demo, Secrets
<1>3. fe' \in Seq(Secrets) /\ Len(fe') \in Nat /\ Len(fe') <= Len(fe) + 1
  <2>1. Len(Append(fe, Demo)) = Len(fe) + 1 /\ Append(fe, Demo) \in Seq(Secrets)
    BY <1>0, <1>1, <1>2
  <2> QED BY <1>1, <2>1 DEF Patched
<1>4. /\ \A i \in DOMAIN fe' : fe'[i] = Demo \/ (i \in DOMAIN fe /\ fe'[i] = fe[i])
      /\ cloned /\ "compose" \notin unwritten' => fe' # <<>>
  <2>1. Append(fe, Demo) # <<>>
    BY <1>0, <1>1, <1>2
  <2>2. \A i \in DOMAIN Append(fe, Demo) :
          Append(fe, Demo)[i] = Demo \/ (i \in DOMAIN fe /\ Append(fe, Demo)[i] = fe[i])
    BY <1>0, <1>1, <1>2
  <2> QED BY <1>1, <2>1, <2>2 DEF Patched
<1>5. DirTypeOK'
  <2>1. Len(fe') <= MaxRuns
    BY <1>0, <1>1, <1>3, DirectoryAssumption
  <2>2. be' \in Secrets \cup {Nothing} /\ pc' \in Pcs
    BY <1>0, <1>1, <1>2 DEF DirTypeOK, Pcs
  <2>3. unwritten' \subseteq Kinds
    BY <1>1 DEF DirTypeOK, Kinds
  <2> QED BY <1>0, <1>1, <1>3, <2>1, <2>2, <2>3 DEF DirTypeOK
<1>6. OncePerRun'
  BY <1>0, <1>1, <1>3 DEF OncePerRun, EnvPcs
<1>7. FilesLie' /\ InTheirPlaces'
  BY <1>1, NoFiles DEF FilesLie, InTheirPlaces
<1>8. SecretsAreDated'
  <2>1. /\ repo' \subseteq 0..run' /\ scripts' \subseteq 0..run'
        /\ {be', dotenv'} \subseteq 0..run' \cup {Nothing}
    <3>1. Demo \in 0..run
      BY <1>0, <1>1 DEF Demo
    <3> QED BY <1>1, <3>1 DEF SecretsAreDated
  <2>2. ASSUME generated' = 0, cloned'
        PROVE  /\ repo' = {Demo} /\ be' \in {Demo, Nothing}
               /\ \A i \in DOMAIN fe' : fe'[i] = Demo
               /\ "compose" \in unwritten' \/ (be' = Demo /\ fe' # <<>>)
    <3>1. /\ repo = {Demo} /\ be \in {Demo, Nothing} /\ \A i \in DOMAIN fe : fe[i] = Demo
      BY <1>1, <2>2 DEF SecretsAreDated
    <3> QED BY <1>1, <1>4, <2>2, <3>1
  <2> QED BY <1>1, <2>1, <2>2 DEF SecretsAreDated
<1> QED BY <1>1, <1>5, <1>6, <1>7, <1>8, WholeOnTheWay

(* The bootstrap scripts. *)
LEMMA EnvBootstrapKeeps ==
  ASSUME DirectoryInv, EnvBootstrap
  PROVE  DirectoryInv'
<1> USE DEF DirectoryInv
<1>1. /\ pc = "bootstrap" /\ pc' = "overlays" /\ run \in Nat /\ attached = <<>> /\ used = <<>>
      /\ \/ scripts' = {Demo} /\ unwritten' = unwritten
         \/ scripts' \in {scripts, scripts \cup {Demo}} /\ unwritten' = unwritten \cup {"scripts"}
      /\ UNCHANGED <<stack, run, flags, cloned, repo, fe, be, dotenv, disk, attached, used,
                     promised, generated, unswept>>
  BY DirectoryAssumption DEF EnvBootstrap, DirTypeOK, FilesLie, overlayVars
<1>2. Demo \in Secrets /\ Demo \in 0..run
  BY <1>1, DirectoryAssumption DEF Demo, Secrets
<1>3. DirTypeOK'
  <2>1. scripts' \subseteq Secrets /\ unwritten' \subseteq Kinds
    BY <1>1, <1>2 DEF DirTypeOK, Kinds
  <2> QED BY <1>1, <2>1 DEF DirTypeOK, Pcs
<1>4. OncePerRun'
  BY <1>1 DEF OncePerRun, EnvPcs
<1>5. FilesLie' /\ InTheirPlaces'
  BY <1>1, NoFiles DEF FilesLie, InTheirPlaces
<1>6. SecretsAreDated'
  <2>1. scripts' \subseteq 0..run'
    BY <1>1, <1>2 DEF SecretsAreDated
  <2>2. "scripts" \in unwritten' \/ scripts' = {Demo}
    BY <1>1
  <2> QED BY <1>1, <2>1, <2>2 DEF SecretsAreDated, EnvPcs
<1> QED BY <1>1, <1>3, <1>4, <1>5, <1>6, WholeOnTheWay

(* What is kept of the overlays is in their order, and of nothing else.    *)
LEMMA KeptOverlays ==
  ASSUME NEW S, NEW t \in Kept(OverlayOrder, S)
  PROVE  /\ t \in Seq(Files) /\ NoRepeats(t) /\ Elems(t) = Overlays \cap S
         /\ "fragment" \notin Elems(t) /\ "harden" \notin Elems(t)
<1>1. OverlayOrder \in Seq(Files) /\ NoRepeats(OverlayOrder)
  <2>1. Overlays \subseteq Files
    BY DEF Files
  <2> HIDE DEF Overlays, Files
  <2> QED BY <2>1, DirectoryAssumption
<1>2. Elems(OverlayOrder) = Overlays
  BY DEF Elems, Overlays
<1>3. t \in Seq(Files) /\ NoRepeats(t) /\ Elems(t) = Overlays \cap S
  <2> HIDE DEF Files, Overlays
  <2> QED BY <1>1, <1>2, KeptIsSound
<1> QED BY <1>3, DirectoryAssumption

(* The overlays that are asked for are attached, in their order. *)
LEMMA EnvOverlaysKeeps ==
  ASSUME DirectoryInv, EnvOverlays
  PROVE  DirectoryInv'
<1> USE DEF DirectoryInv
<1>1. PICK written \in SUBSET flags.on :
        disk' = disk \cup written /\ attached' \in Kept(OverlayOrder, written)
  BY DEF EnvOverlays, Written
<1>2. /\ pc = "overlays" /\ pc' = "fragment" /\ used = <<>>
      /\ UNCHANGED <<stack, run, flags, cloned, repo, fe, be, scripts, dotenv, used,
                     promised, generated, unwritten, unswept>>
  BY DEF EnvOverlays, FilesLie, secretVars, history, passedOver
<1>3. written \subseteq Overlays
  BY DEF DirTypeOK, Flags
<1>4. /\ attached' \in Seq(Files) /\ NoRepeats(attached') /\ Elems(attached') = written
      /\ "fragment" \notin Elems(attached') /\ "harden" \notin Elems(attached')
  <2>1. PICK t \in Kept(OverlayOrder, written) : attached' = t
    BY <1>1
  <2>2. /\ t \in Seq(Files) /\ NoRepeats(t) /\ Elems(t) = Overlays \cap written
        /\ "fragment" \notin Elems(t) /\ "harden" \notin Elems(t)
    BY KeptOverlays
  <2> QED BY <1>3, <2>1, <2>2
<1>5. DirTypeOK'
  BY <1>1, <1>2, <1>3, <1>4 DEF DirTypeOK, Pcs, Files
<1>6. OncePerRun'
  BY <1>2 DEF OncePerRun, EnvPcs
<1>7. FilesLie'
  BY <1>1, <1>2, <1>4 DEF FilesLie
<1>8. InTheirPlaces'
  BY <1>2, <1>3, <1>4 DEF InTheirPlaces
<1>9. SecretsAreDated'
  BY <1>2 DEF SecretsAreDated, EnvPcs
<1> QED BY <1>2, <1>5, <1>6, <1>7, <1>8, <1>9, WholeOnTheWay

(* The fragment goes right behind the base. *)
LEMMA EnvFragmentKeeps ==
  ASSUME DirectoryInv, EnvFragment
  PROVE  DirectoryInv'
<1> USE DEF DirectoryInv
<1>1. /\ pc = "fragment" /\ pc' = "harden" /\ used = <<>>
      /\ UNCHANGED <<stack, run, flags, cloned, repo, fe, be, scripts, dotenv, used,
                     promised, generated, unwritten, unswept>>
      /\ \/ disk' = disk \cup {"fragment"} /\ attached' = <<"fragment">> \o attached
         \/ UNCHANGED <<disk, attached>>
  BY DEF EnvFragment, Written, FilesLie, secretVars, history, passedOver
<1>2. /\ attached \in Seq(Files) /\ NoRepeats(attached) /\ Elems(attached) \subseteq Overlays
      /\ "fragment" \in Files /\ "fragment" \notin Overlays /\ "harden" \notin Overlays
  BY <1>1, DirectoryAssumption DEF DirTypeOK, InTheirPlaces, Files
<1>3. /\ attached' \in Seq(Files) /\ NoRepeats(attached')
      /\ "fragment" \in Elems(attached') => attached'[1] = "fragment"
      /\ "harden" \notin Elems(attached')
      /\ Elems(attached') \subseteq Elems(attached) \cup (disk' \cap {"fragment"})
  <2>1. CASE UNCHANGED <<disk, attached>>
    BY <1>2, <2>1
  <2>2. CASE disk' = disk \cup {"fragment"} /\ attached' = <<"fragment">> \o attached
    <3> HIDE DEF Files, Overlays
    <3>1. /\ attached' \in Seq(Files) /\ NoRepeats(attached') /\ attached'[1] = "fragment"
          /\ Elems(attached') = Elems(attached) \cup {"fragment"}
      BY <1>2, <2>2, Prepended
    <3> QED BY <1>2, <2>2, <3>1
  <2> QED BY <1>1, <2>1, <2>2
<1>4. disk \subseteq disk' /\ disk' \subseteq disk \cup {"fragment"}
  BY <1>1
<1>5. DirTypeOK'
  BY <1>1, <1>2, <1>3, <1>4 DEF DirTypeOK, Pcs
<1>6. OncePerRun'
  BY <1>1 DEF OncePerRun, EnvPcs
<1>7. FilesLie'
  BY <1>1, <1>3, <1>4 DEF FilesLie
<1>8. InTheirPlaces'
  BY <1>1, <1>3 DEF InTheirPlaces
<1>9. SecretsAreDated'
  BY <1>1 DEF SecretsAreDated, EnvPcs
<1> QED BY <1>1, <1>5, <1>6, <1>7, <1>8, <1>9, WholeOnTheWay

(* The hardening goes last. *)
LEMMA EnvHardenKeeps ==
  ASSUME DirectoryInv, EnvHarden
  PROVE  DirectoryInv'
<1> USE DEF DirectoryInv
<1>1. /\ pc = "harden" /\ pc' = "dotenv" /\ used = <<>>
      /\ UNCHANGED <<stack, run, flags, cloned, repo, fe, be, scripts, dotenv, used,
                     promised, generated, unwritten, unswept>>
      /\ \/ /\ disk' = disk \cup {"harden"}
            /\ \E others \in Kept(attached, Files \ {"harden"}) :
                 attached' = Append(others, "harden")
         \/ UNCHANGED <<disk, attached>>
  BY DEF EnvHarden, Written, FilesLie, secretVars, history, passedOver
<1>2. /\ attached \in Seq(Files) /\ NoRepeats(attached) /\ "harden" \notin Elems(attached)
      /\ "harden" \in Files
  BY <1>1 DEF DirTypeOK, InTheirPlaces, Files
<1>3. /\ attached' \in Seq(Files) /\ InTheirPlaces'
      /\ Elems(attached') \subseteq Elems(attached) \cup (disk' \cap {"harden"})
  <2>1. CASE UNCHANGED <<disk, attached>>
    BY <1>1, <1>2, <2>1 DEF InTheirPlaces
  <2>2. ASSUME disk' = disk \cup {"harden"}, NEW others \in Kept(attached, Files \ {"harden"}),
               attached' = Append(others, "harden")
        PROVE  /\ attached' \in Seq(Files) /\ InTheirPlaces'
               /\ Elems(attached') \subseteq Elems(attached) \cup (disk' \cap {"harden"})
    <3> HIDE DEF Files
    <3>1. /\ others \in Seq(Files) /\ NoRepeats(others)
          /\ Elems(others) = Elems(attached) \cap (Files \ {"harden"})
      BY <1>2, KeptIsSound
    <3>2. /\ attached' \in Seq(Files) /\ NoRepeats(attached')
          /\ attached'[Len(attached')] = "harden" /\ Elems(attached') = Elems(others) \cup {"harden"}
          /\ others # <<>> => attached'[1] = others[1]
      BY <1>2, <2>2, <3>1, Appended
    <3>3. "fragment" \in Elems(others) => others[1] = "fragment"
      <4>1. ASSUME "fragment" \in Elems(others)
            PROVE  others[1] = "fragment"
        <5>1. attached[1] = "fragment"
          BY <3>1, <4>1 DEF InTheirPlaces
        <5>2. PICK j \in DOMAIN others : others[j] = "fragment"
          BY <4>1 DEF Elems
        <5>3. 1 \in DOMAIN others /\ j \in Nat /\ (j = 1 \/ 1 < j)
          BY <3>1
        <5>4. CASE 1 < j
          <6>1. PICK k \in DOMAIN attached, l \in DOMAIN attached :
                  k < l /\ attached[k] = others[1] /\ attached[l] = "fragment"
            BY <5>2, <5>3, <5>4 DEF Kept
          <6>2. 1 \in DOMAIN attached /\ l \in Nat /\ k \in Nat /\ 1 <= k
            BY <1>2
          <6>3. l = 1
            BY <1>2, <5>1, <6>1, <6>2 DEF NoRepeats
          <6> QED BY <6>1, <6>2, <6>3
        <5> QED BY <5>2, <5>3, <5>4
      <4> QED BY <4>1
    <3>4. "fragment" \in Elems(attached') => attached'[1] = "fragment"
      <4>1. "fragment" \in Elems(others) => others # <<>>
        BY NoFiles
      <4>2. "fragment" \in Elems(attached') => "fragment" \in Elems(others)
        BY <3>2
      <4> QED BY <3>2, <3>3, <4>1, <4>2
    <3>5. InTheirPlaces'
      BY <1>1, <3>2, <3>4 DEF InTheirPlaces
    <3> QED BY <2>2, <3>1, <3>2, <3>5
  <2> QED BY <1>1, <2>1, <2>2
<1>4. disk \subseteq disk' /\ disk' \subseteq disk \cup {"harden"}
  BY <1>1
<1>5. DirTypeOK'
  <2>1. NoRepeats(attached')
    BY <1>3 DEF InTheirPlaces
  <2> QED BY <1>1, <1>2, <1>3, <1>4, <2>1 DEF DirTypeOK, Pcs
<1>6. OncePerRun'
  BY <1>1 DEF OncePerRun, EnvPcs
<1>7. FilesLie'
  BY <1>1, <1>3, <1>4 DEF FilesLie
<1>9. SecretsAreDated'
  BY <1>1 DEF SecretsAreDated, EnvPcs
<1> QED BY <1>1, <1>3, <1>5, <1>6, <1>7, <1>9, WholeOnTheWay

(* The .env is written, with a secret of the run or the public one. *)
LEMMA EnvDotenvKeeps ==
  ASSUME DirectoryInv, EnvDotenv
  PROVE  DirectoryInv'
<1> USE DEF DirectoryInv
<1>0. run \in 0..MaxRuns /\ run \in Nat
  BY DirectoryAssumption DEF DirTypeOK
<1>1. /\ pc = "dotenv" /\ pc' = "sweep" /\ used = <<>>
      /\ dotenv' = IF flags.generate THEN run ELSE Demo
      /\ UNCHANGED <<stack, run, flags, cloned, repo, fe, be, scripts, disk, attached, used,
                     promised, generated, unwritten, unswept>>
  BY DEF EnvDotenv, FilesLie, overlayVars, history, passedOver
<1>2. dotenv' \in 0..run /\ dotenv' \in Secrets
  BY <1>0, <1>1, DirectoryAssumption DEF Demo, Secrets
<1>3. DirTypeOK'
  BY <1>1, <1>2 DEF DirTypeOK, Pcs
<1>4. OncePerRun'
  BY <1>1 DEF OncePerRun, EnvPcs
<1>5. FilesLie' /\ InTheirPlaces'
  BY <1>1 DEF FilesLie, InTheirPlaces
<1>6. SecretsAreDated'
  BY <1>1, <1>2 DEF SecretsAreDated, EnvPcs
<1> QED BY <1>1, <1>3, <1>4, <1>5, <1>6, WholeOnTheWay

(* A failure on the way, and a loss of the server.                         *)
LEMMA StopsKeeps ==
  ASSUME DirectoryInv, DotenvFails \/ Lost
  PROVE  DirectoryInv'
<1> USE DEF DirectoryInv
<1>1. /\ pc \notin {"failed", "ready"} /\ pc' = "failed" /\ used = <<>>
      /\ UNCHANGED <<stack, run, flags, cloned, repo, fe, be, scripts, dotenv, disk, attached,
                     used, promised, generated>>
      /\ unwritten' = {} /\ unswept' = {}
  BY DEF DotenvFails, Lost, Fails, FilesLie, secretVars, overlayVars
<1>2. DirTypeOK' /\ OncePerRun'
  BY <1>1 DEF DirTypeOK, Pcs, OncePerRun, EnvPcs
<1>3. FilesLie' /\ InTheirPlaces'
  BY <1>1 DEF FilesLie, InTheirPlaces
<1>4. SecretsAreDated'
  BY <1>1 DEF SecretsAreDated, EnvPcs
<1> QED BY <1>1, <1>2, <1>3, <1>4, WholeOnTheWay

(* The sweep gives every secret it reaches the date of the run, and passes *)
(* over what it cannot read or write.                                      *)
LEMMA SweepDates ==
  ASSUME DirectoryInv, pc = "sweep", NEW over \in PassableOver, Sweep(over)
  PROVE  /\ repo' \subseteq 0..run /\ scripts' \subseteq 0..run
         /\ {be', dotenv'} \subseteq 0..run \cup {Nothing}
         /\ fe' \in Seq(Secrets) /\ Len(fe') = Len(fe)
         /\ \A kind \in Kinds \ over : Demo \notin Carried(kind)'
<1> USE DEF DirectoryInv
<1>0. run \in 0..MaxRuns /\ run \in Nat \ {0}
  BY DirectoryAssumption DEF DirTypeOK, OncePerRun
<1>1. \A n : Swept(n) # Demo /\ (Swept(n) = run \/ Swept(n) = n)
  BY <1>0 DEF Swept, Demo
<1>2. run \in Secrets /\ run \in 0..run
  BY <1>0 DEF Secrets
<1>3. /\ repo \subseteq 0..run /\ scripts \subseteq 0..run
      /\ {be, dotenv} \subseteq 0..run \cup {Nothing}
  BY DEF SecretsAreDated
<1>4. \A secrets : Demo \notin SweptOf(secrets) /\ SweptOf(secrets) \subseteq secrets \cup {run}
  BY <1>1 DEF SweptOf
<1>5. /\ repo' \subseteq 0..run /\ ("repo" \notin over => Demo \notin repo')
      /\ scripts' \subseteq 0..run /\ ("scripts" \notin over => Demo \notin scripts')
  BY <1>2, <1>3, <1>4 DEF Sweep, AfterSweep
<1>6. dotenv' \in 0..run \cup {Nothing} /\ ("dotenv" \notin over => Demo # dotenv')
  BY <1>1, <1>2, <1>3 DEF Sweep
<1>7. fe \in Seq(Secrets) /\ Len(fe) \in Nat /\ DOMAIN fe = 1..Len(fe)
  BY DEF DirTypeOK
<1>8. /\ be' \in 0..run \cup {Nothing} /\ fe' \in Seq(Secrets) /\ Len(fe') = Len(fe)
      /\ "compose" \notin over => Demo # be' /\ \A i \in DOMAIN fe' : fe'[i] # Demo
  <2>1. CASE "compose" \in over
    BY <1>3, <1>7, <2>1 DEF Sweep
  <2>2. CASE "compose" \notin over
    <3>1. be' = Swept(be) /\ fe' = [i \in DOMAIN fe |-> Swept(fe[i])]
      BY <2>2 DEF Sweep
    <3>2. \A i \in 1..Len(fe) : Swept(fe[i]) \in Secrets
      BY <1>1, <1>2, <1>7
    <3>3. fe' \in [1..Len(fe) -> Secrets]
      BY <1>7, <3>1, <3>2
    <3>4. fe' \in Seq(Secrets) /\ Len(fe') = Len(fe)
      BY <1>7, <3>3
    <3>5. \A i \in DOMAIN fe' : fe'[i] # Demo
      BY <1>1, <3>1
    <3>6. be' \in 0..run \cup {Nothing} /\ Demo # be'
      BY <1>1, <1>2, <1>3, <3>1
    <3> QED BY <3>4, <3>5, <3>6
  <2> QED BY <2>1, <2>2
<1>9. ASSUME NEW kind \in Kinds \ over
      PROVE  Demo \notin Carried(kind)'
  <2>1. CASE kind = "repo"
    BY <1>5, <1>9, <2>1 DEF Carried
  <2>2. CASE kind = "compose"
    BY <1>8, <1>9, <2>2 DEF Carried, Elems
  <2>3. CASE kind = "scripts"
    BY <1>5, <1>9, <2>3 DEF Carried
  <2>4. CASE kind = "dotenv"
    BY <1>6, <1>9, <2>4 DEF Carried
  <2> QED BY <2>1, <2>2, <2>3, <2>4 DEF Kinds
<1> QED BY <1>3, <1>5, <1>6, <1>8, <1>9

(* On a freshly cloned directory everything that was written and swept has *)
(* the secret of the run.                                                  *)
LEMMA SweepOfFresh ==
  ASSUME DirectoryInv, pc = "sweep", flags.generate, cloned, generated = 0,
         NEW over \in PassableOver, Sweep(over),
         NEW kind \in Kinds \ (over \cup unwritten)
  PROVE  Carried(kind)' = {run}
<1> USE DEF DirectoryInv
<1>0. run \in Nat \ {0}
  BY DirectoryAssumption DEF DirTypeOK, OncePerRun
<1>1. Swept(Demo) = run /\ Swept(run) = run
  BY <1>0 DEF Swept, Demo
<1>2. SweptOf({Demo}) = {run}
  BY <1>1 DEF SweptOf
<1>3. /\ repo = {Demo} /\ dotenv = run
      /\ \A i \in DOMAIN fe : fe[i] = Demo
      /\ "compose" \in unwritten \/ (be = Demo /\ fe # <<>>)
      /\ "scripts" \in unwritten \/ scripts = {Demo}
  BY DEF SecretsAreDated, EnvPcs
<1>4. CASE kind = "repo"
  <2>1. repo' = {run}
    BY <1>2, <1>3, <1>4 DEF Sweep, AfterSweep
  <2> QED BY <1>4, <2>1 DEF Carried
<1>5. CASE kind = "compose"
  <2>1. be' = run /\ fe' = [i \in DOMAIN fe |-> run] /\ be = Demo
    BY <1>1, <1>3, <1>5 DEF Sweep
  <2>2. Elems(fe') \subseteq {run}
    BY <2>1 DEF Elems
  <2> QED BY <1>5, <2>1, <2>2 DEF Carried
<1>6. CASE kind = "scripts"
  <2>1. scripts' = {run}
    BY <1>2, <1>3, <1>6 DEF Sweep, AfterSweep
  <2> QED BY <1>6, <2>1 DEF Carried
<1>7. CASE kind = "dotenv"
  <2>1. dotenv' = run
    BY <1>1, <1>3, <1>7 DEF Sweep
  <2> QED BY <1>7, <2>1 DEF Carried
<1> QED BY <1>4, <1>5, <1>6, <1>7 DEF Kinds

(* What a sweep, whole or cut short, leaves the directory in.              *)
LEMMA SweepLeaves ==
  ASSUME DirectoryInv, pc = "sweep", NEW over \in PassableOver, Sweep(over),
         pc' \in {"start", "failed"}, promised' \in {promised, Elems(attached)},
         unwritten' \in {unwritten, {}}, unswept' \in {over, {}},
         UNCHANGED <<stack, run, flags, cloned, disk, attached, used>>
  PROVE  DirTypeOK' /\ OncePerRun' /\ SecretsAreDated'
<1> USE DEF DirectoryInv
<1>0. /\ run \in 0..MaxRuns /\ run \in Nat \ {0} /\ generated \in Nat /\ generated < run
      /\ MaxRuns \in Nat /\ Len(fe) \in Nat
  BY DirectoryAssumption DEF DirTypeOK, OncePerRun, EnvPcs
<1>1. generated' = generated + 1 /\ over \subseteq Kinds
  BY DEF Sweep, PassableOver
<1>2. generated' \in 0..MaxRuns /\ generated' <= run /\ generated' # 0
  BY <1>0, <1>1
<1>3. /\ repo' \subseteq 0..run /\ scripts' \subseteq 0..run
      /\ {be', dotenv'} \subseteq 0..run \cup {Nothing}
      /\ fe' \in Seq(Secrets) /\ Len(fe') = Len(fe)
  BY SweepDates
<1>4. DirTypeOK'
  <2>1. 0..run \subseteq Secrets
    BY <1>0 DEF Secrets
  <2>2. /\ repo' \subseteq Secrets /\ scripts' \subseteq Secrets
        /\ {be', dotenv'} \subseteq Secrets \cup {Nothing} /\ Len(fe') <= MaxRuns
    BY <1>3, <2>1 DEF DirTypeOK
  <2>3. promised' \subseteq Files /\ pc' \in Pcs
    BY DEF DirTypeOK, Elems, Pcs
  <2>4. unwritten' \subseteq Kinds /\ unswept' \subseteq Kinds
    BY <1>1 DEF DirTypeOK
  <2> QED BY <1>2, <1>3, <2>2, <2>3, <2>4 DEF DirTypeOK
<1>5. OncePerRun'
  BY <1>0, <1>2, <1>3 DEF OncePerRun, EnvPcs
<1>6. SecretsAreDated'
  BY <1>2, <1>3 DEF SecretsAreDated
<1> QED BY <1>4, <1>5, <1>6

(* The sweep of the public secret, and the end of the env step. *)
LEMMA EnvEndsKeeps ==
  ASSUME DirectoryInv, EnvEnds
  PROVE  DirectoryInv'
<1> USE DEF DirectoryInv
<1>1. /\ pc = "sweep" /\ pc' = "start" /\ used = <<>> /\ promised' = Elems(attached)
      /\ UNCHANGED <<stack, run, flags, cloned, disk, attached, used, unwritten>>
      /\ IF flags.generate THEN \E over \in PassableOver : Sweep(over) /\ unswept' = over
         ELSE UNCHANGED <<repo, fe, be, scripts, dotenv, generated, unswept>>
  BY DEF EnvEnds, FilesLie, secretVars, overlayVars
<1>2. FilesLie' /\ InTheirPlaces'
  BY <1>1 DEF FilesLie, InTheirPlaces
<1>3. CASE ~flags.generate
  <2>1. Elems(attached) \subseteq Files /\ pc' \in Pcs
    BY <1>1 DEF DirTypeOK, Elems, Pcs
  <2>2. DirTypeOK' /\ OncePerRun'
    BY <1>1, <1>3, <2>1 DEF DirTypeOK, OncePerRun, EnvPcs
  <2>3. SecretsAreDated'
    BY <1>1, <1>3 DEF SecretsAreDated, EnvPcs
  <2>4. DirectoryIsWhole'
    BY <1>1, <1>3 DEF DirectoryIsWhole, StartCoversLastEnv, FilesInOrder, SecretIsSwept
  <2> QED BY <1>2, <2>2, <2>3, <2>4
<1>4. CASE flags.generate
  <2>1. PICK over \in PassableOver : Sweep(over) /\ unswept' = over
    BY <1>1, <1>4
  <2>2. DirTypeOK' /\ OncePerRun' /\ SecretsAreDated'
    <3> HIDE DEF DirectoryInv
    <3> QED BY <1>1, <2>1, SweepLeaves
  <2>3. SecretIsSwept'
    <3>1. \A kind \in Kinds \ unswept' : Demo \notin Carried(kind)'
      BY <1>1, <2>1, SweepDates
    <3>2. ASSUME generated' = 1, cloned'
          PROVE  \A kind \in Kinds \ (unswept' \cup unwritten') : Carried(kind)' = {run'}
      <4>1. generated \in Nat /\ generated' = generated + 1
        BY <2>1, DirectoryAssumption DEF Sweep, DirTypeOK
      <4>2. generated = 0 /\ cloned
        BY <1>1, <3>2, <4>1
      <4>3. \A kind \in Kinds \ (over \cup unwritten) : Carried(kind)' = {run}
        BY <1>1, <1>4, <2>1, <4>2, SweepOfFresh
      <4> QED BY <1>1, <2>1, <4>3
    <3> QED BY <3>1, <3>2 DEF SecretIsSwept
  <2>4. DirectoryIsWhole'
    BY <1>1, <2>3 DEF DirectoryIsWhole, StartCoversLastEnv, FilesInOrder
  <2> QED BY <1>2, <2>2, <2>4
<1> QED BY <1>3, <1>4

(* The server is lost while it sweeps. *)
LEMMA SweepLostKeeps ==
  ASSUME DirectoryInv, SweepLost
  PROVE  DirectoryInv'
<1> USE DEF DirectoryInv
<1>1. PICK over \in PassableOver : Sweep(over)
  BY DEF SweepLost
<1>2. /\ pc = "sweep" /\ pc' = "failed" /\ used = <<>> /\ unwritten' = {} /\ unswept' = {}
      /\ UNCHANGED <<stack, run, flags, cloned, disk, attached, used, promised>>
  BY DEF SweepLost, Fails, FilesLie, overlayVars
<1>3. FilesLie' /\ InTheirPlaces'
  BY <1>2 DEF FilesLie, InTheirPlaces
<1>4. DirTypeOK' /\ OncePerRun' /\ SecretsAreDated'
  <2> HIDE DEF DirectoryInv
  <2> QED BY <1>1, <1>2, SweepLeaves
<1> QED BY <1>2, <1>3, <1>4, WholeOnTheWay

(* What a start recovers is in its places, on the disk, and all there is   *)
(* but a hardening that has been disabled.                                 *)
LEMMA RecoveredIsInPlace ==
  ASSUME NEW s \in Recovered
  PROVE  /\ s \in Seq(Files) /\ NoRepeats(s)
         /\ "fragment" \in Elems(s) => s[1] = "fragment"
         /\ "harden" \in Elems(s) => s[Len(s)] = "harden"
         /\ Elems(s) \subseteq disk
         /\ \A o \in disk \cap Files :
              o \in Elems(s) \/ (o = "harden" /\ flags.unhardened = "process")
<1>1. PICK t \in Kept(OverlayOrder, disk) : s = RecoveredFragment \o t \o RecoveredHarden
  BY DEF Recovered
<1>2. /\ t \in Seq(Files) /\ NoRepeats(t) /\ Elems(t) = Overlays \cap disk
      /\ "fragment" \notin Elems(t) /\ "harden" \notin Elems(t)
  BY KeptOverlays
<1>3. "fragment" \in Files /\ "harden" \in Files /\ Files \subseteq Overlays \cup {"fragment", "harden"}
  BY DEF Files
<1> HIDE DEF Files
<1> DEFINE u == RecoveredFragment \o t
<1>4. /\ u \in Seq(Files) /\ NoRepeats(u) /\ "harden" \notin Elems(u)
      /\ "fragment" \in Elems(u) => u # <<>> /\ u[1] = "fragment"
      /\ Elems(u) = Elems(t) \cup (disk \cap {"fragment"})
  <2>1. CASE "fragment" \in disk
    <3>1. u = <<"fragment">> \o t
      BY <2>1 DEF RecoveredFragment
    <3>2. /\ u \in Seq(Files) /\ NoRepeats(u) /\ u # <<>> /\ u[1] = "fragment"
          /\ Elems(u) = Elems(t) \cup {"fragment"}
      <4> HIDE DEF u
      <4> QED BY <1>2, <1>3, <3>1, Prepended
    <3> HIDE DEF u
    <3> QED BY <1>2, <2>1, <3>2
  <2>2. CASE "fragment" \notin disk
    <3>1. u = t
      BY <1>2, <2>2 DEF RecoveredFragment
    <3> HIDE DEF u
    <3> QED BY <1>2, <2>2, <3>1
  <2> QED BY <2>1, <2>2
<1>5. s = u \o RecoveredHarden
  BY <1>1
<1> HIDE DEF u
<1> DEFINE hardens == "harden" \in disk /\ flags.unhardened # "process"
<1>6. CASE hardens
  <2>1. s = Append(u, "harden")
    <3>1. RecoveredHarden = <<"harden">>
      BY <1>6 DEF RecoveredHarden
    <3>2. u \o <<"harden">> = Append(u, "harden")
      BY <1>3, <1>4
    <3> QED BY <1>5, <3>1, <3>2
  <2>2. /\ s \in Seq(Files) /\ NoRepeats(s) /\ s[Len(s)] = "harden"
        /\ Elems(s) = Elems(u) \cup {"harden"}
        /\ u # <<>> => s[1] = u[1]
    BY <1>3, <1>4, <2>1, Appended
  <2>3. Elems(s) = (Overlays \cap disk) \cup (disk \cap {"fragment"}) \cup {"harden"}
    <3>1. Elems(s) = Elems(u) \cup {"harden"}
      BY <2>2
    <3>2. Elems(u) = Elems(t) \cup (disk \cap {"fragment"})
      BY <1>4
    <3>3. Elems(t) = Overlays \cap disk
      BY <1>2
    <3> QED BY <3>1, <3>2, <3>3
  <2>4. "fragment" \in Elems(s) => s[1] = "fragment"
    <3>1. "fragment" \in Elems(s) => "fragment" \in Elems(u)
      BY <2>2
    <3>2. "fragment" \in Elems(u) => u # <<>> /\ u[1] = "fragment"
      BY <1>4
    <3>3. u # <<>> => s[1] = u[1]
      BY <2>2
    <3> QED BY <3>1, <3>2, <3>3
  <2>5. Elems(s) \subseteq disk
    BY <1>6, <2>3
  <2>6. \A o \in disk \cap Files : o \in Elems(s)
    BY <1>3, <2>3
  <2> QED BY <2>2, <2>4, <2>5, <2>6
<1>7. CASE ~hardens
  <2>1. s = u
    <3>1. RecoveredHarden = <<>>
      BY <1>7 DEF RecoveredHarden
    <3> QED BY <1>4, <1>5, <3>1
  <2>2. Elems(s) = (Overlays \cap disk) \cup (disk \cap {"fragment"})
    BY <1>2, <1>4, <2>1
  <2>3. \A o \in disk \cap Files : o \in Elems(s) \/ o = "harden"
    BY <1>3, <2>2
  <2> QED BY <1>4, <1>7, <2>1, <2>2, <2>3
<1> QED BY <1>6, <1>7

(* docker compose up with what is attached. *)
LEMMA StartKeeps ==
  ASSUME DirectoryInv, Start
  PROVE  DirectoryInv'
<1> USE DEF DirectoryInv
<1>1. /\ pc = "start" /\ pc' \in {"failed", "ready"} /\ StartUses
      /\ unwritten' \in {unwritten, {}} /\ unswept' \in {unswept, {}}
      /\ UNCHANGED <<stack, run, flags, cloned, repo, fe, be, scripts, dotenv, disk, promised,
                     generated>>
  BY DEF Start, Fails, secretVars, passedOver
<1>2. /\ attached' \in Seq(Files) /\ NoRepeats(attached')
      /\ "fragment" \in Elems(attached') => attached'[1] = "fragment"
      /\ "harden" \in Elems(attached') => attached'[Len(attached')] = "harden"
      /\ Elems(attached') \subseteq disk
      /\ stack.compose =>
           \A o \in promised :
             o \in Elems(attached') \/ (o = "harden" /\ flags.unhardened = "process")
  <2>1. CASE stack.compose /\ attached = <<>>
    <3>1. PICK s \in Recovered : attached' = s
      BY <1>1, <2>1 DEF StartUses
    <3>2. promised \subseteq disk \cap Files
      BY DEF DirTypeOK, FilesLie
    <3> QED BY <3>1, <3>2, RecoveredIsInPlace
  <2>2. CASE ~(stack.compose /\ attached = <<>>)
    <3>1. attached' = attached
      BY <1>1, <2>2 DEF StartUses
    <3>2. stack.compose => promised = Elems(attached)
      BY <1>1, <2>2 DEF FilesLie
    <3>3. /\ attached \in Seq(Files) /\ NoRepeats(attached) /\ Elems(attached) \subseteq disk
          /\ "fragment" \in Elems(attached) => attached[1] = "fragment"
          /\ "harden" \in Elems(attached) => attached[Len(attached)] = "harden"
      BY DEF DirTypeOK, InTheirPlaces, FilesLie
    <3> QED BY <3>1, <3>2, <3>3
  <2> QED BY <2>1, <2>2
<1>3. "base" \notin Files /\ "harden" \in Files
  BY DirectoryAssumption DEF Files
<1> HIDE DEF Files
<1>4. /\ used' \in Seq(Files \cup {"base"})
      /\ used' # <<>> /\ stack.compose => Elems(attached') \subseteq Elems(used')
      /\ used' # <<>> =>
           /\ used'[1] = "base" /\ NoRepeats(used')
           /\ "fragment" \in Elems(used') => used'[2] = "fragment"
           /\ "harden" \in Elems(used') => used'[Len(used')] = "harden"
  <2>1. CASE ~cloned
    BY <1>1, <2>1 DEF StartUses
  <2>2. CASE cloned /\ stack.compose /\ attached' # <<>>
    <3>1. used' = <<"base">> \o attached'
      BY <1>1, <2>2 DEF StartUses
    <3>2. attached' \in Seq(Files \cup {"base"}) /\ "base" \notin Elems(attached')
      BY <1>2, <1>3 DEF Elems
    <3>3. PICK s \in Seq(Files \cup {"base"}) : s = attached'
      BY <3>2
    <3>4. /\ used' \in Seq(Files \cup {"base"}) /\ used'[1] = "base"
          /\ Elems(used') = Elems(s) \cup {"base"}
          /\ used'[2] = s[1] /\ used'[Len(used')] = s[Len(s)]
          /\ NoRepeats(used')
      BY <1>2, <2>2, <3>1, <3>2, <3>3, Prepended
    <3> QED BY <1>2, <3>3, <3>4
  <2>3. CASE cloned /\ ~(stack.compose /\ attached' # <<>>)
    <3>1. used' \in {<<"base">>, <<"base", "harden">>}
      BY <1>1, <2>3 DEF StartUses, Implicit
    <3>2. stack.compose => Elems(attached') = {}
      BY <2>3, NoFiles
    <3>3. used' \in Seq(Files \cup {"base"}) /\ used'[1] = "base"
      <4>1. PICK T : T = Files \cup {"base"}
        OBVIOUS
      <4>2. "base" \in T /\ "harden" \in T
        BY <1>3, <4>1
      <4>3. <<"base">> \in Seq(T) /\ <<"base", "harden">> \in Seq(T)
        BY <4>2
      <4>4. <<"base">>[1] = "base" /\ <<"base", "harden">>[1] = "base"
        OBVIOUS
      <4>5. used' \in Seq(T)
        BY <3>1, <4>3
      <4> QED BY <3>1, <4>1, <4>4, <4>5
    <3>4. NoRepeats(used') /\ "fragment" \notin Elems(used')
      BY <3>1 DEF NoRepeats, Elems
    <3>5. "harden" \in Elems(used') => used'[Len(used')] = "harden"
      BY <3>1 DEF Elems
    <3> QED BY <3>2, <3>3, <3>4, <3>5
  <2> QED BY <2>1, <2>2, <2>3
<1>5. DirTypeOK'
  BY <1>1, <1>2, <1>4 DEF DirTypeOK, Pcs
<1>6. OncePerRun'
  BY <1>1 DEF OncePerRun, EnvPcs
<1>7. FilesLie'
  BY <1>1, <1>2 DEF FilesLie
<1>8. InTheirPlaces'
  BY <1>1, <1>2 DEF InTheirPlaces
<1>9. SecretsAreDated'
  BY <1>1 DEF SecretsAreDated, EnvPcs
<1>10. DirectoryIsWhole'
  <2>1. StartCoversLastEnv'
    BY <1>1, <1>2, <1>4 DEF StartCoversLastEnv
  <2>2. FilesInOrder'
    BY <1>4 DEF FilesInOrder
  <2>3. SecretIsSwept'
    BY <1>1 DEF SecretIsSwept
  <2> QED BY <2>1, <2>2, <2>3 DEF DirectoryIsWhole
<1> QED BY <1>5, <1>6, <1>7, <1>8, <1>9, <1>10

(* Every step of a run, every failure and loss keeps the invariant. *)
LEMMA DirectoryInvHolds == Spec => []DirectoryInv
<1>1. Init => DirectoryInv
  <2> SUFFICES ASSUME Init
               PROVE  DirectoryInv
    OBVIOUS
  <2> USE DEF Init
  <2>1. /\ 0 \in 0..MaxRuns /\ 0 <= MaxRuns /\ NoFlags \in Flags
        /\ <<>> \in Seq(Files \cup {"base"})
    BY DirectoryAssumption DEF NoFlags, Flags
  <2>2. DirTypeOK
    BY <2>1, NoFiles DEF DirTypeOK, Pcs
  <2>3. OncePerRun /\ FilesLie /\ InTheirPlaces
    BY NoFiles DEF OncePerRun, FilesLie, InTheirPlaces, EnvPcs
  <2>4. SecretsAreDated /\ DirectoryIsWhole
    BY DEF SecretsAreDated, EnvPcs, DirectoryIsWhole, StartCoversLastEnv, FilesInOrder,
         SecretIsSwept
  <2> QED BY <2>2, <2>3, <2>4 DEF DirectoryInv
<1>2. DirectoryInv /\ [Next]_vars => DirectoryInv'
  <2> SUFFICES ASSUME DirectoryInv, [Next]_vars
               PROVE  DirectoryInv'
    OBVIOUS
  <2>1. CASE Next
    BY <2>1, BeginRunKeeps, CloneKeeps, CloneFailsKeeps, EnvPatchKeeps, EnvBootstrapKeeps,
       EnvOverlaysKeeps, EnvFragmentKeeps, EnvHardenKeeps, EnvDotenvKeeps, StopsKeeps,
       EnvEndsKeeps, SweepLostKeeps, StartKeeps DEF Next
  <2>2. CASE UNCHANGED vars
    <3> USE <2>2 DEF vars, secretVars, overlayVars, history, passedOver, DirectoryInv
    <3>1. DirTypeOK' /\ OncePerRun' /\ FilesLie'
      BY DEF DirTypeOK, OncePerRun, EnvPcs, FilesLie
    <3>2. InTheirPlaces' /\ SecretsAreDated'
      BY DEF InTheirPlaces, SecretsAreDated, EnvPcs
    <3>3. DirectoryIsWhole'
      BY DEF DirectoryIsWhole, StartCoversLastEnv, FilesInOrder, SecretIsSwept, Carried
    <3> QED BY <3>1, <3>2, <3>3
  <2> QED BY <2>1, <2>2
<1> QED BY <1>1, <1>2, PTL DEF Spec

(* Whatever runs, failures, losses and retries came before, with overlays  *)
(* and overrides of any kind: a start uses every compose file the last     *)
(* whole env step attached, in the order the later ones override, and a    *)
(* run that generates a secret leaves the public one in no file            *)
(* (_step_cmd, _reconstruct_overlays_from_disk, _step_env).                *)
THEOREM DirectoriesAreWhole == Spec => []DirectoryIsWhole
<1>1. DirectoryInv => DirectoryIsWhole
  BY DEF DirectoryInv
<1> QED BY <1>1, DirectoryInvHolds, PTL

-----------------------------------------------------------------------------
(* The builds of the stack builder *)

(* What is at work for a record is none of its other states. *)
LEMMA RunningStates ==
  /\ RUNNING_STATES = {"READY_TO_INSTALL", "WRITING_ENV", "STARTING_STACK", "BOOTSTRAPPING",
                       "SMOKE_TESTING"}
  /\ \A p \in Phases : PhaseState[p] \in RUNNING_STATES
<1>1. /\ PhaseState["versions"] = "READY_TO_INSTALL" /\ PhaseState["resolve"] = "READY_TO_INSTALL"
      /\ PhaseState["compose"] = "WRITING_ENV" /\ PhaseState["ai_config"] = "WRITING_ENV"
      /\ PhaseState["write_files"] = "WRITING_ENV" /\ PhaseState["start"] = "STARTING_STACK"
      /\ PhaseState["post_cfg"] = "BOOTSTRAPPING" /\ PhaseState["verify"] = "SMOKE_TESTING"
      /\ PhaseState["summary"] = "SMOKE_TESTING"
  BY DEF PhaseState, Phases
<1>2. \A p \in Phases : PhaseState[p] \in RUNNING_STATES
  BY DEF RUNNING_STATES
<1> QED BY <1>1, <1>2 DEF RUNNING_STATES, Phases

Marks == {"pending", "active", "done", "failed"}

(* The phases of one build are marked, and those of no other. *)
LEMMA MarksOfOne ==
  ASSUME BuildsTypeOK, NEW b \in Builds, NEW done, NEW p \in Phases, NEW mark \in Marks,
         Marked(b, done, p, mark)
  PROVE  /\ phases' \in [Builds -> [Phases -> Marks]]
         /\ \A a \in Builds \ {b} : phases'[a] = phases[a]
         /\ phases'[b] = [q \in Phases |-> IF q = p THEN mark
                                           ELSE IF q \in done THEN "done" ELSE phases[b][q]]
<1>1. phases \in [Builds -> [Phases -> Marks]]
  BY DEF BuildsTypeOK, Marks
<1> DEFINE new == [q \in Phases |-> IF q = p THEN mark
                                    ELSE IF q \in done THEN "done" ELSE phases[b][q]]
<1>2. phases' = [phases EXCEPT ![b] = new]
  BY DEF Marked
<1>3. new \in [Phases -> Marks]
  BY <1>1 DEF Marks
<1> HIDE DEF new
<1>5. phases'[b] = new /\ \A a \in Builds \ {b} : phases'[a] = phases[a]
  BY <1>1, <1>2
<1>6. phases' \in [Builds -> [Phases -> Marks]]
  BY <1>1, <1>2, <1>3
<1> QED BY <1>5, <1>6 DEF new

(* A record is written for one build, if it is still there. *)
LEMMA RecordOfOne ==
  ASSUME BuildsTypeOK, NEW b \in Builds,
         NEW to \in RUNNING_STATES \cup {"READY", "FAILED"}, Recorded(b, to)
  PROVE  /\ record' \in [Builds -> RUNNING_STATES \cup {"none", "DRAFT", "READY", "FAILED", "gone"}]
         /\ \A a \in Builds \ {b} : record'[a] = record[a]
         /\ record'[b] = IF record[b] \in {"none", "gone"} THEN record[b] ELSE to
BY DEF BuildsTypeOK, Recorded

(* A job that goes on from one stop to the next. *)
LEMMA GoesOn ==
  ASSUME BuildsInv, NEW b \in Builds, state[b] = "running", NEW done, NEW p \in Stops,
         Goes(b, done, p), state' = state,
         current[b] \in done, p \notin done, p \notin DoneAt(p),
         DoneAt(p) = DoneAt(current[b]) \cup done
  PROVE  /\ phases' \in [Builds -> [Phases -> Marks]]
         /\ current' \in [Builds -> Phases \cup {"none"}]
         /\ record' \in [Builds -> RUNNING_STATES \cup {"none", "DRAFT", "READY", "FAILED", "gone"}]
         /\ PhasesInOrder' /\ RecordFollows'
         /\ current'[b] = p /\ record[b] # "READY" /\ record'[b] # "READY"
         /\ record'[b] \in RUNNING_STATES => record[b] \in RUNNING_STATES
         /\ \A a \in Builds \ {b} : record'[a] = record[a] /\ current'[a] = current[a]
<1>1. p \in Phases /\ "active" \in Marks
  BY DEF Stops, Phases, Marks
<1>2. BuildsTypeOK /\ PhasesInOrder /\ RecordFollows
  BY DEF BuildsInv
<1>3. /\ phases' \in [Builds -> [Phases -> Marks]]
      /\ \A a \in Builds \ {b} : phases'[a] = phases[a]
      /\ \A q \in Phases :
           phases'[b][q] = IF q = p THEN "active" ELSE IF q \in done THEN "done" ELSE phases[b][q]
  <2>1. Marked(b, done, p, "active")
    BY DEF Goes
  <2>3. phases' \in [Builds -> [Phases -> Marks]]
    BY <1>1, <1>2, <2>1, MarksOfOne
  <2>4. \A a \in Builds \ {b} : phases'[a] = phases[a]
    BY <1>1, <1>2, <2>1, MarksOfOne
  <2>5. phases'[b] = [q \in Phases |-> IF q = p THEN "active"
                                      ELSE IF q \in done THEN "done" ELSE phases[b][q]]
    BY <1>1, <1>2, <2>1, MarksOfOne
  <2> QED BY <2>3, <2>4, <2>5
<1>4. current \in [Builds -> Phases \cup {"none"}] /\ current' = [current EXCEPT ![b] = p]
  BY <1>2 DEF BuildsTypeOK, Goes
<1>5. /\ current' \in [Builds -> Phases \cup {"none"}]
      /\ current'[b] = p /\ \A a \in Builds \ {b} : current'[a] = current[a]
  BY <1>1, <1>4
<1>6. PhasesInOrder'
  <2> SUFFICES ASSUME NEW a \in Builds
               PROVE  /\ state[a] \in {"unused", "pending"} =>
                           \A q \in Phases : phases'[a][q] = "pending"
                      /\ state[a] = "running" =>
                           /\ current'[a] \in Stops
                           /\ \A q \in Phases :
                                phases'[a][q] = IF q = current'[a] THEN "active"
                                                ELSE IF q \in DoneAt(current'[a]) THEN "done"
                                                ELSE "pending"
                      /\ state[a] = "failed" =>
                           /\ current'[a] \in Phases
                           /\ \A q \in Phases :
                                phases'[a][q] \in IF q = current'[a] THEN {"failed"}
                                                  ELSE {"done", "pending"}
                      /\ state[a] = "done" => \A q \in Phases : phases'[a][q] = "done"
    BY DEF PhasesInOrder
  <2>1. CASE a = b
    <3>1. \A q \in Phases : phases[b][q] = IF q = current[b] THEN "active"
                                           ELSE IF q \in DoneAt(current[b]) THEN "done"
                                           ELSE "pending"
      BY <1>2 DEF PhasesInOrder
    <3>2. \A q \in Phases : phases'[b][q] = IF q = p THEN "active"
                                            ELSE IF q \in DoneAt(p) THEN "done" ELSE "pending"
      BY <1>3, <3>1
    <3> QED BY <1>5, <2>1, <3>2
  <2>2. CASE a # b
    BY <1>2, <1>3, <1>5, <2>2 DEF PhasesInOrder
  <2> QED BY <2>1, <2>2
<1>8. /\ record' \in [Builds -> RUNNING_STATES \cup {"none", "DRAFT", "READY", "FAILED", "gone"}]
      /\ \A a \in Builds \ {b} : record'[a] = record[a]
      /\ record'[b] = IF record[b] \in {"none", "gone"} THEN record[b] ELSE PhaseState[p]
  <2>1. PhaseState[p] \in RUNNING_STATES
    BY <1>1, RunningStates
  <2> QED BY <1>2, <2>1, RecordOfOne DEF Goes
<1>7. RecordFollows'
  <2>1. PhaseState[p] \in RUNNING_STATES
    BY <1>1, RunningStates
  <2> QED BY <1>2, <2>1, <1>8 DEF RecordFollows
<1>9. "READY" \notin RUNNING_STATES \cup {"none", "gone"} /\ PhaseState[p] # "READY"
  BY <1>1, RunningStates
<1>10. record[b] \in RUNNING_STATES \cup {"none", "gone"}
  BY <1>2 DEF RecordFollows
<1>11. /\ record[b] # "READY" /\ record'[b] # "READY"
       /\ record'[b] \in RUNNING_STATES => record[b] \in RUNNING_STATES
  <2>1. record[b] \in {"none", "gone"} => record'[b] \notin RUNNING_STATES
    BY <1>8, RunningStates
  <2> QED BY <1>8, <1>9, <1>10, <2>1
<1> QED BY <1>3, <1>5, <1>6, <1>7, <1>8, <1>11

(* A job that fails, in the phase it is in or one it has gone on to. *)
LEMMA FailsThere ==
  ASSUME BuildsInv, NEW b \in Builds, state[b] = "running", NEW done, NEW p \in Phases,
         FailsIn(b, done, p), current[b] \in done \cup {p}, p \notin done
  PROVE  /\ phases' \in [Builds -> [Phases -> Marks]]
         /\ current' \in [Builds -> Phases \cup {"none"}]
         /\ record' \in [Builds -> RUNNING_STATES \cup {"none", "DRAFT", "READY", "FAILED", "gone"}]
         /\ PhasesInOrder' /\ RecordFollows'
         /\ state' = [state EXCEPT ![b] = "failed"] /\ record'[b] \in {"FAILED", "none", "gone"}
         /\ \A a \in Builds \ {b} : record'[a] = record[a] /\ current'[a] = current[a]
<1>2. BuildsTypeOK /\ PhasesInOrder /\ RecordFollows
  BY DEF BuildsInv
<1>3. /\ phases' \in [Builds -> [Phases -> Marks]]
      /\ \A a \in Builds \ {b} : phases'[a] = phases[a]
      /\ \A q \in Phases :
           phases'[b][q] = IF q = p THEN "failed" ELSE IF q \in done THEN "done" ELSE phases[b][q]
  <2>1. Marked(b, done, p, "failed")
    BY DEF FailsIn
  <2>2. "failed" \in Marks /\ p \in Phases
    BY DEF Marks
  <2>3. phases' \in [Builds -> [Phases -> Marks]]
    BY <1>2, <2>1, <2>2, MarksOfOne
  <2>4. \A a \in Builds \ {b} : phases'[a] = phases[a]
    BY <1>2, <2>1, <2>2, MarksOfOne
  <2>5. phases'[b] = [q \in Phases |-> IF q = p THEN "failed"
                                      ELSE IF q \in done THEN "done" ELSE phases[b][q]]
    BY <1>2, <2>1, <2>2, MarksOfOne
  <2> QED BY <2>3, <2>4, <2>5
<1>4. current \in [Builds -> Phases \cup {"none"}] /\ current' = [current EXCEPT ![b] = p]
  BY <1>2 DEF BuildsTypeOK, FailsIn
<1>5. /\ current' \in [Builds -> Phases \cup {"none"}]
      /\ current'[b] = p /\ \A a \in Builds \ {b} : current'[a] = current[a]
  BY <1>4
<1>6. /\ state' = [state EXCEPT ![b] = "failed"]
      /\ state'[b] = "failed" /\ \A a \in Builds \ {b} : state'[a] = state[a]
  BY <1>2 DEF BuildsTypeOK, FailsIn
<1>7. PhasesInOrder'
  <2> SUFFICES ASSUME NEW a \in Builds
               PROVE  /\ state'[a] \in {"unused", "pending"} =>
                           \A q \in Phases : phases'[a][q] = "pending"
                      /\ state'[a] = "running" =>
                           /\ current'[a] \in Stops
                           /\ \A q \in Phases :
                                phases'[a][q] = IF q = current'[a] THEN "active"
                                                ELSE IF q \in DoneAt(current'[a]) THEN "done"
                                                ELSE "pending"
                      /\ state'[a] = "failed" =>
                           /\ current'[a] \in Phases
                           /\ \A q \in Phases :
                                phases'[a][q] \in IF q = current'[a] THEN {"failed"}
                                                  ELSE {"done", "pending"}
                      /\ state'[a] = "done" => \A q \in Phases : phases'[a][q] = "done"
    BY DEF PhasesInOrder
  <2>1. CASE a = b
    <3>1. \A q \in Phases : phases[b][q] = IF q = current[b] THEN "active"
                                           ELSE IF q \in DoneAt(current[b]) THEN "done"
                                           ELSE "pending"
      BY <1>2 DEF PhasesInOrder
    <3>2. \A q \in Phases : phases'[b][q] \in IF q = p THEN {"failed"} ELSE {"done", "pending"}
      BY <1>3, <3>1
    <3> QED BY <1>5, <1>6, <2>1, <3>2
  <2>2. CASE a # b
    BY <1>2, <1>3, <1>5, <1>6, <2>2 DEF PhasesInOrder
  <2> QED BY <2>1, <2>2
<1>8. /\ record' \in [Builds -> RUNNING_STATES \cup {"none", "DRAFT", "READY", "FAILED", "gone"}]
      /\ \A a \in Builds \ {b} : record'[a] = record[a]
      /\ record'[b] \in {"FAILED", "none", "gone"}
  BY <1>2, RecordOfOne DEF FailsIn
<1>9. RecordFollows'
  BY <1>2, <1>6, <1>8 DEF RecordFollows
<1> QED BY <1>3, <1>5, <1>6, <1>7, <1>8, <1>9

(* What the places where a job stops have been through. *)
LEMMA StopsInOrder ==
  /\ DoneAt("versions") = {}
  /\ DoneAt("ai_config") = {"versions", "resolve", "compose"}
  /\ DoneAt("start") = {"versions", "resolve", "compose", "ai_config", "write_files"}
  /\ DoneAt("post_cfg") = {"versions", "resolve", "compose", "ai_config", "write_files", "start"}
  /\ DoneAt("verify") = {"versions", "resolve", "compose", "ai_config", "write_files", "start",
                         "post_cfg"}
  /\ Phases = {"versions", "resolve", "compose", "ai_config", "write_files", "start", "post_cfg",
               "verify", "summary"}
BY DEF DoneAt, Phases

(* A new build has neither a phase at work nor a stack. *)
LEMMA StartBuildKeeps ==
  ASSUME BuildsInv, NEW b \in Builds, NEW n \in Names, NEW cs \in (SUBSET Components) \ {{}},
         StartBuild(b, n, cs)
  PROVE  BuildsInv'
<1>1. BuildsTypeOK /\ PhasesInOrder /\ RecordFollows /\ StackIsThere
  BY DEF BuildsInv
<1>2. /\ state[b] = "unused" /\ state' = [state EXCEPT ![b] = "pending"]
      /\ name' = [name EXCEPT ![b] = n] /\ comps' = [comps EXCEPT ![b] = cs]
      /\ UNCHANGED <<current, phases, compose, project, listed, waits, removing, disturbed, losses>>
  BY DEF StartBuild
<1>3. PICK r \in {"DRAFT", "none"} : record' = [record EXCEPT ![b] = r]
  BY DEF StartBuild
<1>4. \A a \in Builds \ {b} : /\ state'[a] = state[a] /\ name'[a] = name[a]
                              /\ comps'[a] = comps[a] /\ record'[a] = record[a]
  BY <1>1, <1>2, <1>3 DEF BuildsTypeOK
<1>5. state'[b] = "pending" /\ record'[b] = r /\ name'[b] = n
  BY <1>1, <1>2, <1>3 DEF BuildsTypeOK
<1>6. BuildsTypeOK'
  <2>1. /\ state' \in [Builds -> {"unused", "pending", "running", "done", "failed", "lost"}]
        /\ name' \in [Builds -> Names \cup {"none"}]
        /\ comps' \in [Builds -> SUBSET Components]
        /\ record' \in [Builds -> RUNNING_STATES \cup {"none", "DRAFT", "READY", "FAILED", "gone"}]
    BY <1>1, <1>2, <1>3 DEF BuildsTypeOK
  <2>2. \A a \in Builds : state'[a] # "unused" => name'[a] \in Names
    BY <1>1, <1>4, <1>5 DEF BuildsTypeOK
  <2> QED BY <1>1, <1>2, <2>1, <2>2 DEF BuildsTypeOK
<1>7. PhasesInOrder'
  BY <1>1, <1>2, <1>4, <1>5 DEF PhasesInOrder
<1>8. RecordFollows'
  BY <1>1, <1>3, <1>4, <1>5 DEF RecordFollows
<1>9. StackIsThere'
  <2>1. r \notin RUNNING_STATES \cup {"READY"}
    BY RunningStates
  <2> QED BY <1>1, <1>2, <1>4, <1>5, <2>1 DEF StackIsThere, Untouched, Has
<1> QED BY <1>6, <1>7, <1>8, <1>9 DEF BuildsInv

(* A build that begins has its record on its way, and no stack yet. *)
LEMMA RunKeeps ==
  ASSUME BuildsInv, NEW b \in Builds, Run(b)
  PROVE  BuildsInv'
<1>1. BuildsTypeOK /\ PhasesInOrder /\ RecordFollows /\ StackIsThere
  BY DEF BuildsInv
<1>2. /\ state[b] = "pending" /\ state' = [state EXCEPT ![b] = "running"]
      /\ current' = [current EXCEPT ![b] = "versions"]
      /\ Marked(b, {}, "versions", "active") /\ Recorded(b, PhaseState["versions"])
      /\ UNCHANGED <<name, comps, compose, project, listed, waits, removing, disturbed, losses>>
  BY DEF Run, Goes
<1>3. /\ "versions" \in Phases /\ "active" \in Marks /\ PhaseState["versions"] \in RUNNING_STATES
  BY RunningStates DEF Phases, Marks
<1>4. /\ phases' \in [Builds -> [Phases -> Marks]]
      /\ \A a \in Builds \ {b} : phases'[a] = phases[a]
      /\ \A q \in Phases : phases'[b][q] = IF q = "versions" THEN "active" ELSE phases[b][q]
  <2>1. Marked(b, {}, "versions", "active")
    BY <1>2
  <2>2. "versions" \in Phases /\ "active" \in Marks
    BY <1>3
  <2>3. phases' \in [Builds -> [Phases -> Marks]]
    BY <1>1, <2>1, <2>2, MarksOfOne
  <2>4. \A a \in Builds \ {b} : phases'[a] = phases[a]
    BY <1>1, <2>1, <2>2, MarksOfOne
  <2>5. phases'[b] = [q \in Phases |-> IF q = "versions" THEN "active"
                                      ELSE IF q \in {} THEN "done" ELSE phases[b][q]]
    BY <1>1, <2>1, <2>2, MarksOfOne
  <2> QED BY <2>3, <2>4, <2>5
<1>5. /\ record' \in [Builds -> RUNNING_STATES \cup {"none", "DRAFT", "READY", "FAILED", "gone"}]
      /\ \A a \in Builds \ {b} : record'[a] = record[a]
      /\ record'[b] = IF record[b] \in {"none", "gone"} THEN record[b] ELSE PhaseState["versions"]
  BY <1>1, <1>2, <1>3, RecordOfOne
<1>6. /\ \A a \in Builds \ {b} : state'[a] = state[a] /\ current'[a] = current[a]
      /\ state'[b] = "running" /\ current'[b] = "versions"
  BY <1>1, <1>2 DEF BuildsTypeOK
<1>7. BuildsTypeOK'
  <2>1. /\ state' \in [Builds -> {"unused", "pending", "running", "done", "failed", "lost"}]
        /\ current' \in [Builds -> Phases \cup {"none"}]
    BY <1>1, <1>2, <1>3 DEF BuildsTypeOK
  <2>2. \A a \in Builds : state'[a] # "unused" => name'[a] \in Names
    BY <1>1, <1>2, <1>6 DEF BuildsTypeOK
  <2> QED BY <1>1, <1>2, <1>4, <1>5, <2>1, <2>2 DEF BuildsTypeOK, Marks
<1>8. PhasesInOrder'
  <2>1. \A q \in Phases : phases[b][q] = "pending"
    BY <1>1, <1>2 DEF PhasesInOrder
  <2>2. "versions" \in Stops /\ DoneAt("versions") = {}
    BY StopsInOrder DEF Stops
  <2> QED BY <1>1, <1>4, <1>6, <2>1, <2>2 DEF PhasesInOrder
<1>9. RecordFollows'
  BY <1>1, <1>2, <1>3, <1>5, <1>6 DEF RecordFollows
<1>10. StackIsThere'
  <2>1. "READY" \notin RUNNING_STATES
    BY RunningStates
  <2>2. record'[b] # "READY"
    BY <1>1, <1>2, <1>3, <1>5, <2>1 DEF RecordFollows
  <2> QED BY <1>1, <1>2, <1>5, <1>6, <2>2 DEF StackIsThere, Untouched, Has
<1> QED BY <1>7, <1>8, <1>9, <1>10 DEF BuildsInv

(* After a job has gone on or failed: what is left to see is its stack. *)
LEMMA JobStepKeeps ==
  ASSUME BuildsInv, NEW b \in Builds, state[b] = "running",
         \/ /\ state' = state
            /\ \E p \in Stops, done \in SUBSET Phases :
                 /\ Goes(b, done, p) /\ current[b] \in done /\ p \notin done
                 /\ p \notin DoneAt(p) /\ DoneAt(p) = DoneAt(current[b]) \cup done
         \/ \E p \in Phases, done \in SUBSET Phases :
              FailsIn(b, done, p) /\ current[b] \in done \cup {p} /\ p \notin done,
         UNCHANGED <<name, comps, removing, losses>>,
         compose' \in [Names -> Builds \cup {NoBuild}],
         project' \in [Components -> Names \cup {"none"}],
         listed' \in [Builds -> SUBSET Components],
         waits' \in [Builds -> {"none", "list", "remove", "up"}],
         disturbed' \subseteq Builds,
         StackIsThere'
  PROVE  BuildsInv'
<1>1. BuildsTypeOK
  BY DEF BuildsInv
<1>2. CASE /\ state' = state
           /\ \E p \in Stops, done \in SUBSET Phases :
                 /\ Goes(b, done, p) /\ current[b] \in done /\ p \notin done
                 /\ p \notin DoneAt(p) /\ DoneAt(p) = DoneAt(current[b]) \cup done
  <2>1. PICK p \in Stops, done \in SUBSET Phases :
                 /\ Goes(b, done, p) /\ current[b] \in done /\ p \notin done
                 /\ p \notin DoneAt(p) /\ DoneAt(p) = DoneAt(current[b]) \cup done
    BY <1>2
  <2>2. /\ phases' \in [Builds -> [Phases -> Marks]]
        /\ current' \in [Builds -> Phases \cup {"none"}]
        /\ record' \in [Builds -> RUNNING_STATES \cup {"none", "DRAFT", "READY", "FAILED", "gone"}]
        /\ PhasesInOrder' /\ RecordFollows'
    BY <1>2, <2>1, GoesOn
  <2>3. BuildsTypeOK'
    BY <1>1, <1>2, <2>2 DEF BuildsTypeOK, Marks
  <2> QED BY <2>2, <2>3 DEF BuildsInv
<1>3. CASE \E p \in Phases, done \in SUBSET Phases :
              FailsIn(b, done, p) /\ current[b] \in done \cup {p} /\ p \notin done
  <2>1. PICK p \in Phases, done \in SUBSET Phases :
              FailsIn(b, done, p) /\ current[b] \in done \cup {p} /\ p \notin done
    BY <1>3
  <2>2. /\ phases' \in [Builds -> [Phases -> Marks]]
        /\ current' \in [Builds -> Phases \cup {"none"}]
        /\ record' \in [Builds -> RUNNING_STATES \cup {"none", "DRAFT", "READY", "FAILED", "gone"}]
        /\ PhasesInOrder' /\ RecordFollows' /\ state' = [state EXCEPT ![b] = "failed"]
    BY <2>1, FailsThere
  <2>3. /\ state' \in [Builds -> {"unused", "pending", "running", "done", "failed", "lost"}]
        /\ \A a \in Builds : state'[a] # "unused" => name'[a] \in Names
    BY <1>1, <2>2 DEF BuildsTypeOK
  <2>4. BuildsTypeOK'
    BY <1>1, <2>2, <2>3 DEF BuildsTypeOK, Marks
  <2> QED BY <2>2, <2>4 DEF BuildsInv
<1> QED BY <1>2, <1>3

(* The stacks of the builds that are left alone are still there, whatever  *)
(* one job does: it has not failed them, so their records and places are   *)
(* the same.                                                               *)
LEMMA FailedStackIsThere ==
  ASSUME BuildsInv, NEW b \in Builds, state[b] = "running",
         NEW done, NEW p \in Phases, FailsIn(b, done, p),
         current[b] \in done \cup {p}, p \notin done,
         UNCHANGED <<name, comps, compose, project, removing, disturbed>>
  PROVE  StackIsThere'
<1>1. /\ record'[b] \in {"FAILED", "none", "gone"}
      /\ \A a \in Builds \ {b} : record'[a] = record[a] /\ current'[a] = current[a]
  BY FailsThere
<1>2. record'[b] \notin RUNNING_STATES \cup {"READY"}
  BY <1>1, RunningStates
<1> QED BY <1>1, <1>2 DEF StackIsThere, Untouched, Has, BuildsInv

(* A job that goes on without a container has the stack it had. *)
LEMMA GoneOnStackIsThere ==
  ASSUME BuildsInv, NEW b \in Builds, state[b] = "running",
         NEW done, NEW p \in Stops, Goes(b, done, p), state' = state,
         current[b] \in done, p \notin done, p \notin DoneAt(p),
         DoneAt(p) = DoneAt(current[b]) \cup done,
         current[b] # "versions",
         p \in {"post_cfg", "verify"} => current[b] \in {"post_cfg", "verify"},
         UNCHANGED <<name, comps, compose, project, removing, disturbed>>
  PROVE  StackIsThere'
<1>1. /\ current'[b] = p /\ record[b] # "READY" /\ record'[b] # "READY"
      /\ record'[b] \in RUNNING_STATES => record[b] \in RUNNING_STATES
      /\ \A a \in Builds \ {b} : record'[a] = record[a] /\ current'[a] = current[a]
  BY GoesOn
<1> SUFFICES ASSUME NEW a \in Builds, Untouched(a)'
             PROVE  /\ record'[a] = "READY" \/ current'[a] # "versions" => compose'[name'[a]] = a
                    /\ record'[a] = "READY" \/ current'[a] \in {"post_cfg", "verify"} =>
                         comps'[a] \subseteq Has(a)'
  BY DEF StackIsThere
<1>2. Untouched(a)
  BY <1>1 DEF Untouched
<1> QED BY <1>1, <1>2 DEF StackIsThere, Has, BuildsInv

(* A build writes its compose file, and with it those of its name are no   *)
(* longer left alone.                                                      *)
LEMMA VersionsKnownKeeps ==
  ASSUME BuildsInv, NEW b \in Builds, VersionsKnown(b)
  PROVE  BuildsInv'
<1>1. /\ BuildsTypeOK /\ RecordFollows /\ StackIsThere
      /\ state[b] = "running" /\ current[b] = "versions"
      /\ UNCHANGED <<name, comps, project, listed, waits, removing, losses>>
  BY DEF BuildsInv, VersionsKnown, In
<1>2. ASSUME Goes(b, {"versions", "resolve", "compose"}, "ai_config"),
             compose' = [compose EXCEPT ![name[b]] = b],
             disturbed' = disturbed \cup SameStack(b), UNCHANGED state
      PROVE  BuildsInv'
  <2> DEFINE done == {"versions", "resolve", "compose"}
  <2>1. /\ done \in SUBSET Phases /\ "ai_config" \in Stops
        /\ current[b] \in done /\ "ai_config" \notin done /\ "ai_config" \notin DoneAt("ai_config")
        /\ DoneAt("ai_config") = DoneAt(current[b]) \cup done
    BY <1>1, StopsInOrder DEF Stops
  <2>2. Goes(b, done, "ai_config")
    BY <1>2
  <2> HIDE DEF done
  <2>3. /\ current'[b] = "ai_config" /\ record'[b] # "READY"
        /\ \A a \in Builds \ {b} : record'[a] = record[a] /\ current'[a] = current[a]
    BY <1>1, <1>2, <2>1, <2>2, GoesOn
  <2>4. name[b] \in Names
    BY <1>1 DEF BuildsTypeOK
  <2>5. /\ compose' \in [Names -> Builds \cup {NoBuild}] /\ compose'[name[b]] = b
        /\ \A n \in Names \ {name[b]} : compose'[n] = compose[n]
    BY <1>1, <1>2, <2>4 DEF BuildsTypeOK
  <2>6. StackIsThere'
    <3> SUFFICES ASSUME NEW a \in Builds, Untouched(a)'
                 PROVE  /\ record'[a] = "READY" \/ current'[a] # "versions" => compose'[name'[a]] = a
                        /\ record'[a] = "READY" \/ current'[a] \in {"post_cfg", "verify"} =>
                             comps'[a] \subseteq Has(a)'
      BY DEF StackIsThere
    <3>1. CASE a = b
      BY <1>1, <2>3, <2>5, <3>1
    <3>2. CASE a # b
      <4>1. Untouched(a)
        BY <1>1, <1>2, <2>3, <3>2 DEF Untouched
      <4>2. state[a] # "unused"
        BY <1>1, <4>1, RunningStates DEF Untouched, RecordFollows
      <4>3. name[a] \in Names \ {name[b]}
        BY <1>1, <1>2, <3>2, <4>2 DEF Untouched, SameStack, BuildsTypeOK
      <4> QED BY <1>1, <2>3, <2>5, <3>2, <4>1, <4>3 DEF StackIsThere, Has
    <3> QED BY <3>1, <3>2
  <2>7. disturbed' \subseteq Builds
    BY <1>1, <1>2 DEF BuildsTypeOK, SameStack
  <2>8. \E p \in Stops, d \in SUBSET Phases :
                 /\ Goes(b, d, p) /\ current[b] \in d /\ p \notin d
                 /\ p \notin DoneAt(p) /\ DoneAt(p) = DoneAt(current[b]) \cup d
    BY <2>1, <2>2
  <2> QED BY <1>1, <1>2, <2>5, <2>6, <2>7, <2>8, JobStepKeeps DEF BuildsTypeOK
<1>3. ASSUME NEW p \in {"versions", "compose"}, NEW done \in SUBSET Phases, FailsIn(b, done, p),
             current[b] \in done \cup {p}, p \notin done, UNCHANGED <<compose, disturbed>>
      PROVE  BuildsInv'
  <2>1. p \in Phases
    BY DEF Phases
  <2>2. StackIsThere'
    BY <1>1, <1>3, <2>1, FailedStackIsThere
  <2>3. \E q \in Phases, d \in SUBSET Phases :
              FailsIn(b, d, q) /\ current[b] \in d \cup {q} /\ q \notin d
    BY <1>3, <2>1
  <2> QED BY <1>1, <1>3, <2>2, <2>3, JobStepKeeps DEF BuildsTypeOK
<1>4. CASE FailsIn(b, {}, "versions") /\ UNCHANGED <<compose, disturbed>>
  BY <1>1, <1>3, <1>4
<1>5. CASE FailsIn(b, {"versions", "resolve"}, "compose") /\ UNCHANGED <<compose, disturbed>>
  <2>1. /\ {"versions", "resolve"} \in SUBSET Phases
        /\ current[b] \in {"versions", "resolve"} \cup {"compose"}
        /\ "compose" \notin {"versions", "resolve"}
    BY <1>1 DEF Phases
  <2> QED BY <1>3, <1>5, <2>1
<1> QED BY <1>2, <1>4, <1>5 DEF VersionsKnown

(* The files are written and patched, or that fails. *)
LEMMA ConfigKnownKeeps ==
  ASSUME BuildsInv, NEW b \in Builds, ConfigKnown(b)
  PROVE  BuildsInv'
<1>1. /\ BuildsTypeOK /\ state[b] = "running" /\ current[b] = "ai_config"
      /\ UNCHANGED <<name, comps, compose, project, listed, removing, disturbed, losses>>
  BY DEF BuildsInv, ConfigKnown, In
<1>2. ASSUME Goes(b, {"ai_config", "write_files"}, "start"),
             waits' = [waits EXCEPT ![b] = "list"], UNCHANGED state
      PROVE  BuildsInv'
  <2> DEFINE done == {"ai_config", "write_files"}
  <2>1. /\ done \in SUBSET Phases /\ "start" \in Stops
        /\ current[b] \in done /\ "start" \notin done /\ "start" \notin DoneAt("start")
        /\ DoneAt("start") = DoneAt(current[b]) \cup done
    BY <1>1, StopsInOrder DEF Stops
  <2>2. Goes(b, done, "start")
    BY <1>2
  <2> HIDE DEF done
  <2>3. StackIsThere'
    BY <1>1, <1>2, <2>1, <2>2, GoneOnStackIsThere
  <2>4. waits' \in [Builds -> {"none", "list", "remove", "up"}]
    BY <1>1, <1>2 DEF BuildsTypeOK
  <2>5. \E p \in Stops, d \in SUBSET Phases :
                 /\ Goes(b, d, p) /\ current[b] \in d /\ p \notin d
                 /\ p \notin DoneAt(p) /\ DoneAt(p) = DoneAt(current[b]) \cup d
    BY <2>1, <2>2
  <2> QED BY <1>1, <1>2, <2>3, <2>4, <2>5, JobStepKeeps DEF BuildsTypeOK
<1>3. ASSUME NEW p \in {"ai_config", "write_files"}, NEW done \in SUBSET Phases,
             FailsIn(b, done, p), current[b] \in done \cup {p}, p \notin done, UNCHANGED waits
      PROVE  BuildsInv'
  <2>1. p \in Phases
    BY DEF Phases
  <2>2. StackIsThere'
    BY <1>1, <1>3, <2>1, FailedStackIsThere
  <2>3. \E q \in Phases, d \in SUBSET Phases :
              FailsIn(b, d, q) /\ current[b] \in d \cup {q} /\ q \notin d
    BY <1>3, <2>1
  <2> QED BY <1>1, <1>3, <2>2, <2>3, JobStepKeeps DEF BuildsTypeOK
<1>4. CASE FailsIn(b, {}, "ai_config") /\ UNCHANGED waits
  BY <1>1, <1>3, <1>4
<1>5. CASE FailsIn(b, {"ai_config"}, "write_files") /\ UNCHANGED waits
  <2>1. /\ {"ai_config"} \in SUBSET Phases
        /\ current[b] \in {"ai_config"} \cup {"write_files"} /\ "write_files" \notin {"ai_config"}
    BY <1>1 DEF Phases
  <2> QED BY <1>3, <1>5, <2>1
<1> QED BY <1>2, <1>4, <1>5 DEF ConfigKnown

(* A list of containers changes none. *)
LEMMA ListedKeeps ==
  ASSUME BuildsInv, NEW b \in Builds, Listed(b)
  PROVE  BuildsInv'
<1>1. /\ BuildsTypeOK
      /\ UNCHANGED <<state, current, phases, name, comps, record, compose, project, removing,
                     disturbed, losses>>
  BY DEF BuildsInv, Listed
<1>2. /\ listed' \in [Builds -> SUBSET Components]
      /\ waits' \in [Builds -> {"none", "list", "remove", "up"}]
  BY <1>1 DEF BuildsTypeOK, Listed
<1>3. BuildsTypeOK'
  BY <1>1, <1>2 DEF BuildsTypeOK
<1>4. PhasesInOrder' /\ RecordFollows'
  BY <1>1 DEF BuildsInv, PhasesInOrder, RecordFollows
<1>5. StackIsThere'
  BY <1>1 DEF BuildsInv, StackIsThere, Untouched, Has
<1> QED BY <1>3, <1>4, <1>5 DEF BuildsInv

(* Whoever had one of the containers that were listed is no longer left    *)
(* alone; the build itself has none of its own yet.                        *)
LEMMA RemovedKeeps ==
  ASSUME BuildsInv, NEW b \in Builds, Removed(b)
  PROVE  BuildsInv'
<1>1. /\ BuildsTypeOK /\ RecordFollows /\ StackIsThere /\ state[b] = "running" /\ current[b] = "start"
      /\ waits' = [waits EXCEPT ![b] = "up"] /\ listed' = [listed EXCEPT ![b] = {}]
      /\ disturbed' = disturbed \cup {a \in Builds \ {b} : Has(a) \cap listed[b] # {}}
      /\ project' = [c \in Components |-> IF c \in listed[b] THEN "none" ELSE project[c]]
      /\ UNCHANGED <<state, current, phases, name, comps, record, compose, removing, losses>>
  BY DEF BuildsInv, Removed, RemoveListed, Losers, In
<1>2. BuildsTypeOK'
  <2>1. /\ listed' \in [Builds -> SUBSET Components]
        /\ waits' \in [Builds -> {"none", "list", "remove", "up"}]
    BY <1>1 DEF BuildsTypeOK
  <2>2. project' \in [Components -> Names \cup {"none"}] /\ disturbed' \subseteq Builds
    BY <1>1 DEF BuildsTypeOK
  <2> QED BY <1>1, <2>1, <2>2 DEF BuildsTypeOK
<1>3. PhasesInOrder' /\ RecordFollows'
  BY <1>1 DEF BuildsInv, PhasesInOrder, RecordFollows
<1>4. StackIsThere'
  <2> SUFFICES ASSUME NEW a \in Builds, Untouched(a)'
               PROVE  /\ record[a] = "READY" \/ current[a] # "versions" => compose[name[a]] = a
                      /\ record[a] = "READY" \/ current[a] \in {"post_cfg", "verify"} =>
                           comps[a] \subseteq Has(a)'
    BY <1>1 DEF StackIsThere
  <2>1. Untouched(a)
    BY <1>1 DEF Untouched
  <2>2. CASE a = b
    <3>1. record[b] # "READY"
      BY <1>1, RunningStates DEF RecordFollows
    <3> QED BY <1>1, <2>1, <2>2, <3>1 DEF StackIsThere
  <2>3. CASE a # b
    <3>1. Has(a) \cap listed[b] = {}
      BY <1>1, <2>3 DEF Untouched
    <3>2. Has(a) \subseteq Has(a)'
      BY <1>1, <3>1 DEF Has
    <3> QED BY <1>1, <2>1, <3>2 DEF StackIsThere
  <2> QED BY <2>2, <2>3
<1> QED BY <1>2, <1>3, <1>4 DEF BuildsInv

(* docker compose up takes no container from a build whose compose file is *)
(* there: one of another project is an error, and one of its own project   *)
(* is in that file, so it is no orphan.                                    *)
LEMMA UpSpares ==
  ASSUME BuildsTypeOK, NEW b \in Builds, name[b] \in Names,
         NEW made \in SUBSET Free(b), ComposeUp(b, made),
         NEW a \in Builds, name[a] \in Names, compose[name[a]] = a, comps[a] \subseteq Has(a)
  PROVE  \A c \in comps[a] : project'[c] = name[a]
<1> SUFFICES ASSUME NEW c \in comps[a]
             PROVE  project'[c] = name[a]
  OBVIOUS
<1>1. c \in Components /\ project[c] = name[a]
  BY DEF Has
<1>2. name[a] # "none"
  BY CustomStackAssumption
<1>3. project'[c] = IF c \in made THEN name[b]
                    ELSE IF c \in Has(b) \ Wanted(b) /\ Wanted(b) # {} THEN "none" ELSE project[c]
  BY <1>1 DEF ComposeUp
<1>4. CASE c \in made
  <2>1. project[c] = name[b]
    BY <1>1, <1>2, <1>4 DEF Free
  <2> QED BY <1>1, <1>3, <1>4, <2>1
<1>5. CASE c \notin made
  <2>1. c \notin Has(b) \ Wanted(b)
    <3> SUFFICES ASSUME c \in Has(b)
                 PROVE  c \in Wanted(b)
      OBVIOUS
    <3>1. name[a] = name[b]
      BY <1>1 DEF Has
    <3>2. compose[name[b]] = a /\ a # NoBuild
      BY <3>1, CustomStackAssumption DEF Builds, NoBuild
    <3> QED BY <3>2 DEF Wanted
  <2> QED BY <1>1, <1>3, <1>5, <2>1
<1> QED BY <1>4, <1>5

(* docker compose up: the containers of the file that is there, or an      *)
(* error after some of them.                                               *)
LEMMA StartedKeeps ==
  ASSUME BuildsInv, NEW b \in Builds, Started(b)
  PROVE  BuildsInv'
<1>1. /\ BuildsTypeOK /\ RecordFollows /\ StackIsThere /\ state[b] = "running" /\ current[b] = "start"
      /\ waits' = [waits EXCEPT ![b] = "none"]
      /\ UNCHANGED <<name, comps, compose, listed, removing, disturbed, losses>>
  BY DEF BuildsInv, Started, In
<1>2. name[b] \in Names
  BY <1>1 DEF BuildsTypeOK
<1>3. waits' \in [Builds -> {"none", "list", "remove", "up"}]
  BY <1>1 DEF BuildsTypeOK
<1>4. ASSUME NEW made \in SUBSET Free(b), ComposeUp(b, made)
      PROVE  project' \in [Components -> Names \cup {"none"}]
  BY <1>1, <1>2, <1>4 DEF ComposeUp, BuildsTypeOK
<1>5. ASSUME NEW made \in SUBSET Free(b), ComposeUp(b, made), NEW a \in Builds, Untouched(a),
             record[a] = "READY" \/ current[a] \in {"post_cfg", "verify"}
      PROVE  comps[a] \subseteq Has(a)'
  <2>1. compose[name[a]] = a /\ comps[a] \subseteq Has(a)
    BY <1>1, <1>5 DEF StackIsThere
  <2>2. name[a] \in Names
    <3>1. state[a] # "unused"
      BY <1>1, <1>5, RunningStates DEF Untouched, RecordFollows
    <3> QED BY <1>1, <3>1 DEF BuildsTypeOK
  <2>3. \A c \in comps[a] : project'[c] = name[a]
    BY <1>1, <1>2, <1>5, <2>1, <2>2, UpSpares
  <2>4. comps[a] \subseteq Components
    BY <1>1 DEF BuildsTypeOK
  <2> QED BY <1>1, <2>3, <2>4 DEF Has
<1>6. ASSUME Wanted(b) # {}, Free(b) = Wanted(b), ComposeUp(b, Wanted(b)),
             Goes(b, {"start"}, "post_cfg"), UNCHANGED state
      PROVE  BuildsInv'
  <2> DEFINE done == {"start"}
  <2>1. /\ done \in SUBSET Phases /\ "post_cfg" \in Stops
        /\ current[b] \in done /\ "post_cfg" \notin done /\ "post_cfg" \notin DoneAt("post_cfg")
        /\ DoneAt("post_cfg") = DoneAt(current[b]) \cup done
    BY <1>1, StopsInOrder DEF Stops
  <2>2. Goes(b, done, "post_cfg")
    BY <1>6
  <2> HIDE DEF done
  <2>3. /\ current'[b] = "post_cfg" /\ record[b] # "READY" /\ record'[b] # "READY"
        /\ record'[b] \in RUNNING_STATES => record[b] \in RUNNING_STATES
        /\ \A a \in Builds \ {b} : record'[a] = record[a] /\ current'[a] = current[a]
    BY <1>1, <1>6, <2>1, <2>2, GoesOn
  <2>4. StackIsThere'
    <3> SUFFICES ASSUME NEW a \in Builds, Untouched(a)'
                 PROVE  /\ record'[a] = "READY" \/ current'[a] # "versions" => compose[name[a]] = a
                        /\ record'[a] = "READY" \/ current'[a] \in {"post_cfg", "verify"} =>
                             comps[a] \subseteq Has(a)'
      BY <1>1 DEF StackIsThere
    <3>1. Untouched(a)
      BY <1>1, <2>3 DEF Untouched
    <3>2. CASE a = b
      <4>1. compose[name[b]] = b
        BY <1>1, <3>1, <3>2 DEF StackIsThere
      <4>2. Wanted(b) = comps[b]
        BY <4>1, CustomStackAssumption DEF Wanted, Builds, NoBuild
      <4>3. comps[b] \subseteq Components
        BY <1>1 DEF BuildsTypeOK
      <4>4. comps[b] \subseteq Has(b)'
        BY <1>1, <1>6, <4>2, <4>3 DEF ComposeUp, Has
      <4> QED BY <3>2, <4>1, <4>4
    <3>3. CASE a # b
      BY <1>1, <1>5, <1>6, <2>3, <3>1, <3>3 DEF StackIsThere
    <3> QED BY <3>2, <3>3
  <2>5. \E p \in Stops, d \in SUBSET Phases :
                 /\ Goes(b, d, p) /\ current[b] \in d /\ p \notin d
                 /\ p \notin DoneAt(p) /\ DoneAt(p) = DoneAt(current[b]) \cup d
    BY <2>1, <2>2
  <2>6. project' \in [Components -> Names \cup {"none"}]
    BY <1>4, <1>6
  <2> QED BY <1>1, <1>3, <1>6, <2>4, <2>5, <2>6, JobStepKeeps DEF BuildsTypeOK
<1>7. ASSUME NEW made \in SUBSET Free(b), ComposeUp(b, made), UpFailed(b)
      PROVE  BuildsInv'
  <2>1. FailsIn(b, {}, "start") /\ "start" \in Phases /\ {} \in SUBSET Phases
    BY <1>7 DEF UpFailed, Phases
  <2>2. /\ record'[b] \in {"FAILED", "none", "gone"}
        /\ \A a \in Builds \ {b} : record'[a] = record[a] /\ current'[a] = current[a]
    BY <1>1, <2>1, FailsThere
  <2>3. record'[b] \notin RUNNING_STATES \cup {"READY"}
    BY <2>2, RunningStates
  <2>4. StackIsThere'
    <3> SUFFICES ASSUME NEW a \in Builds, Untouched(a)'
                 PROVE  /\ record'[a] = "READY" \/ current'[a] # "versions" => compose[name[a]] = a
                        /\ record'[a] = "READY" \/ current'[a] \in {"post_cfg", "verify"} =>
                             comps[a] \subseteq Has(a)'
      BY <1>1 DEF StackIsThere
    <3>1. a # b
      BY <2>3 DEF Untouched
    <3>2. Untouched(a)
      BY <1>1, <2>2, <3>1 DEF Untouched
    <3> QED BY <1>1, <1>5, <1>7, <2>2, <3>1, <3>2 DEF StackIsThere
  <2>5. \E q \in Phases, d \in SUBSET Phases :
              FailsIn(b, d, q) /\ current[b] \in d \cup {q} /\ q \notin d
    BY <1>1, <2>1
  <2>6. project' \in [Components -> Names \cup {"none"}]
    BY <1>4, <1>7
  <2> QED BY <1>1, <1>3, <2>4, <2>5, <2>6, JobStepKeeps DEF BuildsTypeOK
<1>8. \/ /\ Wanted(b) # {} /\ Free(b) = Wanted(b) /\ ComposeUp(b, Wanted(b))
         /\ Goes(b, {"start"}, "post_cfg") /\ UNCHANGED state
      \/ \E made \in SUBSET Free(b) : ComposeUp(b, made) /\ UpFailed(b)
  BY DEF Started
<1> QED BY <1>6, <1>7, <1>8

(* The commands of post_cfg. *)
LEMMA ConfiguredKeeps ==
  ASSUME BuildsInv, NEW b \in Builds, Configured(b)
  PROVE  BuildsInv'
<1>1. /\ BuildsTypeOK /\ state[b] = "running" /\ current[b] = "post_cfg"
      /\ Goes(b, {"post_cfg"}, "verify")
      /\ UNCHANGED <<state, name, comps, compose, project, listed, waits, removing, disturbed, losses>>
  BY DEF BuildsInv, Configured, In
<1> DEFINE done == {"post_cfg"}
<1>2. /\ done \in SUBSET Phases /\ "verify" \in Stops
      /\ current[b] \in done /\ "verify" \notin done /\ "verify" \notin DoneAt("verify")
      /\ DoneAt("verify") = DoneAt(current[b]) \cup done
  BY <1>1, StopsInOrder DEF Stops
<1>3. Goes(b, done, "verify")
  BY <1>1
<1> HIDE DEF done
<1>4. StackIsThere'
  BY <1>1, <1>2, <1>3, GoneOnStackIsThere
<1>5. \E p \in Stops, d \in SUBSET Phases :
                 /\ Goes(b, d, p) /\ current[b] \in d /\ p \notin d
                 /\ p \notin DoneAt(p) /\ DoneAt(p) = DoneAt(current[b]) \cup d
  BY <1>2, <1>3
<1> QED BY <1>1, <1>4, <1>5, JobStepKeeps DEF BuildsTypeOK

(* The build that ends has been through every phase. *)
LEMMA VerifiedKeeps ==
  ASSUME BuildsInv, NEW b \in Builds, Verified(b)
  PROVE  BuildsInv'
<1>1. /\ BuildsTypeOK /\ PhasesInOrder /\ RecordFollows /\ StackIsThere
      /\ state[b] = "running" /\ current[b] = "verify"
      /\ Marked(b, {"verify"}, "summary", "done") /\ Recorded(b, "READY")
      /\ current' = [current EXCEPT ![b] = "summary"] /\ state' = [state EXCEPT ![b] = "done"]
      /\ UNCHANGED <<name, comps, compose, project, listed, waits, removing, disturbed, losses>>
  BY DEF BuildsInv, Verified, In
<1>2. "summary" \in Phases /\ "done" \in Marks
  BY DEF Phases, Marks
<1>3. phases' \in [Builds -> [Phases -> Marks]]
  BY <1>1, <1>2, MarksOfOne
<1>4. \A a \in Builds \ {b} : phases'[a] = phases[a]
  BY <1>1, <1>2, MarksOfOne
<1>5. phases'[b] = [q \in Phases |-> IF q = "summary" THEN "done"
                                    ELSE IF q \in {"verify"} THEN "done" ELSE phases[b][q]]
  BY <1>1 DEF Marked, BuildsTypeOK
<1>6. /\ record' \in [Builds -> RUNNING_STATES \cup {"none", "DRAFT", "READY", "FAILED", "gone"}]
      /\ \A a \in Builds \ {b} : record'[a] = record[a]
      /\ record'[b] = IF record[b] \in {"none", "gone"} THEN record[b] ELSE "READY"
  BY <1>1, RecordOfOne
<1>7. /\ \A a \in Builds \ {b} : state'[a] = state[a] /\ current'[a] = current[a]
      /\ state'[b] = "done" /\ current'[b] = "summary"
  BY <1>1 DEF BuildsTypeOK
<1>8. BuildsTypeOK'
  <2>1. /\ state' \in [Builds -> {"unused", "pending", "running", "done", "failed", "lost"}]
        /\ current' \in [Builds -> Phases \cup {"none"}]
    BY <1>1, <1>2 DEF BuildsTypeOK
  <2>2. \A a \in Builds : state'[a] # "unused" => name'[a] \in Names
    BY <1>1, <1>7 DEF BuildsTypeOK
  <2> QED BY <1>1, <1>3, <1>6, <2>1, <2>2 DEF BuildsTypeOK, Marks
<1>9. PhasesInOrder'
  <2>1. \A q \in Phases : phases[b][q] = IF q = "verify" THEN "active"
                                         ELSE IF q \in DoneAt("verify") THEN "done" ELSE "pending"
    BY <1>1 DEF PhasesInOrder
  <2>2. \A q \in Phases : q = "verify" \/ q = "summary" \/ q \in DoneAt("verify")
    BY StopsInOrder
  <2>3. \A q \in Phases : phases'[b][q] = "done"
    BY <1>5, <2>1, <2>2
  <2> QED BY <1>1, <1>4, <1>7, <2>3 DEF PhasesInOrder
<1>10. RecordFollows'
  BY <1>1, <1>6, <1>7 DEF RecordFollows
<1>11. StackIsThere'
  <2> SUFFICES ASSUME NEW a \in Builds, Untouched(a)'
               PROVE  /\ record'[a] = "READY" \/ current'[a] # "versions" => compose[name[a]] = a
                      /\ record'[a] = "READY" \/ current'[a] \in {"post_cfg", "verify"} =>
                           comps[a] \subseteq Has(a)
    BY <1>1 DEF StackIsThere, Has
  <2>1. CASE a = b
    <3>1. record[b] \in RUNNING_STATES
      BY <1>1, <1>6, <2>1, RunningStates DEF Untouched, RecordFollows
    <3>2. Untouched(b)
      BY <1>1, <2>1, <3>1 DEF Untouched
    <3> QED BY <1>1, <2>1, <3>2 DEF StackIsThere
  <2>2. CASE a # b
    <3>1. Untouched(a)
      BY <1>1, <1>6, <2>2 DEF Untouched
    <3> QED BY <1>1, <1>6, <1>7, <2>2, <3>1 DEF StackIsThere
  <2> QED BY <2>1, <2>2
<1> QED BY <1>8, <1>9, <1>10, <1>11 DEF BuildsInv

(* A command that cannot be spawned fails the phase. *)
LEMMA SpawnRaisesKeeps ==
  ASSUME BuildsInv, NEW b \in Builds, SpawnRaises(b)
  PROVE  BuildsInv'
<1>1. /\ BuildsTypeOK /\ state[b] = "running" /\ current[b] \in {"start", "post_cfg", "verify"}
      /\ FailsIn(b, {}, current[b])
      /\ waits' = [waits EXCEPT ![b] = "none"] /\ listed' = [listed EXCEPT ![b] = {}]
      /\ UNCHANGED <<name, comps, compose, project, removing, disturbed, losses>>
  BY DEF BuildsInv, SpawnRaises, In, Interrupted
<1>2. current[b] \in Phases /\ {} \in SUBSET Phases
  BY <1>1 DEF Phases
<1>3. StackIsThere'
  BY <1>1, <1>2, FailedStackIsThere
<1>4. \E q \in Phases, d \in SUBSET Phases :
              FailsIn(b, d, q) /\ current[b] \in d \cup {q} /\ q \notin d
  BY <1>1, <1>2
<1>5. /\ listed' \in [Builds -> SUBSET Components]
      /\ waits' \in [Builds -> {"none", "list", "remove", "up"}]
  BY <1>1 DEF BuildsTypeOK
<1> QED BY <1>1, <1>3, <1>4, <1>5, JobStepKeeps DEF BuildsTypeOK

(* Only builds of the same name have containers that an uninstall takes.   *)
LEMMA UninstallKeeps ==
  ASSUME BuildsInv, NEW b \in Builds, Uninstall(b)
  PROVE  BuildsInv'
<1>1. /\ BuildsTypeOK /\ RecordFollows /\ StackIsThere
      /\ removing' = removing \cup {b} /\ disturbed' = disturbed \cup SameStack(b)
      /\ UNCHANGED <<state, current, phases, name, comps, record, compose, listed, waits, losses>>
  BY DEF BuildsInv, Uninstall
<1>2. \/ project' = [c \in Components |-> IF c \in Has(b) THEN "none" ELSE project[c]]
      \/ UNCHANGED project
  BY DEF Uninstall
<1>3. BuildsTypeOK'
  <2>1. project' \in [Components -> Names \cup {"none"}]
    BY <1>1, <1>2 DEF BuildsTypeOK
  <2>2. state[b] # "unused"
    BY <1>1 DEF Uninstall, MayUninstall, RecordFollows
  <2>3. /\ removing' \subseteq {a \in Builds : state[a] # "unused"}
        /\ disturbed' \subseteq Builds
    BY <1>1, <2>2 DEF BuildsTypeOK, SameStack
  <2> QED BY <1>1, <2>1, <2>3 DEF BuildsTypeOK
<1>4. PhasesInOrder' /\ RecordFollows'
  BY <1>1 DEF BuildsInv, PhasesInOrder, RecordFollows
<1>5. StackIsThere'
  <2> SUFFICES ASSUME NEW a \in Builds, Untouched(a)'
               PROVE  /\ record[a] = "READY" \/ current[a] # "versions" => compose[name[a]] = a
                      /\ record[a] = "READY" \/ current[a] \in {"post_cfg", "verify"} =>
                           comps[a] \subseteq Has(a)'
    BY <1>1 DEF StackIsThere
  <2>1. Untouched(a) /\ a # b
    BY <1>1 DEF Untouched
  <2>2. state[a] # "unused"
    BY <1>1, <2>1, RunningStates DEF Untouched, RecordFollows
  <2>3. name[a] # name[b]
    BY <1>1, <2>1, <2>2 DEF Untouched, SameStack
  <2>4. Has(a) \subseteq Has(a)'
    BY <1>1, <1>2, <2>3 DEF Has
  <2> QED BY <1>1, <2>1, <2>4 DEF StackIsThere
<1> QED BY <1>3, <1>4, <1>5 DEF BuildsInv

(* The directory is removed, and with it the compose file of its name.     *)
LEMMA UninstalledKeeps ==
  ASSUME BuildsInv, NEW b \in Builds, Uninstalled(b)
  PROVE  BuildsInv'
<1>1. /\ BuildsTypeOK /\ PhasesInOrder /\ RecordFollows /\ StackIsThere
      /\ removing' = removing \ {b} /\ disturbed' = disturbed \cup SameStack(b)
      /\ record' = [record EXCEPT ![b] = "gone"]
      /\ UNCHANGED <<state, current, phases, name, comps, project, listed, waits, losses>>
  BY DEF BuildsInv, Uninstalled
<1>2. \/ compose' = [compose EXCEPT ![name[b]] = NoBuild]
      \/ UNCHANGED compose
  BY DEF Uninstalled
<1>3. /\ record'[b] = "gone" /\ \A a \in Builds \ {b} : record'[a] = record[a]
      /\ record' \in [Builds -> RUNNING_STATES \cup {"none", "DRAFT", "READY", "FAILED", "gone"}]
  BY <1>1 DEF BuildsTypeOK
<1>4. BuildsTypeOK'
  <2>1. compose' \in [Names -> Builds \cup {NoBuild}]
    BY <1>1, <1>2 DEF BuildsTypeOK
  <2>2. /\ removing' \subseteq {a \in Builds : state[a] # "unused"}
        /\ disturbed' \subseteq Builds
    BY <1>1 DEF BuildsTypeOK, SameStack
  <2> QED BY <1>1, <1>3, <2>1, <2>2 DEF BuildsTypeOK
<1>5. PhasesInOrder'
  BY <1>1 DEF PhasesInOrder
<1>6. RecordFollows'
  <2>1. state[b] # "unused"
    BY <1>1 DEF Uninstalled, BuildsTypeOK
  <2> QED BY <1>1, <1>3, <2>1, RunningStates DEF RecordFollows
<1>7. StackIsThere'
  <2> SUFFICES ASSUME NEW a \in Builds, Untouched(a)'
               PROVE  /\ record'[a] = "READY" \/ current[a] # "versions" => compose'[name[a]] = a
                      /\ record'[a] = "READY" \/ current[a] \in {"post_cfg", "verify"} =>
                           comps[a] \subseteq Has(a)
    BY <1>1 DEF StackIsThere, Has
  <2>1. a # b
    BY <1>3, RunningStates DEF Untouched
  <2>2. Untouched(a) /\ record'[a] = record[a]
    BY <1>1, <1>3, <2>1 DEF Untouched
  <2>3. state[a] # "unused"
    BY <1>1, <2>2, RunningStates DEF Untouched, RecordFollows
  <2>4. name[a] # name[b] /\ name[a] \in Names
    BY <1>1, <2>1, <2>2, <2>3 DEF Untouched, SameStack, BuildsTypeOK
  <2>5. compose'[name[a]] = compose[name[a]]
    BY <1>1, <1>2, <2>4 DEF BuildsTypeOK
  <2> QED BY <1>1, <2>2, <2>5 DEF StackIsThere
<1> QED BY <1>4, <1>5, <1>6, <1>7 DEF BuildsInv

(* What a lost server was doing is forgotten; the READY builds stay.       *)
LEMMA LossKeeps ==
  ASSUME BuildsInv, Loss
  PROVE  BuildsInv'
<1>1. BuildsTypeOK /\ PhasesInOrder /\ RecordFollows /\ StackIsThere
  BY DEF BuildsInv
<1>2. /\ losses < MaxLosses /\ losses' = losses + 1
      /\ state' = [b \in Builds |-> IF state[b] = "unused" THEN "unused" ELSE "lost"]
      /\ current' = [b \in Builds |-> "none"]
      /\ phases' = [b \in Builds |-> [p \in Phases |-> "pending"]]
      /\ waits' = [b \in Builds |-> IF waits[b] = "list" THEN "none" ELSE waits[b]]
      /\ record' = [b \in Builds |-> IF record[b] \in RUNNING_STATES THEN "FAILED" ELSE record[b]]
      /\ removing' = {} /\ disturbed' = disturbed \cup removing
      /\ UNCHANGED <<name, comps, compose, project, listed>>
  BY DEF Loss
<1>3. BuildsTypeOK'
  <2>1. /\ state' \in [Builds -> {"unused", "pending", "running", "done", "failed", "lost"}]
        /\ current' \in [Builds -> Phases \cup {"none"}]
        /\ waits' \in [Builds -> {"none", "list", "remove", "up"}]
        /\ listed' \in [Builds -> SUBSET Components]
    BY <1>1, <1>2 DEF BuildsTypeOK
  <2>2. phases' \in [Builds -> [Phases -> {"pending", "active", "done", "failed"}]]
    BY <1>2
  <2>3. record' \in [Builds -> RUNNING_STATES \cup {"none", "DRAFT", "READY", "FAILED", "gone"}]
    BY <1>1, <1>2 DEF BuildsTypeOK
  <2>4. losses' \in 0..MaxLosses /\ removing' = {} /\ disturbed' \subseteq Builds
    BY <1>1, <1>2, CustomStackAssumption DEF BuildsTypeOK
  <2>5. \A a \in Builds : state'[a] # "unused" => name'[a] \in Names
    BY <1>1, <1>2 DEF BuildsTypeOK
  <2> QED BY <1>1, <1>2, <2>1, <2>2, <2>3, <2>4, <2>5 DEF BuildsTypeOK
<1>4. PhasesInOrder'
  BY <1>2 DEF PhasesInOrder
<1>5. RecordFollows'
  BY <1>1, <1>2, RunningStates DEF RecordFollows
<1>6. StackIsThere'
  <2> SUFFICES ASSUME NEW a \in Builds, Untouched(a)'
               PROVE  compose[name[a]] = a /\ comps[a] \subseteq Has(a)
    BY <1>2 DEF StackIsThere, Has
  <2>1. record[a] = "READY"
    BY <1>2, RunningStates DEF Untouched
  <2>2. Untouched(a)
    BY <1>2, <2>1 DEF Untouched
  <2> QED BY <1>1, <2>1, <2>2 DEF StackIsThere
<1> QED BY <1>3, <1>4, <1>5, <1>6 DEF BuildsInv

(* A docker command that outlives the server touches the stack of its own  *)
(* name, or containers that were listed.                                   *)
LEMMA OrphanEndsKeeps ==
  ASSUME BuildsInv, NEW b \in Builds, OrphanEnds(b)
  PROVE  BuildsInv'
<1>1. /\ BuildsTypeOK /\ PhasesInOrder /\ RecordFollows /\ StackIsThere /\ state[b] = "lost"
      /\ waits' = [waits EXCEPT ![b] = "none"] /\ listed' = [listed EXCEPT ![b] = {}]
      /\ UNCHANGED <<state, current, phases, name, comps, record, compose, removing, losses>>
  BY DEF BuildsInv, OrphanEnds
<1>2. /\ listed' \in [Builds -> SUBSET Components]
      /\ waits' \in [Builds -> {"none", "list", "remove", "up"}]
  BY <1>1 DEF BuildsTypeOK
<1>3. PhasesInOrder' /\ RecordFollows'
  BY <1>1 DEF PhasesInOrder, RecordFollows
<1>4. name[b] \in Names
  BY <1>1 DEF BuildsTypeOK
<1>5. ASSUME project' \in [Components -> Names \cup {"none"}], disturbed' \subseteq Builds,
             disturbed \subseteq disturbed',
             \A a \in Builds : Untouched(a) /\ a \notin disturbed' /\ comps[a] \subseteq Has(a)
                                /\ compose[name[a]] = a => comps[a] \subseteq Has(a)'
      PROVE  BuildsInv'
  <2>1. BuildsTypeOK'
    BY <1>1, <1>2, <1>5 DEF BuildsTypeOK
  <2>2. StackIsThere'
    <3> SUFFICES ASSUME NEW a \in Builds, Untouched(a)'
                 PROVE  /\ record[a] = "READY" \/ current[a] # "versions" => compose[name[a]] = a
                        /\ record[a] = "READY" \/ current[a] \in {"post_cfg", "verify"} =>
                             comps[a] \subseteq Has(a)'
      BY <1>1 DEF StackIsThere
    <3>1. Untouched(a) /\ a \notin disturbed'
      BY <1>1, <1>5 DEF Untouched
    <3> QED BY <1>1, <1>5, <3>1 DEF StackIsThere
  <2> QED BY <1>3, <2>1, <2>2 DEF BuildsInv
<1>6. CASE RemoveListed(b) /\ disturbed' = disturbed \cup Losers(b)
  <2>1. project' \in [Components -> Names \cup {"none"}] /\ disturbed' \subseteq Builds
    BY <1>1, <1>6 DEF BuildsTypeOK, RemoveListed, Losers
  <2>2. ASSUME NEW a \in Builds, a \notin disturbed', Untouched(a), comps[a] \subseteq Has(a)
        PROVE  comps[a] \subseteq Has(a)'
    <3>1. Has(a) \cap listed[b] = {}
      BY <1>6, <2>2 DEF Losers
    <3> QED BY <1>1, <1>6, <2>2, <3>1 DEF Has, RemoveListed
  <2> QED BY <1>5, <1>6, <2>1, <2>2 DEF RemoveListed
<1>7. ASSUME NEW made \in SUBSET Free(b), ComposeUp(b, made),
             disturbed' = disturbed \cup SameStack(b)
      PROVE  BuildsInv'
  <2>1. project' \in [Components -> Names \cup {"none"}] /\ disturbed' \subseteq Builds
    BY <1>1, <1>4, <1>7 DEF BuildsTypeOK, ComposeUp, SameStack
  <2>2. ASSUME NEW a \in Builds, Untouched(a), comps[a] \subseteq Has(a), compose[name[a]] = a
        PROVE  comps[a] \subseteq Has(a)'
    <3>1. name[a] \in Names
      BY <1>1, <2>2, RunningStates DEF Untouched, RecordFollows, BuildsTypeOK
    <3>2. \A c \in comps[a] : project'[c] = name[a]
      BY <1>1, <1>4, <1>7, <2>2, <3>1, UpSpares
    <3> QED BY <1>1, <2>2, <3>2 DEF Has
  <2> QED BY <1>5, <1>7, <2>1, <2>2
<1>8. CASE UNCHANGED <<project, disturbed>>
  BY <1>1, <1>5, <1>8 DEF BuildsTypeOK, Has
<1> QED BY <1>6, <1>7, <1>8 DEF OrphanEnds

(* There are no builds at first. *)
LEMMA BuildsBegin == BuildsInit => BuildsInv
<1> SUFFICES ASSUME BuildsInit
             PROVE  BuildsInv
  OBVIOUS
<1>1. BuildsTypeOK
  <2>1. 0 \in 0..MaxLosses
    BY CustomStackAssumption
  <2> QED BY <2>1 DEF BuildsInit, BuildsTypeOK, NoBuild
<1>2. PhasesInOrder
  BY DEF BuildsInit, PhasesInOrder
<1>3. RecordFollows
  BY DEF BuildsInit, RecordFollows
<1>4. StackIsThere
  BY RunningStates DEF BuildsInit, StackIsThere, Untouched
<1> QED BY <1>1, <1>2, <1>3, <1>4 DEF BuildsInv

(* Every step of a build, an uninstall or a loss keeps the invariant. *)
LEMMA BuildsStep == BuildsInv /\ [BuildsNext]_stackVars => BuildsInv'
<1> SUFFICES ASSUME BuildsInv, [BuildsNext]_stackVars
             PROVE  BuildsInv'
  OBVIOUS
<1>1. CASE UNCHANGED stackVars
  <2>1. BuildsTypeOK'
    BY <1>1 DEF BuildsInv, BuildsTypeOK, stackVars
  <2>2. PhasesInOrder' /\ RecordFollows'
    BY <1>1 DEF BuildsInv, PhasesInOrder, RecordFollows, stackVars
  <2>3. StackIsThere'
    BY <1>1 DEF BuildsInv, StackIsThere, Untouched, Has, stackVars
  <2> QED BY <2>1, <2>2, <2>3 DEF BuildsInv
<1>2. ASSUME NEW b \in Builds,
             \/ \E n \in Names, cs \in (SUBSET Components) \ {{}} : StartBuild(b, n, cs)
             \/ Run(b) \/ VersionsKnown(b) \/ ConfigKnown(b) \/ Listed(b)
             \/ Removed(b) \/ Started(b) \/ Configured(b) \/ Verified(b) \/ SpawnRaises(b)
             \/ Uninstall(b) \/ Uninstalled(b) \/ OrphanEnds(b)
      PROVE  BuildsInv'
  BY <1>2, StartBuildKeeps, RunKeeps, VersionsKnownKeeps, ConfigKnownKeeps, ListedKeeps,
     RemovedKeeps, StartedKeeps, ConfiguredKeeps, VerifiedKeeps, SpawnRaisesKeeps,
     UninstallKeeps, UninstalledKeeps, OrphanEndsKeeps
<1>3. CASE Loss
  BY <1>3, LossKeeps
<1> QED BY <1>1, <1>2, <1>3 DEF BuildsNext

(* The invariant says what the property does. *)
LEMMA BuildsInvSays == BuildsInv => BuildsAreWhole
<1> SUFFICES ASSUME BuildsInv
             PROVE  BuildsAreWhole
  OBVIOUS
<1>1. PhasesInOrder /\ RecordFollows /\ StackIsThere /\ BuildsTypeOK
  BY DEF BuildsInv
<1>2. BuildsTellOneStory
  <2> SUFFICES ASSUME NEW b \in Builds
               PROVE  /\ state[b] = "running" =>
                           /\ With(b, "active") = {current[b]} /\ With(b, "failed") = {}
                           /\ record[b] \in RUNNING_STATES \cup {"none", "gone"}
                      /\ state[b] = "failed" =>
                           /\ With(b, "failed") = {current[b]} /\ With(b, "active") = {}
                           /\ record[b] \in {"FAILED", "none", "gone"}
                      /\ record[b] = "READY" /\ state[b] # "lost" => With(b, "done") = Phases
    BY DEF BuildsTellOneStory
  <2>1. ASSUME state[b] = "running"
        PROVE  /\ With(b, "active") = {current[b]} /\ With(b, "failed") = {}
               /\ record[b] \in RUNNING_STATES \cup {"none", "gone"}
    <3>1. /\ current[b] \in Phases
          /\ \A q \in Phases : phases[b][q] = IF q = current[b] THEN "active"
                                              ELSE IF q \in DoneAt(current[b]) THEN "done"
                                              ELSE "pending"
      BY <1>1, <2>1 DEF PhasesInOrder, Stops, Phases
    <3>2. With(b, "active") = {current[b]} /\ With(b, "failed") = {}
      BY <3>1 DEF With
    <3> QED BY <1>1, <2>1, <3>2 DEF RecordFollows
  <2>2. ASSUME state[b] = "failed"
        PROVE  /\ With(b, "failed") = {current[b]} /\ With(b, "active") = {}
               /\ record[b] \in {"FAILED", "none", "gone"}
    BY <1>1, <2>2 DEF PhasesInOrder, RecordFollows, With
  <2>3. ASSUME record[b] = "READY", state[b] # "lost"
        PROVE  With(b, "done") = Phases
    <3>1. state[b] = "done"
      BY <1>1, <2>3, RunningStates DEF RecordFollows, BuildsTypeOK
    <3> QED BY <1>1, <3>1 DEF PhasesInOrder, With
  <2> QED BY <2>1, <2>2, <2>3
<1>3. ReadyHasItsStack
  BY <1>1 DEF StackIsThere, Untouched, ReadyHasItsStack
<1> QED BY <1>2, <1>3 DEF BuildsAreWhole

(* A build, its phases and its record tell one story, and a READY build    *)
(* whose stack nothing else has touched has its compose file and all its   *)
(* containers, however builds, uninstalls and losses of the server         *)
(* interleave (custom_stack_runner.run, _docker_compose_up,                *)
(* uninstall_custom).                                                      *)
THEOREM BuildsStayWhole == BuildsSpec => []BuildsAreWhole
<1>1. BuildsInv => BuildsAreWhole
  BY BuildsInvSays
<1>2. BuildsSpec => []BuildsInv
  BY BuildsBegin, BuildsStep, PTL DEF BuildsSpec
<1> QED BY <1>1, <1>2, PTL

-----------------------------------------------------------------------------
(* The install harness *)

(* What the literals of the harness stand for, and what the assumption     *)
(* says of them.                                                           *)
LEMMA PipelineFacts ==
  /\ MaxHarness \in Nat /\ Nobody \notin Harnesses
  /\ "unlabelled" \notin Projects /\ NoContainer \notin Projects
  /\ PIPELINE_STEPS = {"clone", "start", "smoke", "finalize"}
  /\ Before["clone"] = {} /\ Before["start"] = {"clone"} /\ Before["smoke"] = {"clone", "start"}
  /\ Before["finalize"] = {"clone", "start", "smoke"}
  /\ NextStep["clone"] = "start" /\ NextStep["start"] = "smoke" /\ NextStep["smoke"] = "finalize"
BY HarnessAssumption
DEF HarnessAssumption, Harnesses, Nobody, NoContainer, PIPELINE_STEPS, Before, NextStep

(* Nothing is certified, torn down or ended when no harness has been       *)
(* launched.                                                               *)
LEMMA HarnessStarts == HarnessInit => HarnessInv
<1> SUFFICES ASSUME HarnessInit PROVE HarnessInv
  OBVIOUS
<1> USE PipelineFacts
<1>1. HarnessTypeOK
  BY DEF HarnessInit, HarnessTypeOK, NoArgs
<1>2. StepsInOrder
  BY DEF HarnessInit, StepsInOrder, InOrder, Grounded
<1>3. GroundIsItsOwn
  BY DEF HarnessInit, GroundIsItsOwn
<1>4. CreatorsKeepTheirPlace
  BY DEF HarnessInit, CreatorsKeepTheirPlace, Live
<1>5. HarnessIsTrue
  BY DEF HarnessInit, HarnessIsTrue, CertifiedIsFresh, NoOrphans, ZeroIsCertified
<1> QED  BY <1>1, <1>2, <1>3, <1>4, <1>5 DEF HarnessInv

(* What a record certifies is fresh because the steps before its smoke     *)
(* test have passed, and the ground under that test was its own.           *)
LEMMA FreshnessFollows ==
  HarnessTypeOK /\ StepsInOrder /\ GroundIsItsOwn => CertifiedIsFresh
<1> SUFFICES ASSUME HarnessTypeOK, StepsInOrder, GroundIsItsOwn,
                    NEW h \in cleaned \ reached, "smoke" \in evidence[h]
             PROVE  {"clone", "start"} \subseteq evidence[h] /\ ground[h] = h
  BY DEF CertifiedIsFresh
<1>1. h \in Harnesses
  BY DEF HarnessTypeOK
<1>2. {"clone", "start"} \subseteq evidence[h]
  BY <1>1 DEF StepsInOrder, InOrder, Grounded
<1>3. ground[h] = h
  BY DEF GroundIsItsOwn
<1> QED  BY <1>2, <1>3

(* Whichever way a harness ends, its stack stays what it was, and of the   *)
(* others nothing changes.                                                 *)
LEMMA EndFacts ==
  ASSUME HarnessTypeOK, NEW g \in Harnesses, NEW code \in {"zero", "other"}, End(g, code)
  PROVE  /\ place' \in [Harnesses -> {"none", "cleanup", "stale", "run", "up", "stop", "report",
                                      "down", "ended"}]
         /\ args' \in [Harnesses -> [stack : Projects \cup {NoContainer}, teardown : BOOLEAN]]
         /\ step' \in [Harnesses -> PIPELINE_STEPS]
         /\ passed' \in [Harnesses -> SUBSET PIPELINE_STEPS]
         /\ cancelled' \in [Harnesses -> BOOLEAN]
         /\ exit' \in [Harnesses -> {"none", "zero", "other"}]
         /\ place'[g] = "ended" /\ exit'[g] = code /\ step'[g] = "clone" /\ passed'[g] = {}
         /\ \A h \in Harnesses \ {g} :
              /\ place'[h] = place[h] /\ exit'[h] = exit[h] /\ step'[h] = step[h]
              /\ passed'[h] = passed[h]
         /\ \A h \in Harnesses : args'[h].stack = args[h].stack
<1> USE PipelineFacts
<1>1. args[g] \in [stack : Projects \cup {NoContainer}, teardown : BOOLEAN]
  BY DEF HarnessTypeOK
<1>2. [args[g] EXCEPT !.teardown = FALSE]
        \in [stack : Projects \cup {NoContainer}, teardown : BOOLEAN]
  BY <1>1
<1>3. [args[g] EXCEPT !.teardown = FALSE].stack = args[g].stack
  BY <1>1
<1>4. args' = [args EXCEPT ![g] = [args[g] EXCEPT !.teardown = FALSE]]
  BY DEF End, HarnessTypeOK
<1>5. /\ args' \in [Harnesses -> [stack : Projects \cup {NoContainer}, teardown : BOOLEAN]]
      /\ \A h \in Harnesses : args'[h].stack = args[h].stack
  BY <1>2, <1>3, <1>4 DEF HarnessTypeOK
<1>6. place' \in [Harnesses -> {"none", "cleanup", "stale", "run", "up", "stop", "report",
                                "down", "ended"}]
  BY DEF End, HarnessTypeOK
<1>7. step' \in [Harnesses -> PIPELINE_STEPS] /\ passed' \in [Harnesses -> SUBSET PIPELINE_STEPS]
  BY DEF End, HarnessTypeOK
<1>8. cancelled' \in [Harnesses -> BOOLEAN] /\ exit' \in [Harnesses -> {"none", "zero", "other"}]
  BY DEF End, HarnessTypeOK
<1>9. /\ place'[g] = "ended" /\ exit'[g] = code /\ step'[g] = "clone" /\ passed'[g] = {}
      /\ \A h \in Harnesses \ {g} :
           /\ place'[h] = place[h] /\ exit'[h] = exit[h] /\ step'[h] = step[h]
           /\ passed'[h] = passed[h]
  BY DEF End, HarnessTypeOK
<1> QED  BY <1>5, <1>6, <1>7, <1>8, <1>9

(* A step that succeeds leads to the next one, with all before that one    *)
(* passed; any other end of a step leads to the end of the run.            *)
LEMMA StepEndsFacts ==
  ASSUME HarnessTypeOK, NEW g \in Harnesses, InOrder(g), place[g] \in {"run", "up"},
         NEW ok \in BOOLEAN, StepEnds(g, ok)
  PROVE  /\ place'[g] \in {"run", "stop"}
         /\ place'[g] = "run" => passed'[g] = Before[step'[g]]
         /\ Grounded(passed'[g])
         /\ \A h \in Harnesses \ {g} :
              place'[h] = place[h] /\ passed'[h] = passed[h] /\ step'[h] = step[h]
         /\ place' \in [Harnesses -> {"none", "cleanup", "stale", "run", "up", "stop", "report",
                                      "down", "ended"}]
         /\ step' \in [Harnesses -> PIPELINE_STEPS]
         /\ passed' \in [Harnesses -> SUBSET PIPELINE_STEPS]
         /\ passed'[g] = IF ok THEN passed[g] \cup {step[g]} ELSE passed[g]
<1> USE PipelineFacts
<1>1. passed[g] = Before[step[g]] /\ step[g] \in PIPELINE_STEPS
  BY DEF InOrder, HarnessTypeOK
<1>2. \A h \in Harnesses \ {g} :
        place'[h] = place[h] /\ passed'[h] = passed[h] /\ step'[h] = step[h]
  BY DEF StepEnds, HarnessTypeOK
<1>3. passed'[g] = IF ok THEN passed[g] \cup {step[g]} ELSE passed[g]
  BY DEF StepEnds, HarnessTypeOK
<1>4. /\ place'[g] \in {"run", "stop"}
      /\ place'[g] = "run" => passed'[g] = Before[step'[g]]
      /\ Grounded(passed'[g])
  <2>1. CASE ok /\ step[g] # "finalize"
    <3>1. place'[g] = "run" /\ step'[g] = NextStep[step[g]]
      BY <2>1 DEF StepEnds, HarnessTypeOK
    <3>2. step[g] = "clone" \/ step[g] = "start" \/ step[g] = "smoke"
      BY <1>1, <2>1
    <3>3. CASE step[g] = "clone"
      BY <1>1, <1>3, <2>1, <3>1, <3>3 DEF Grounded
    <3>4. CASE step[g] = "start"
      BY <1>1, <1>3, <2>1, <3>1, <3>4 DEF Grounded
    <3>5. CASE step[g] = "smoke"
      BY <1>1, <1>3, <2>1, <3>1, <3>5 DEF Grounded
    <3> QED  BY <3>2, <3>3, <3>4, <3>5
  <2>2. CASE ~(ok /\ step[g] # "finalize")
    <3>1. place'[g] = "stop"
      BY <2>2 DEF StepEnds, HarnessTypeOK
    <3>2. Grounded(passed[g])
      BY DEF InOrder
    <3>3. Grounded(passed'[g])
      BY <1>3, <2>2, <3>2 DEF Grounded
    <3> QED  BY <3>1, <3>3
  <2> QED  BY <2>1, <2>2
<1>6. place' \in [Harnesses -> {"none", "cleanup", "stale", "run", "up", "stop", "report",
                                "down", "ended"}]
  BY DEF StepEnds, HarnessTypeOK
<1>7. step[g] # "finalize" => NextStep[step[g]] \in PIPELINE_STEPS
  BY <1>1
<1>8. step' \in [Harnesses -> PIPELINE_STEPS] /\ passed' \in [Harnesses -> SUBSET PIPELINE_STEPS]
  BY <1>1, <1>7 DEF StepEnds, HarnessTypeOK
<1> QED  BY <1>2, <1>3, <1>4, <1>6, <1>8

(* docker compose down removes at most the containers of its own project,  *)
(* and whoever had something at stake there counts as reached.             *)
LEMMA DownFacts ==
  ASSUME HarnessTypeOK, NEW g \in Harnesses, Down(g) \/ DownFails(g)
  PROVE  /\ container' \in Projects \cup {"unlabelled", NoContainer}
         /\ creator' \in Harnesses \cup {Nobody}
         /\ reached' \subseteq Harnesses /\ reached \subseteq reached'
         /\ \/ container' = container /\ creator' = creator
            \/ container' = NoContainer /\ creator' = Nobody
         /\ Down(g) => /\ creator' = g => container' # args[g].stack
                       /\ \A h \in Harnesses \ {g} :
                            Live(h) /\ args[h].stack = args[g].stack => h \in reached'
BY PipelineFacts DEF Down, DownFails, HarnessTypeOK, Others, ProjectName

(* Launching a harness keeps the invariant.                                *)
LEMMA LaunchKeeps ==
  ASSUME HarnessInv, NEW g \in Harnesses, Launch(g)
  PROVE  HarnessInv'
<1> USE PipelineFacts
<1>1. HarnessTypeOK'
  BY DEF HarnessInv, HarnessTypeOK, Launch, dockerVars, outVars, harnessHistory
<1>2. StepsInOrder'
  <2>1. /\ step' = step /\ passed' = passed /\ evidence' = evidence /\ exit' = exit
        /\ place[g] = "none" /\ place'[g] \in {"cleanup", "run"}
        /\ \A h \in Harnesses \ {g} : place'[h] = place[h]
    BY DEF HarnessInv, HarnessTypeOK, Launch, IsNext, outVars
  <2>2. ASSUME NEW h \in Harnesses PROVE InOrder(h)'
    <3>1. InOrder(h)
      BY DEF HarnessInv, StepsInOrder
    <3> QED  BY <2>1, <3>1 DEF InOrder
  <2> QED  BY <2>2 DEF StepsInOrder
<1>3. GroundIsItsOwn'
  BY DEF HarnessInv, GroundIsItsOwn, Live, Launch, IsNext, dockerVars, outVars, harnessHistory
<1>4. CreatorsKeepTheirPlace'
  BY DEF HarnessInv, HarnessTypeOK, CreatorsKeepTheirPlace, Live, Launch, IsNext, dockerVars,
         harnessHistory
<1>5. NoOrphans'
  BY DEF HarnessInv, HarnessIsTrue, NoOrphans, Launch, dockerVars, harnessHistory
<1>6. ZeroIsCertified'
  BY DEF HarnessInv, HarnessIsTrue, ZeroIsCertified, Launch, outVars
<1>7. CertifiedIsFresh'
  BY <1>1, <1>2, <1>3, FreshnessFollows, PTL
<1> QED  BY <1>1, <1>2, <1>3, <1>4, <1>5, <1>6, <1>7 DEF HarnessInv, HarnessIsTrue

(* The cleanup before an install keeps the invariant.                      *)
LEMMA CleanDownKeeps ==
  ASSUME HarnessInv, NEW g \in Harnesses, CleanDown(g)
  PROVE  HarnessInv'
<1> USE PipelineFacts
<1>1. HarnessTypeOK'
  <2>1. HarnessTypeOK /\ (Down(g) \/ DownFails(g))
    BY DEF HarnessInv, CleanDown
  <2>2. /\ cleaned' \subseteq Harnesses /\ volumes' \in [Projects -> Harnesses \cup {Nobody}]
        /\ place' = [place EXCEPT ![g] = "stale"]
    BY <2>1 DEF CleanDown, Moves, HarnessTypeOK
  <2> QED  BY <2>1, <2>2, DownFacts DEF CleanDown, HarnessTypeOK, outVars
<1>2. StepsInOrder'
  BY DEF HarnessInv, StepsInOrder, InOrder, CleanDown, Moves, outVars
<1>3. GroundIsItsOwn'
  <2>1. /\ HarnessTypeOK /\ StepsInOrder /\ GroundIsItsOwn /\ CreatorsKeepTheirPlace
        /\ (Down(g) \/ DownFails(g))
    BY DEF HarnessInv, CleanDown
  <2>2. /\ args' = args /\ passed' = passed /\ up' = up /\ evidence' = evidence /\ ground' = ground
        /\ place[g] = "cleanup" /\ place'[g] = "stale"
        /\ \A h \in Harnesses \ {g} : place'[h] = place[h]
    BY <2>1 DEF CleanDown, Moves, HarnessTypeOK, outVars
  <2>3. reached \subseteq reached' /\ passed[g] = {} /\ evidence[g] = {} /\ args[g].stack \in Projects
    BY <2>1, <2>2, DownFacts DEF StepsInOrder, InOrder, CreatorsKeepTheirPlace, Live
  <2>4. CASE Down(g) /\ cleaned' = cleaned \cup {g}
             /\ volumes' = [s \in Projects |-> IF s = ProjectName(g) THEN Nobody ELSE volumes[s]]
    <3>1. ASSUME NEW h \in Harnesses \ {g}, Live(h), h \notin reached'
          PROVE  volumes'[args[h].stack] = volumes[args[h].stack]
      BY <2>1, <2>4, <3>1, DownFacts DEF CreatorsKeepTheirPlace, ProjectName
    <3>2. volumes'[args[g].stack] = Nobody
      BY <2>3, <2>4 DEF ProjectName
    <3> QED  BY <2>1, <2>2, <2>3, <2>4, <3>1, <3>2 DEF GroundIsItsOwn, Live, HarnessTypeOK
  <2>5. CASE cleaned' = cleaned /\ volumes' = volumes
    BY <2>1, <2>2, <2>3, <2>5 DEF GroundIsItsOwn, Live, HarnessTypeOK
  <2> QED  BY <2>4, <2>5 DEF CleanDown
<1>4. CreatorsKeepTheirPlace'
  BY DEF HarnessInv, CreatorsKeepTheirPlace, Live, CleanDown, Moves, Down, DownFails
<1>5. NoOrphans'
  BY DEF HarnessInv, HarnessIsTrue, HarnessTypeOK, NoOrphans, CleanDown, Down, DownFails
<1>6. ZeroIsCertified'
  BY DEF HarnessInv, HarnessIsTrue, ZeroIsCertified, CleanDown, outVars
<1>7. CertifiedIsFresh'
  BY <1>1, <1>2, <1>3, FreshnessFollows, PTL
<1> QED  BY <1>1, <1>2, <1>3, <1>4, <1>5, <1>6, <1>7 DEF HarnessInv, HarnessIsTrue

(* Removing a container without a project keeps the invariant.             *)
LEMMA RemoveStaleKeeps ==
  ASSUME HarnessInv, NEW g \in Harnesses, RemoveStale(g)
  PROVE  HarnessInv'
<1> USE PipelineFacts
<1>1. HarnessTypeOK'
  BY DEF HarnessInv, HarnessTypeOK, RemoveStale, Moves, outVars, harnessHistory
<1>2. StepsInOrder'
  <2>1. /\ step' = step /\ passed' = passed /\ evidence' = evidence /\ exit' = exit
        /\ place[g] = "stale" /\ place'[g] = "run"
        /\ \A h \in Harnesses \ {g} : place'[h] = place[h]
    BY DEF HarnessInv, HarnessTypeOK, RemoveStale, Moves, outVars
  <2>2. ASSUME NEW h \in Harnesses PROVE InOrder(h)'
    <3>1. InOrder(h)
      BY DEF HarnessInv, StepsInOrder
    <3> QED  BY <2>1, <3>1 DEF InOrder
  <2> QED  BY <2>2 DEF StepsInOrder
<1>3. GroundIsItsOwn'
  BY DEF HarnessInv, GroundIsItsOwn, Live, RemoveStale, Moves, outVars, harnessHistory
<1>4. CreatorsKeepTheirPlace'
  BY DEF HarnessInv, CreatorsKeepTheirPlace, Live, RemoveStale, Moves, harnessHistory
<1>5. NoOrphans'
  BY DEF HarnessInv, HarnessIsTrue, NoOrphans, RemoveStale, harnessHistory
<1>6. ZeroIsCertified'
  BY DEF HarnessInv, HarnessIsTrue, ZeroIsCertified, RemoveStale, outVars
<1>7. CertifiedIsFresh'
  BY <1>1, <1>2, <1>3, FreshnessFollows, PTL
<1> QED  BY <1>1, <1>2, <1>3, <1>4, <1>5, <1>6, <1>7 DEF HarnessInv, HarnessIsTrue

(* A step that only the runner takes keeps the invariant.                  *)
LEMMA RunStepKeeps ==
  ASSUME HarnessInv, NEW g \in Harnesses, RunStep(g)
  PROVE  HarnessInv'
<1> USE PipelineFacts
<1>1. /\ HarnessTypeOK /\ StepsInOrder /\ GroundIsItsOwn /\ CreatorsKeepTheirPlace
      /\ NoOrphans /\ ZeroIsCertified
  BY DEF HarnessInv, HarnessIsTrue
<1>2. PICK ok \in BOOLEAN : StepEnds(g, ok) /\ place[g] = "run" /\ step[g] \in {"clone", "finalize"}
  BY <1>1 DEF RunStep, StepsInOrder, InOrder
<1>3. /\ container' = container /\ creator' = creator /\ volumes' = volumes /\ args' = args
      /\ cancelled' = cancelled /\ evidence' = evidence /\ exit' = exit
      /\ cleaned' = cleaned /\ tornDown' = tornDown /\ reached' = reached
      /\ ground' = ground /\ up' = up
  BY DEF RunStep, dockerVars, outVars, harnessHistory
<1>4. /\ InOrder(g) /\ place[g] \in {"run", "up"} /\ passed[g] = Before[step[g]]
      /\ evidence[g] = {} /\ exit[g] = "none"
  BY <1>1, <1>2 DEF StepsInOrder, InOrder, HarnessTypeOK
<1>5. /\ place'[g] \in {"run", "stop"}
      /\ place'[g] = "run" => passed'[g] = Before[step'[g]]
      /\ Grounded(passed'[g])
      /\ passed'[g] = IF ok THEN passed[g] \cup {step[g]} ELSE passed[g]
      /\ \A h \in Harnesses \ {g} :
           place'[h] = place[h] /\ passed'[h] = passed[h] /\ step'[h] = step[h]
  <2>1. HarnessTypeOK /\ StepEnds(g, ok) /\ InOrder(g) /\ place[g] \in {"run", "up"}
    BY <1>1, <1>2, <1>4
  <2> QED  BY <2>1, StepEndsFacts
<1>6. HarnessTypeOK'
  <2>1. /\ place' \in [Harnesses -> {"none", "cleanup", "stale", "run", "up", "stop", "report",
                                    "down", "ended"}]
        /\ step' \in [Harnesses -> PIPELINE_STEPS]
        /\ passed' \in [Harnesses -> SUBSET PIPELINE_STEPS]
    BY <1>1, <1>2, <1>4, StepEndsFacts
  <2> QED  BY <1>1, <1>3, <1>4, <2>1 DEF HarnessTypeOK
<1>7. StepsInOrder'
  BY <1>1, <1>3, <1>4, <1>5 DEF StepsInOrder, InOrder
<1>8. GroundIsItsOwn'
  <2> SUFFICES ASSUME NEW h \in cleaned \ reached
               PROVE  /\ place'[h] \in {"stale", "run", "up", "stop", "report", "down", "ended"}
                      /\ Live(h)' => volumes[args[h].stack] \in {Nobody, h}
                      /\ Live(h)'
                         /\ ("start" \in passed'[h] \/ (place'[h] = "up" /\ up'[h] = "created"))
                           => volumes[args[h].stack] = h
                      /\ "smoke" \in passed'[h] \cup evidence[h] => ground'[h] = h
    BY <1>3 DEF GroundIsItsOwn
  <2>1. h \in Harnesses
    BY <1>1 DEF HarnessTypeOK
  <2>2. CASE h # g
    BY <1>1, <1>3, <1>5, <2>1, <2>2 DEF GroundIsItsOwn, Live, HarnessTypeOK
  <2>3. CASE h = g
    BY <1>1, <1>2, <1>3, <1>4, <1>5, <2>3 DEF GroundIsItsOwn, Live, HarnessTypeOK
  <2> QED  BY <2>2, <2>3
<1>9. CreatorsKeepTheirPlace'
  BY <1>1, <1>3, <1>4, <1>5 DEF CreatorsKeepTheirPlace, Live, HarnessTypeOK
<1>10. NoOrphans' /\ ZeroIsCertified'
  BY <1>1, <1>3 DEF NoOrphans, ZeroIsCertified
<1>11. CertifiedIsFresh'
  BY <1>6, <1>7, <1>8, FreshnessFollows, PTL
<1> QED  BY <1>6, <1>7, <1>8, <1>9, <1>10, <1>11 DEF HarnessInv, HarnessIsTrue

(* Starting docker compose up keeps the invariant.                         *)
LEMMA BeginUpKeeps ==
  ASSUME HarnessInv, NEW g \in Harnesses, BeginUp(g)
  PROVE  HarnessInv'
<1> USE PipelineFacts
<1>1. HarnessTypeOK'
  BY DEF HarnessInv, HarnessTypeOK, BeginUp, Moves, dockerVars, outVars, harnessHistory
<1>2. StepsInOrder'
  BY DEF HarnessInv, StepsInOrder, InOrder, BeginUp, Moves, outVars
<1>3. GroundIsItsOwn'
  BY DEF HarnessInv, HarnessTypeOK, GroundIsItsOwn, Live, BeginUp, Moves, dockerVars, outVars,
         harnessHistory
<1>4. CreatorsKeepTheirPlace'
  BY DEF HarnessInv, CreatorsKeepTheirPlace, Live, BeginUp, Moves, dockerVars, harnessHistory
<1>5. NoOrphans'
  BY DEF HarnessInv, HarnessIsTrue, NoOrphans, BeginUp, dockerVars, harnessHistory
<1>6. ZeroIsCertified'
  BY DEF HarnessInv, HarnessIsTrue, ZeroIsCertified, BeginUp, outVars
<1>7. CertifiedIsFresh'
  BY <1>1, <1>2, <1>3, FreshnessFollows, PTL
<1> QED  BY <1>1, <1>2, <1>3, <1>4, <1>5, <1>6, <1>7 DEF HarnessInv, HarnessIsTrue

(* What docker compose up creates keeps the invariant.                     *)
LEMMA UpCreatesKeeps ==
  ASSUME HarnessInv, NEW g \in Harnesses, UpCreates(g)
  PROVE  HarnessInv'
<1> USE PipelineFacts
<1>1. HarnessTypeOK'
  <2>1. HarnessTypeOK /\ args[g].stack \in Projects
    BY DEF HarnessInv, UpCreates, CreatorsKeepTheirPlace
  <2>2. /\ volumes' \in [Projects -> Harnesses \cup {Nobody}]
        /\ up' \in [Harnesses -> {"none", "running", "created", "failed"}]
    BY <2>1 DEF UpCreates, HarnessTypeOK
  <2>3. container' \in Projects /\ creator' = g /\ reached' \subseteq Harnesses
    BY <2>1 DEF UpCreates, Others, HarnessTypeOK
  <2> QED  BY <2>1, <2>2, <2>3 DEF UpCreates, HarnessTypeOK, outVars
<1>2. StepsInOrder'
  BY DEF HarnessInv, StepsInOrder, InOrder, UpCreates, outVars
<1>3. GroundIsItsOwn'
  <2>1. HarnessTypeOK /\ GroundIsItsOwn /\ CreatorsKeepTheirPlace /\ args[g].stack \in Projects
    BY DEF HarnessInv, UpCreates, CreatorsKeepTheirPlace
  <2>2. /\ args' = args /\ passed' = passed /\ place' = place /\ evidence' = evidence
        /\ ground' = ground /\ cleaned' = cleaned /\ reached \subseteq reached'
        /\ volumes'[args[g].stack] =
             IF volumes[args[g].stack] = Nobody THEN g ELSE volumes[args[g].stack]
        /\ \A h \in Harnesses \ {g} : up'[h] = up[h]
    BY <2>1 DEF UpCreates, HarnessTypeOK, outVars
  <2>3. ASSUME NEW h \in Harnesses \ {g}, Live(h), h \notin reached'
        PROVE  volumes'[args[h].stack] = volumes[args[h].stack]
    BY <2>1, <2>3 DEF UpCreates, Others, CreatorsKeepTheirPlace, HarnessTypeOK
  <2> QED  BY <2>1, <2>2, <2>3 DEF GroundIsItsOwn, Live, HarnessTypeOK
<1>4. CreatorsKeepTheirPlace'
  BY DEF HarnessInv, CreatorsKeepTheirPlace, Live, UpCreates
<1>5. NoOrphans'
  BY DEF HarnessInv, CreatorsKeepTheirPlace, NoOrphans, UpCreates
<1>6. ZeroIsCertified'
  BY DEF HarnessInv, HarnessIsTrue, ZeroIsCertified, UpCreates, outVars
<1>7. CertifiedIsFresh'
  BY <1>1, <1>2, <1>3, FreshnessFollows, PTL
<1> QED  BY <1>1, <1>2, <1>3, <1>4, <1>5, <1>6, <1>7 DEF HarnessInv, HarnessIsTrue

(* A docker compose up that fails keeps the invariant.                     *)
LEMMA UpFailsKeeps ==
  ASSUME HarnessInv, NEW g \in Harnesses, UpFails(g)
  PROVE  HarnessInv'
<1> USE PipelineFacts
<1>1. HarnessTypeOK'
  BY DEF HarnessInv, HarnessTypeOK, UpFails, dockerVars, outVars, harnessHistory
<1>2. StepsInOrder'
  BY DEF HarnessInv, StepsInOrder, InOrder, UpFails, outVars
<1>3. GroundIsItsOwn'
  BY DEF HarnessInv, GroundIsItsOwn, Live, UpFails, dockerVars, outVars, harnessHistory
<1>4. CreatorsKeepTheirPlace'
  BY DEF HarnessInv, CreatorsKeepTheirPlace, Live, UpFails, dockerVars, harnessHistory
<1>5. NoOrphans'
  BY DEF HarnessInv, HarnessIsTrue, NoOrphans, UpFails, dockerVars, harnessHistory
<1>6. ZeroIsCertified'
  BY DEF HarnessInv, HarnessIsTrue, ZeroIsCertified, UpFails, outVars
<1>7. CertifiedIsFresh'
  BY <1>1, <1>2, <1>3, FreshnessFollows, PTL
<1> QED  BY <1>1, <1>2, <1>3, <1>4, <1>5, <1>6, <1>7 DEF HarnessInv, HarnessIsTrue

(* The end of the start step keeps the invariant.                          *)
LEMMA UpReturnsKeeps ==
  ASSUME HarnessInv, NEW g \in Harnesses, UpReturns(g)
  PROVE  HarnessInv'
<1> USE PipelineFacts
<1>1. /\ HarnessTypeOK /\ StepsInOrder /\ GroundIsItsOwn /\ CreatorsKeepTheirPlace
      /\ NoOrphans /\ ZeroIsCertified
  BY DEF HarnessInv, HarnessIsTrue
<1>2. PICK ok \in BOOLEAN :
        StepEnds(g, ok) /\ place[g] = "up" /\ step[g] = "start" /\ (ok => up[g] = "created")
  BY <1>1 DEF UpReturns, StepsInOrder, InOrder
<1>3. /\ container' = container /\ creator' = creator /\ volumes' = volumes /\ args' = args
      /\ cancelled' = cancelled /\ evidence' = evidence /\ exit' = exit
      /\ cleaned' = cleaned /\ tornDown' = tornDown /\ reached' = reached
      /\ ground' = ground /\ up' = [up EXCEPT ![g] = "none"]
  BY DEF UpReturns, dockerVars, outVars, harnessHistory
<1>4. /\ InOrder(g) /\ place[g] \in {"run", "up"} /\ passed[g] = Before[step[g]]
      /\ evidence[g] = {} /\ exit[g] = "none"
  BY <1>1, <1>2 DEF StepsInOrder, InOrder, HarnessTypeOK
<1>5. /\ place'[g] \in {"run", "stop"}
      /\ place'[g] = "run" => passed'[g] = Before[step'[g]]
      /\ Grounded(passed'[g])
      /\ passed'[g] = IF ok THEN passed[g] \cup {step[g]} ELSE passed[g]
      /\ \A h \in Harnesses \ {g} :
           place'[h] = place[h] /\ passed'[h] = passed[h] /\ step'[h] = step[h]
  <2>1. HarnessTypeOK /\ StepEnds(g, ok) /\ InOrder(g) /\ place[g] \in {"run", "up"}
    BY <1>1, <1>2, <1>4
  <2> QED  BY <2>1, StepEndsFacts
<1>6. HarnessTypeOK'
  <2>1. /\ place' \in [Harnesses -> {"none", "cleanup", "stale", "run", "up", "stop", "report",
                                    "down", "ended"}]
        /\ step' \in [Harnesses -> PIPELINE_STEPS]
        /\ passed' \in [Harnesses -> SUBSET PIPELINE_STEPS]
    BY <1>1, <1>2, <1>4, StepEndsFacts
  <2> QED  BY <1>1, <1>3, <1>4, <2>1 DEF HarnessTypeOK
<1>7. StepsInOrder'
  BY <1>1, <1>3, <1>4, <1>5 DEF StepsInOrder, InOrder
<1>8. GroundIsItsOwn'
  <2> SUFFICES ASSUME NEW h \in cleaned \ reached
               PROVE  /\ place'[h] \in {"stale", "run", "up", "stop", "report", "down", "ended"}
                      /\ Live(h)' => volumes[args[h].stack] \in {Nobody, h}
                      /\ Live(h)'
                         /\ ("start" \in passed'[h] \/ (place'[h] = "up" /\ up'[h] = "created"))
                           => volumes[args[h].stack] = h
                      /\ "smoke" \in passed'[h] \cup evidence[h] => ground'[h] = h
    BY <1>3 DEF GroundIsItsOwn
  <2>1. h \in Harnesses
    BY <1>1 DEF HarnessTypeOK
  <2>2. CASE h # g
    BY <1>1, <1>3, <1>5, <2>1, <2>2 DEF GroundIsItsOwn, Live, HarnessTypeOK
  <2>3. CASE h = g
    BY <1>1, <1>2, <1>3, <1>4, <1>5, <2>3 DEF GroundIsItsOwn, Live, HarnessTypeOK
  <2> QED  BY <2>2, <2>3
<1>9. CreatorsKeepTheirPlace'
  BY <1>1, <1>3, <1>4, <1>5 DEF CreatorsKeepTheirPlace, Live, HarnessTypeOK
<1>10. NoOrphans' /\ ZeroIsCertified'
  BY <1>1, <1>3 DEF NoOrphans, ZeroIsCertified
<1>11. CertifiedIsFresh'
  BY <1>6, <1>7, <1>8, FreshnessFollows, PTL
<1> QED  BY <1>6, <1>7, <1>8, <1>9, <1>10, <1>11 DEF HarnessInv, HarnessIsTrue

(* The timeout of the start step keeps the invariant.                      *)
LEMMA UpTimesOutKeeps ==
  ASSUME HarnessInv, NEW g \in Harnesses, UpTimesOut(g)
  PROVE  HarnessInv'
<1> USE PipelineFacts
<1>1. /\ HarnessTypeOK /\ StepsInOrder /\ GroundIsItsOwn /\ CreatorsKeepTheirPlace
      /\ NoOrphans /\ ZeroIsCertified
  BY DEF HarnessInv, HarnessIsTrue
<1>2. PICK ok \in BOOLEAN : StepEnds(g, ok) /\ place[g] = "up" /\ step[g] = "start" /\ ok = FALSE
  BY <1>1 DEF UpTimesOut, StepsInOrder, InOrder
<1>3. /\ container' = container /\ creator' = creator /\ volumes' = volumes /\ args' = args
      /\ cancelled' = cancelled /\ evidence' = evidence /\ exit' = exit
      /\ cleaned' = cleaned /\ tornDown' = tornDown /\ reached' = reached
      /\ ground' = ground /\ up' = up
  BY DEF UpTimesOut, dockerVars, outVars, harnessHistory
<1>4. /\ InOrder(g) /\ place[g] \in {"run", "up"} /\ passed[g] = Before[step[g]]
      /\ evidence[g] = {} /\ exit[g] = "none"
  BY <1>1, <1>2 DEF StepsInOrder, InOrder, HarnessTypeOK
<1>5. /\ place'[g] \in {"run", "stop"}
      /\ place'[g] = "run" => passed'[g] = Before[step'[g]]
      /\ Grounded(passed'[g])
      /\ passed'[g] = IF ok THEN passed[g] \cup {step[g]} ELSE passed[g]
      /\ \A h \in Harnesses \ {g} :
           place'[h] = place[h] /\ passed'[h] = passed[h] /\ step'[h] = step[h]
  <2>1. HarnessTypeOK /\ StepEnds(g, ok) /\ InOrder(g) /\ place[g] \in {"run", "up"}
    BY <1>1, <1>2, <1>4
  <2> QED  BY <2>1, StepEndsFacts
<1>6. HarnessTypeOK'
  <2>1. /\ place' \in [Harnesses -> {"none", "cleanup", "stale", "run", "up", "stop", "report",
                                    "down", "ended"}]
        /\ step' \in [Harnesses -> PIPELINE_STEPS]
        /\ passed' \in [Harnesses -> SUBSET PIPELINE_STEPS]
    BY <1>1, <1>2, <1>4, StepEndsFacts
  <2> QED  BY <1>1, <1>3, <1>4, <2>1 DEF HarnessTypeOK
<1>7. StepsInOrder'
  BY <1>1, <1>3, <1>4, <1>5 DEF StepsInOrder, InOrder
<1>8. GroundIsItsOwn'
  <2> SUFFICES ASSUME NEW h \in cleaned \ reached
               PROVE  /\ place'[h] \in {"stale", "run", "up", "stop", "report", "down", "ended"}
                      /\ Live(h)' => volumes[args[h].stack] \in {Nobody, h}
                      /\ Live(h)'
                         /\ ("start" \in passed'[h] \/ (place'[h] = "up" /\ up'[h] = "created"))
                           => volumes[args[h].stack] = h
                      /\ "smoke" \in passed'[h] \cup evidence[h] => ground'[h] = h
    BY <1>3 DEF GroundIsItsOwn
  <2>1. h \in Harnesses
    BY <1>1 DEF HarnessTypeOK
  <2>2. CASE h # g
    BY <1>1, <1>3, <1>5, <2>1, <2>2 DEF GroundIsItsOwn, Live, HarnessTypeOK
  <2>3. CASE h = g
    BY <1>1, <1>2, <1>3, <1>4, <1>5, <2>3 DEF GroundIsItsOwn, Live, HarnessTypeOK
  <2> QED  BY <2>2, <2>3
<1>9. CreatorsKeepTheirPlace'
  BY <1>1, <1>3, <1>4, <1>5 DEF CreatorsKeepTheirPlace, Live, HarnessTypeOK
<1>10. NoOrphans' /\ ZeroIsCertified'
  BY <1>1, <1>3 DEF NoOrphans, ZeroIsCertified
<1>11. CertifiedIsFresh'
  BY <1>6, <1>7, <1>8, FreshnessFollows, PTL
<1> QED  BY <1>6, <1>7, <1>8, <1>9, <1>10, <1>11 DEF HarnessInv, HarnessIsTrue

(* The smoke test keeps the invariant.                                     *)
LEMMA SmokeKeeps ==
  ASSUME HarnessInv, NEW g \in Harnesses, Smoke(g)
  PROVE  HarnessInv'
<1> USE PipelineFacts
<1>1. /\ HarnessTypeOK /\ StepsInOrder /\ GroundIsItsOwn /\ CreatorsKeepTheirPlace
      /\ NoOrphans /\ ZeroIsCertified
  BY DEF HarnessInv, HarnessIsTrue
<1>2. PICK ok \in BOOLEAN : StepEnds(g, ok) /\ place[g] = "run" /\ step[g] = "smoke"
  BY <1>1 DEF Smoke, StepsInOrder, InOrder
<1>3. /\ container' = container /\ creator' = creator /\ volumes' = volumes /\ args' = args
      /\ cancelled' = cancelled /\ evidence' = evidence /\ exit' = exit
      /\ cleaned' = cleaned /\ tornDown' = tornDown /\ reached' = reached
      /\ ground' = [ground EXCEPT ![g] = volumes[args[g].stack]] /\ up' = up
  BY DEF Smoke, dockerVars, outVars, harnessHistory
<1>4. /\ InOrder(g) /\ place[g] \in {"run", "up"} /\ passed[g] = Before[step[g]]
      /\ evidence[g] = {} /\ exit[g] = "none"
  BY <1>1, <1>2 DEF StepsInOrder, InOrder, HarnessTypeOK
<1>5. /\ place'[g] \in {"run", "stop"}
      /\ place'[g] = "run" => passed'[g] = Before[step'[g]]
      /\ Grounded(passed'[g])
      /\ passed'[g] = IF ok THEN passed[g] \cup {step[g]} ELSE passed[g]
      /\ \A h \in Harnesses \ {g} :
           place'[h] = place[h] /\ passed'[h] = passed[h] /\ step'[h] = step[h]
  <2>1. HarnessTypeOK /\ StepEnds(g, ok) /\ InOrder(g) /\ place[g] \in {"run", "up"}
    BY <1>1, <1>2, <1>4
  <2> QED  BY <2>1, StepEndsFacts
<1>6. HarnessTypeOK'
  <2>1. /\ place' \in [Harnesses -> {"none", "cleanup", "stale", "run", "up", "stop", "report",
                                    "down", "ended"}]
        /\ step' \in [Harnesses -> PIPELINE_STEPS]
        /\ passed' \in [Harnesses -> SUBSET PIPELINE_STEPS]
    BY <1>1, <1>2, <1>4, StepEndsFacts
  <2> QED  BY <1>1, <1>3, <1>4, <2>1 DEF HarnessTypeOK, CreatorsKeepTheirPlace, Live
<1>7. StepsInOrder'
  BY <1>1, <1>3, <1>4, <1>5 DEF StepsInOrder, InOrder
<1>8. GroundIsItsOwn'
  <2> SUFFICES ASSUME NEW h \in cleaned \ reached
               PROVE  /\ place'[h] \in {"stale", "run", "up", "stop", "report", "down", "ended"}
                      /\ Live(h)' => volumes[args[h].stack] \in {Nobody, h}
                      /\ Live(h)'
                         /\ ("start" \in passed'[h] \/ (place'[h] = "up" /\ up'[h] = "created"))
                           => volumes[args[h].stack] = h
                      /\ "smoke" \in passed'[h] \cup evidence[h] => ground'[h] = h
    BY <1>3 DEF GroundIsItsOwn
  <2>1. h \in Harnesses
    BY <1>1 DEF HarnessTypeOK
  <2>2. CASE h # g
    BY <1>1, <1>3, <1>5, <2>1, <2>2 DEF GroundIsItsOwn, Live, HarnessTypeOK
  <2>3. CASE h = g
    BY <1>1, <1>2, <1>3, <1>4, <1>5, <2>3 DEF GroundIsItsOwn, Live, HarnessTypeOK
  <2> QED  BY <2>2, <2>3
<1>9. CreatorsKeepTheirPlace'
  BY <1>1, <1>3, <1>4, <1>5 DEF CreatorsKeepTheirPlace, Live, HarnessTypeOK
<1>10. NoOrphans' /\ ZeroIsCertified'
  BY <1>1, <1>3 DEF NoOrphans, ZeroIsCertified
<1>11. CertifiedIsFresh'
  BY <1>6, <1>7, <1>8, FreshnessFollows, PTL
<1> QED  BY <1>6, <1>7, <1>8, <1>9, <1>10, <1>11 DEF HarnessInv, HarnessIsTrue

(* SIGINT keeps the invariant.                                             *)
LEMMA InterruptKeeps ==
  ASSUME HarnessInv, NEW g \in Harnesses, Interrupt(g)
  PROVE  HarnessInv'
<1> USE PipelineFacts
<1>1. HarnessTypeOK'
  BY DEF HarnessInv, HarnessTypeOK, Interrupt, dockerVars, outVars, harnessHistory
<1>2. StepsInOrder'
  BY DEF HarnessInv, StepsInOrder, InOrder, Interrupt, outVars
<1>3. GroundIsItsOwn'
  BY DEF HarnessInv, GroundIsItsOwn, Live, Interrupt, dockerVars, outVars, harnessHistory
<1>4. CreatorsKeepTheirPlace'
  BY DEF HarnessInv, CreatorsKeepTheirPlace, Live, Interrupt, dockerVars, harnessHistory
<1>5. NoOrphans'
  BY DEF HarnessInv, HarnessIsTrue, NoOrphans, Interrupt, dockerVars, harnessHistory
<1>6. ZeroIsCertified'
  BY DEF HarnessInv, HarnessIsTrue, ZeroIsCertified, Interrupt, outVars
<1>7. CertifiedIsFresh'
  BY <1>1, <1>2, <1>3, FreshnessFollows, PTL
<1> QED  BY <1>1, <1>2, <1>3, <1>4, <1>5, <1>6, <1>7 DEF HarnessInv, HarnessIsTrue

(* The delivery of a cancel keeps the invariant.                           *)
LEMMA CancelledKeeps ==
  ASSUME HarnessInv, NEW g \in Harnesses, Cancelled(g)
  PROVE  HarnessInv'
<1> USE PipelineFacts
<1>1. HarnessTypeOK'
  BY DEF HarnessInv, HarnessTypeOK, Cancelled, dockerVars, outVars, harnessHistory
<1>2. StepsInOrder'
  BY DEF HarnessInv, StepsInOrder, InOrder, Cancelled, outVars
<1>3. GroundIsItsOwn'
  BY DEF HarnessInv, GroundIsItsOwn, Live, Cancelled, dockerVars, outVars, harnessHistory
<1>4. CreatorsKeepTheirPlace'
  BY DEF HarnessInv, CreatorsKeepTheirPlace, Live, Cancelled, dockerVars, harnessHistory
<1>5. NoOrphans'
  BY DEF HarnessInv, HarnessIsTrue, NoOrphans, Cancelled, dockerVars, harnessHistory
<1>6. ZeroIsCertified'
  BY DEF HarnessInv, HarnessIsTrue, ZeroIsCertified, Cancelled, outVars
<1>7. CertifiedIsFresh'
  BY <1>1, <1>2, <1>3, FreshnessFollows, PTL
<1> QED  BY <1>1, <1>2, <1>3, <1>4, <1>5, <1>6, <1>7 DEF HarnessInv, HarnessIsTrue

(* Stopping the capturer keeps the invariant.                              *)
LEMMA StopCapturerKeeps ==
  ASSUME HarnessInv, NEW g \in Harnesses, StopCapturer(g)
  PROVE  HarnessInv'
<1> USE PipelineFacts
<1>1. HarnessTypeOK'
  <2>1. HarnessTypeOK
    BY DEF HarnessInv
  <2>2. CASE cancelled[g]
    <3>1. End(g, "other")
      BY <2>2 DEF StopCapturer
    <3> QED  BY <2>1, <3>1, EndFacts DEF StopCapturer, HarnessTypeOK, dockerVars, harnessHistory
  <2>3. CASE ~cancelled[g]
    BY <2>1, <2>3 DEF StopCapturer, HarnessTypeOK, dockerVars, harnessHistory
  <2> QED  BY <2>2, <2>3
<1>2. StepsInOrder'
  BY DEF HarnessInv, HarnessTypeOK, StepsInOrder, InOrder, Grounded, StopCapturer, End
<1>3. GroundIsItsOwn'
  BY DEF HarnessInv, HarnessTypeOK, GroundIsItsOwn, Live, StopCapturer, End, dockerVars,
         harnessHistory
<1>4. CreatorsKeepTheirPlace'
  <2>1. /\ HarnessTypeOK /\ CreatorsKeepTheirPlace /\ place[g] = "stop" /\ up' = up /\ tornDown' = tornDown
        /\ container' = container /\ creator' = creator
    BY DEF HarnessInv, StopCapturer, dockerVars, harnessHistory
  <2>2. /\ \A h \in Harnesses : args'[h].stack = args[h].stack
        /\ place'[g] \in {"report", "ended"}
        /\ \A h \in Harnesses \ {g} : place'[h] = place[h]
    BY <2>1, EndFacts DEF StopCapturer, HarnessTypeOK
  <2> QED  BY <2>1, <2>2 DEF CreatorsKeepTheirPlace, Live, HarnessTypeOK
<1>5. NoOrphans'
  BY DEF HarnessInv, HarnessIsTrue, NoOrphans, StopCapturer, dockerVars, harnessHistory
<1>6. ZeroIsCertified'
  BY DEF HarnessInv, HarnessIsTrue, HarnessTypeOK, ZeroIsCertified, StopCapturer, End
<1>7. CertifiedIsFresh'
  BY <1>1, <1>2, <1>3, FreshnessFollows, PTL
<1> QED  BY <1>1, <1>2, <1>3, <1>4, <1>5, <1>6, <1>7 DEF HarnessInv, HarnessIsTrue

(* Printing the record keeps the invariant.                                *)
LEMMA ReportKeeps ==
  ASSUME HarnessInv, NEW g \in Harnesses, Report(g)
  PROVE  HarnessInv'
<1> USE PipelineFacts
<1>1. HarnessTypeOK'
  <2>1. /\ HarnessTypeOK /\ up' = up
        /\ evidence' \in [Harnesses -> SUBSET PIPELINE_STEPS]
    BY DEF HarnessInv, HarnessTypeOK, Report
  <2>2. CASE \E code \in {"zero", "other"} : End(g, code)
    BY <2>1, <2>2, EndFacts DEF Report, HarnessTypeOK, dockerVars, harnessHistory
  <2>3. CASE place' = [place EXCEPT ![g] = "down"] /\ UNCHANGED <<exit, cancelled, step, passed, args>>
    BY <2>1, <2>3 DEF Report, HarnessTypeOK, dockerVars, harnessHistory
  <2> QED  BY <2>2, <2>3 DEF Report, ExitCode
<1>2. StepsInOrder'
  BY DEF HarnessInv, HarnessTypeOK, StepsInOrder, InOrder, Grounded, Report, End
<1>3. GroundIsItsOwn'
  BY DEF HarnessInv, HarnessTypeOK, GroundIsItsOwn, Live, Report, End, dockerVars,
         harnessHistory
<1>4. CreatorsKeepTheirPlace'
  <2>1. /\ HarnessTypeOK /\ CreatorsKeepTheirPlace /\ place[g] = "report" /\ up' = up /\ tornDown' = tornDown
        /\ container' = container /\ creator' = creator
    BY DEF HarnessInv, Report, dockerVars, harnessHistory
  <2>2. /\ \A h \in Harnesses : args'[h].stack = args[h].stack
        /\ place'[g] \in {"down", "ended"}
        /\ \A h \in Harnesses \ {g} : place'[h] = place[h]
    BY <2>1, EndFacts DEF Report, ExitCode, HarnessTypeOK
  <2> QED  BY <2>1, <2>2 DEF CreatorsKeepTheirPlace, Live, HarnessTypeOK
<1>5. NoOrphans'
  BY DEF HarnessInv, HarnessIsTrue, NoOrphans, Report, dockerVars, harnessHistory
<1>6. ZeroIsCertified'
  <2>1. HarnessTypeOK /\ StepsInOrder /\ ZeroIsCertified /\ place[g] = "report"
    BY DEF HarnessInv, HarnessIsTrue, Report
  <2>2. exit[g] = "none"
    BY <2>1 DEF StepsInOrder, InOrder, HarnessTypeOK
  <2>3. exit'[g] = "zero" => "smoke" \in evidence'[g]
    BY <2>1, <2>2 DEF Report, End, ExitCode, HarnessTypeOK
  <2>4. \A h \in Harnesses \ {g} : exit'[h] = exit[h] /\ evidence'[h] = evidence[h]
    BY <2>1 DEF Report, End, HarnessTypeOK
  <2> QED  BY <2>1, <2>3, <2>4 DEF ZeroIsCertified
<1>7. CertifiedIsFresh'
  BY <1>1, <1>2, <1>3, FreshnessFollows, PTL
<1> QED  BY <1>1, <1>2, <1>3, <1>4, <1>5, <1>6, <1>7 DEF HarnessInv, HarnessIsTrue

(* The teardown keeps the invariant.                                       *)
LEMMA TearDownKeeps ==
  ASSUME HarnessInv, NEW g \in Harnesses, TearDown(g)
  PROVE  HarnessInv'
<1> USE PipelineFacts
<1>1. HarnessTypeOK'
  <2>1. /\ HarnessTypeOK /\ (Down(g) \/ DownFails(g))
        /\ \E code \in {"zero", "other"} : End(g, code)
    BY DEF HarnessInv, TearDown, ExitCode
  <2>2. tornDown' \subseteq Harnesses
    BY <2>1 DEF TearDown, HarnessTypeOK
  <2> QED  BY <2>1, <2>2, EndFacts, DownFacts DEF TearDown, HarnessTypeOK
<1>2. StepsInOrder'
  BY DEF HarnessInv, HarnessTypeOK, StepsInOrder, InOrder, Grounded, TearDown, End
<1>3. GroundIsItsOwn'
  BY DEF HarnessInv, GroundIsItsOwn, Live, TearDown, End, Down, DownFails
<1>4. CreatorsKeepTheirPlace'
  BY DEF HarnessInv, HarnessTypeOK, CreatorsKeepTheirPlace, Live, TearDown, End, Down, DownFails
<1>5. NoOrphans'
  BY DEF HarnessInv, HarnessIsTrue, HarnessTypeOK, CreatorsKeepTheirPlace, NoOrphans, TearDown,
         Down, DownFails, ProjectName
<1>6. ZeroIsCertified'
  <2>1. HarnessTypeOK /\ StepsInOrder /\ ZeroIsCertified /\ place[g] = "down" /\ evidence' = evidence
    BY DEF HarnessInv, HarnessIsTrue, TearDown
  <2>2. evidence[g] = passed[g]
    BY <2>1 DEF StepsInOrder, InOrder
  <2>3. exit'[g] = "zero" => "smoke" \in evidence[g]
    BY <2>1, <2>2 DEF TearDown, End, ExitCode, HarnessTypeOK
  <2>4. \A h \in Harnesses \ {g} : exit'[h] = exit[h]
    BY <2>1 DEF TearDown, End, HarnessTypeOK
  <2> QED  BY <2>1, <2>3, <2>4 DEF ZeroIsCertified
<1>7. CertifiedIsFresh'
  BY <1>1, <1>2, <1>3, FreshnessFollows, PTL
<1> QED  BY <1>1, <1>2, <1>3, <1>4, <1>5, <1>6, <1>7 DEF HarnessInv, HarnessIsTrue

(* SIGKILL keeps the invariant.                                            *)
LEMMA KillKeeps ==
  ASSUME HarnessInv, NEW g \in Harnesses, Kill(g)
  PROVE  HarnessInv'
<1> USE PipelineFacts
<1>1. HarnessTypeOK'
  <2>1. HarnessTypeOK /\ End(g, "other")
    BY DEF HarnessInv, Kill
  <2>2. up' \in [Harnesses -> {"none", "running", "created", "failed"}]
    BY <2>1 DEF Kill, HarnessTypeOK
  <2> QED  BY <2>1, <2>2, EndFacts DEF Kill, HarnessTypeOK, dockerVars, harnessHistory
<1>2. StepsInOrder'
  BY DEF HarnessInv, HarnessTypeOK, StepsInOrder, InOrder, Grounded, Kill, End
<1>3. GroundIsItsOwn'
  BY DEF HarnessInv, GroundIsItsOwn, Live, Kill, End, dockerVars, harnessHistory
<1>4. CreatorsKeepTheirPlace'
  BY DEF HarnessInv, CreatorsKeepTheirPlace, Live, Kill, End, dockerVars, harnessHistory
<1>5. NoOrphans'
  BY DEF HarnessInv, HarnessIsTrue, NoOrphans, Kill, dockerVars, harnessHistory
<1>6. ZeroIsCertified'
  BY DEF HarnessInv, HarnessIsTrue, ZeroIsCertified, Kill, End
<1>7. CertifiedIsFresh'
  BY <1>1, <1>2, <1>3, FreshnessFollows, PTL
<1> QED  BY <1>1, <1>2, <1>3, <1>4, <1>5, <1>6, <1>7 DEF HarnessInv, HarnessIsTrue

(* Every step of the harnesses, or of docker for them, keeps the           *)
(* invariant.                                                              *)
LEMMA HarnessNextKeeps == HarnessInv /\ [HarnessNext]_harnessVars => HarnessInv'
<1> SUFFICES ASSUME HarnessInv, [HarnessNext]_harnessVars
             PROVE  HarnessInv'
  OBVIOUS
<1>1. CASE UNCHANGED harnessVars
  BY <1>1 DEF HarnessInv, HarnessTypeOK, HarnessIsTrue, CertifiedIsFresh, NoOrphans, ZeroIsCertified,
              StepsInOrder, InOrder, GroundIsItsOwn, CreatorsKeepTheirPlace, Live,
              harnessVars, dockerVars, runVars, outVars, harnessHistory
<1>2. ASSUME NEW g \in Harnesses,
             \/ Launch(g) \/ CleanDown(g) \/ RemoveStale(g)
             \/ RunStep(g) \/ BeginUp(g) \/ UpCreates(g) \/ UpFails(g) \/ UpReturns(g) \/ UpTimesOut(g)
             \/ Smoke(g) \/ Interrupt(g) \/ Cancelled(g)
             \/ StopCapturer(g) \/ Report(g) \/ TearDown(g) \/ Kill(g)
      PROVE  HarnessInv'
  BY <1>2, LaunchKeeps, CleanDownKeeps, RemoveStaleKeeps, RunStepKeeps, BeginUpKeeps, UpCreatesKeeps,
     UpFailsKeeps, UpReturnsKeeps, UpTimesOutKeeps, SmokeKeeps, InterruptKeeps, CancelledKeeps,
     StopCapturerKeeps, ReportKeeps, TearDownKeeps, KillKeeps
<1> QED  BY <1>1, <1>2 DEF HarnessNext

(* A harness certifies a stack only on containers and volumes of its own,  *)
(* leaves none of what it has torn down, and ends with 0 only on evidence  *)
(* it has printed, whatever is interrupted or killed, and beside any       *)
(* number of other harnesses.                                              *)
THEOREM HarnessesAreTrue == HarnessSpec => []HarnessIsTrue
<1>1. HarnessInv => HarnessIsTrue
  BY DEF HarnessInv
<1> QED  BY <1>1, HarnessStarts, HarnessNextKeeps, PTL DEF HarnessSpec

-----------------------------------------------------------------------------
(* The checkers *)

(* A set of numbers that is not empty has a least one. *)
LEMMA LeastOf ==
  ASSUME NEW S, S \subseteq Nat, S # {}
  PROVE  \E k \in S : \A l \in S : k <= l
<1> DEFINE Less == OpToRel(<, Nat)
<1>1. IsWellFoundedOn(Less, Nat)
  BY NatLessThanWellFounded
<1>2. \A k, l \in Nat : k < l => <<k, l>> \in Less
  BY DEF OpToRel
<1> HIDE DEF Less
<1>3. PICK k \in S : \A l \in S : <<l, k>> \notin Less
  BY <1>1, WFMin
<1>4. ASSUME NEW l \in S
      PROVE  k <= l
  <2>1. k \in Nat /\ l \in Nat /\ ~(l < k)
    BY <1>2, <1>3
  <2> QED  BY <2>1
<1> QED  BY <1>4

(* Of stacks that come into question there is a best one.                  *)
LEMMA BestIsOne ==
  ASSUME NEW S, S \subseteq CatalogStacks, BestOf(S, STATUS_PRIORITY) # NoStack
  PROVE  BestOf(S, STATUS_PRIORITY) \in S
<1> DEFINE Size(u) == Cardinality(Vocabulary(u))
           Rank(u) == 4 - STATUS_PRIORITY[u]
<1>1. S # {}
  BY DEF BestOf
<1>2. \A u \in S : STATUS_PRIORITY[u] \in 0..4 /\ Size(u) \in Nat /\ u \in Nat
  <2> SUFFICES ASSUME NEW u \in S
               PROVE  STATUS_PRIORITY[u] \in 0..4 /\ Size(u) \in Nat /\ u \in Nat
    OBVIOUS
  <2>1. u \in CatalogStacks /\ u \in Nat /\ IsFiniteSet(Vocabulary(u))
    BY CartAssumption DEF CartAssumption
  <2>2. Size(u) \in Nat
    BY <2>1, FS_CardinalityType
  <2>3. STATUS_PRIORITY[u] \in 0..4
    BY <2>1 DEF STATUS_PRIORITY
  <2> QED  BY <2>1, <2>2, <2>3
<1> HIDE DEF Size
<1>3. PICK s \in S : \A u \in S : Rank(s) <= Rank(u)
  <2> DEFINE R == {Rank(u) : u \in S}
  <2>1. R \subseteq Nat /\ R # {}
    BY <1>1, <1>2
  <2>2. PICK k \in R : \A l \in R : k <= l
    <3> HIDE DEF R
    <3> QED  BY <2>1, LeastOf
  <2> QED  BY <2>2
<1> DEFINE A == {u \in S : STATUS_PRIORITY[u] = STATUS_PRIORITY[s]}
<1>4. PICK t \in A : \A u \in A : Size(t) <= Size(u)
  <2> DEFINE Z == {Size(u) : u \in A}
  <2>1. Z \subseteq Nat /\ Z # {}
    BY <1>2
  <2>2. PICK k \in Z : \A l \in Z : k <= l
    <3> HIDE DEF Z
    <3> QED  BY <2>1, LeastOf
  <2> QED  BY <2>2
<1> DEFINE B == {u \in A : Size(u) = Size(t)}
<1>5. PICK b \in B : \A u \in B : b <= u
  <2>1. B \subseteq Nat /\ B # {}
    BY <1>2
  <2> HIDE DEF B
  <2> QED  BY <2>1, LeastOf
<1>6. \A u \in S : Ahead(b, u, STATUS_PRIORITY)
  <2> SUFFICES ASSUME NEW u \in S PROVE Ahead(b, u, STATUS_PRIORITY)
    OBVIOUS
  <2>1. /\ STATUS_PRIORITY[b] \in Nat /\ STATUS_PRIORITY[u] \in Nat
        /\ STATUS_PRIORITY[b] >= STATUS_PRIORITY[u]
        /\ Size(b) \in Nat /\ Size(u) \in Nat
    BY <1>2, <1>3
  <2>2. STATUS_PRIORITY[b] = STATUS_PRIORITY[u] => Size(b) <= Size(u)
    BY <1>4
  <2>3. STATUS_PRIORITY[b] = STATUS_PRIORITY[u] /\ Size(b) = Size(u) => b <= u
    BY <1>5
  <2> QED  BY <2>1, <2>2, <2>3 DEF Ahead, Size
<1> QED  BY <1>1, <1>5, <1>6 DEF BestOf

(* What is wrong with a cart is wrong with every larger one: a combination *)
(* of a lock, or a pair without a binding, is still in it.                 *)
LEMMA ConflictsStay ==
  ASSUME NEW c, NEW d, c \subseteq d
  PROVE  /\ LockIncompatible(c) \subseteq LockIncompatible(d)
         /\ PairIncompatible(c) \subseteq PairIncompatible(d)
<1>1. LockIncompatible(c) \subseteq LockIncompatible(d)
  BY DEF LockIncompatible
<1>2. PairIncompatible(c) \subseteq PairIncompatible(d)
  BY DEF PairIncompatible
<1> QED  BY <1>1, <1>2

(* explain_cart says "wont_work" exactly of a cart with such a conflict,   *)
(* whichever stack it matches.                                             *)
LEMMA ConflictsDecide ==
  ASSUME NEW c
  PROVE  ExplainCart(c) = "wont_work" <=>
           c # {} /\ (LockIncompatible(c) # {} \/ PairIncompatible(c) # {})
<1> DEFINE Bad == LockIncompatible(c) # {} \/ PairIncompatible(c) # {}
<1>1. CASE c = {}
  BY <1>1 DEF ExplainCart
<1>2. CASE c # {} /\ Bad
  BY <1>2 DEF ExplainCart
<1>3. CASE c # {} /\ ~Bad
  BY <1>3 DEF ExplainCart
<1> QED  BY <1>1, <1>2, <1>3

(* No step that only adds components heals a cart.                         *)
LEMMA NothingHeals == AddingNeverHeals
<1> SUFFICES ASSUME ExplainCart(shopCart) = "wont_work", shopCart \subseteq shopCart'
             PROVE  ExplainCart(shopCart') = "wont_work"
  BY DEF AddingNeverHeals
<1>1. shopCart # {} /\ (LockIncompatible(shopCart) # {} \/ PairIncompatible(shopCart) # {})
  BY ConflictsDecide
<1>2. shopCart' # {} /\ (LockIncompatible(shopCart') # {} \/ PairIncompatible(shopCart') # {})
  BY <1>1, ConflictsStay
<1> QED  BY <1>2, ConflictsDecide

(* A cart that lies in the vocabulary of one stack has no conflict but     *)
(* those the lock of the stack itself tells.                               *)
LEMMA OneStackAgrees ==
  ASSUME NEW c, NEW s \in CatalogStacks, c \subseteq Vocabulary(s), Hits(s, c) = {}
  PROVE  LockIncompatible(c) = {} /\ PairIncompatible(c) = {}
<1>1. PairIncompatible(c) = {}
  BY DEF PairIncompatible, CoexistInAnyStack
<1>2. ASSUME NEW e \in LockIncompatible(c) PROVE FALSE
  <2>1. /\ Len(e) >= 2
        /\ \A i \in DOMAIN e : e[i].form # "tag" /\ e[i].id \in c
    BY DEF LockIncompatible
  <2>2. PICK t \in CatalogStacks : e \in Locks[t].incompatible
    BY DEF LockIncompatible
  <2>3. e \in Locks[s].incompatible /\ \A i \in DOMAIN e : e[i].form = "bare"
    BY <2>1, <2>2, LocksAssumption
  <2>4. e # <<>>
    BY <2>1
  <2> QED  BY <2>1, <2>3, <2>4 DEF Hits
<1> QED  BY <1>1, <1>2

(* check_cart and explain_cart never contradict each other, for any        *)
(* catalog whose locks agree on what their stacks consist of.              *)
THEOREM VerdictsAgree == CartSpec => []CheckersAgree
<1>1. CheckersAgree
  <2> SUFFICES ASSUME CheckCart(shopCart) = "compatible" PROVE ExplainCart(shopCart) # "wont_work"
    BY DEF CheckersAgree
  <2> DEFINE s == Married(shopCart)
  <2>1. s # NoStack /\ Hits(s, shopCart) = {}
    <3>1. CASE s = NoStack
      BY <3>1 DEF CheckCart
    <3>2. CASE s # NoStack /\ Hits(s, shopCart) # {}
      BY <3>2 DEF CheckCart
    <3> HIDE DEF s
    <3> QED  BY <3>1, <3>2
  <2>2. s \in CatalogStacks /\ shopCart \subseteq Vocabulary(s)
    <3> DEFINE S == {u \in CatalogStacks :
                       shopCart # {} /\ shopCart \subseteq Vocabulary(u) /\ Enough(u, shopCart)}
    <3>1. s = BestOf(S, STATUS_PRIORITY)
      BY DEF Married
    <3>2. s \in S
      <4> HIDE DEF S, s
      <4>1. S \subseteq CatalogStacks
        BY DEF S
      <4> QED  BY <2>1, <3>1, <4>1, BestIsOne
    <3> HIDE DEF s
    <3> QED  BY <3>2
  <2> HIDE DEF s
  <2> QED  BY <2>1, <2>2, OneStackAgrees, ConflictsDecide
<1> QED  BY <1>1, PTL

(* The pick is of the first category that is missing, and nothing of it is *)
(* in the cart.                                                            *)
LEMMA PickIsOfTheFirst ==
  ASSUME NEW c, NextPick(c) # "none"
  PROVE  \E i \in Missing(c) :
           /\ Category[NextPick(c)] = Required[i] /\ Required[i] \notin CategoriesOf(c)
           /\ NextPick(c) \in Index \cap Certified
<1>1. DOMAIN Required = 1..Len(Required) /\ Len(Required) \in Nat
  BY CartAssumption DEF CartAssumption
<1>2. Missing(c) # {} /\ Missing(c) \subseteq Nat
  BY <1>1 DEF NextPick, Missing
<1> DEFINE i == Min(Missing(c))
<1>3. i \in Missing(c)
  <2>1. \E k \in Missing(c) : \A l \in Missing(c) : k <= l
    BY <1>2, LeastOf
  <2> QED  BY <2>1 DEF Min
<1>4. NextPick(c) = Recommended[Required[i]]
  BY <1>2 DEF NextPick
<1> HIDE DEF i
<1>5. Required[i] \in DOMAIN Recommended /\ Required[i] \notin CategoriesOf(c)
  BY <1>3, CartAssumption DEF CartAssumption, Missing
<1>6. NextPick(c) \in Index \cap Certified /\ Category[NextPick(c)] = Required[i]
  BY <1>4, <1>5, RecommendedAssumption DEF Certified
<1> QED  BY <1>3, <1>5, <1>6

(* Following the recommendation fills a category and doubles none.         *)
LEMMA PickHelps == RecommendedPickHelps
<1> SUFFICES ASSUME NEW x \in shopCart' \ shopCart, Valid(shopCart),
                    x = NextPick(shopCart), x # "none", shopCart' = shopCart \cup {x}
             PROVE  /\ Valid(shopCart') /\ Score(shopCart') > Score(shopCart)
                    /\ Missing(shopCart') = {} => Complete(shopCart')
  BY DEF RecommendedPickHelps
<1>1. PICK i \in Missing(shopCart) :
        /\ Category[x] = Required[i] /\ Required[i] \notin CategoriesOf(shopCart)
        /\ x \in Index \cap Certified
  BY PickIsOfTheFirst
<1>2. Experimental(shopCart') = {}
  BY <1>1 DEF Valid, Experimental
<1>3. Doubled(shopCart') = {}
  <2> SUFFICES ASSUME NEW p \in Doubled(shopCart') PROVE FALSE
    OBVIOUS
  <2>1. PICK a, b \in shopCart' :
          a # b /\ a \in Index /\ b \in Index /\ Category[a] = Category[b]
    BY DEF Doubled
  <2>2. CASE a # x /\ b # x
    <3>1. <<a, b>> \in Doubled(shopCart)
      BY <2>1, <2>2 DEF Doubled
    <3> QED  BY <3>1 DEF Valid
  <2>3. CASE a = x \/ b = x
    BY <1>1, <2>1, <2>3 DEF CategoriesOf
  <2> QED  BY <2>2, <2>3
<1>4. Score(shopCart') > Score(shopCart)
  <2> DEFINE M == Missing(shopCart)
             L == Missing(shopCart')
  <2>1. DOMAIN Required = 1..Len(Required) /\ Len(Required) \in Nat
    BY CartAssumption DEF CartAssumption
  <2>2. L \subseteq M \ {i}
    <3>1. /\ CategoriesOf(shopCart) \subseteq CategoriesOf(shopCart')
          /\ Required[i] \in CategoriesOf(shopCart')
      BY <1>1 DEF CategoriesOf
    <3> QED  BY <3>1 DEF Missing
  <2>3. IsFiniteSet(M)
    <3>1. M \in SUBSET (1..Len(Required))
      BY <2>1 DEF Missing
    <3> HIDE DEF M
    <3>2. IsFiniteSet(1..Len(Required))
      BY <2>1, FS_Interval
    <3> QED  BY <3>1, <3>2, FS_Subset
  <2> HIDE DEF L, M
  <2>4. Cardinality(M \ {i}) = Cardinality(M) - 1 /\ IsFiniteSet(M \ {i})
    BY <1>1, <2>3, FS_RemoveElement DEF M
  <2>5. Cardinality(L) <= Cardinality(M \ {i}) /\ IsFiniteSet(L)
    BY <2>2, <2>4, FS_Subset
  <2>6. Cardinality(M) \in Nat /\ Cardinality(L) \in Nat
    BY <2>3, <2>5, FS_CardinalityType
  <2>7. Len(Required) - Cardinality(L) > Len(Required) - Cardinality(M)
    BY <2>1, <2>4, <2>5, <2>6
  <2> QED  BY <2>7 DEF Score, L, M
<1> QED  BY <1>2, <1>3, <1>4 DEF Valid, Complete

(* No step of the cart heals a conflict by adding to it, and whoever       *)
(* follows the recommendation comes nearer to a complete cart, for any     *)
(* catalog that recommends for each category one of its components.        *)
THEOREM CartStepsHelp == CartSpec => CartStepsAreSound
<1>1. AddingNeverHeals /\ RecommendedPickHelps
  BY NothingHeals, PickHelps
<1> QED  BY <1>1, PTL DEF CartStepsAreSound
=============================================================================
