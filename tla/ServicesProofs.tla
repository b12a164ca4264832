--------------------------- MODULE ServicesProofs ---------------------------
(***************************************************************************)
(* Services beside the installs: image builds push what their tags name,   *)
(* registries keep what they were told, there is always an OWNER, and      *)
(* compose files have what they mount; for any number of builds, entries,  *)
(* users, requests and starts.                                             *)
(***************************************************************************)
EXTENDS ImageBuilds, Registries, Accounts, Sidecars, TLAPS

-----------------------------------------------------------------------------
(* Image builds.  An image that is pushed holds the version its tag names, *)
(* as long as no two builds were under way together and no version with a  *)
(* suffix is in the Dockerfile.                                            *)

Types ==
  /\ status \in [Builds -> {"unused", "validating", "building", "read", "pushing", "done",
                            "error", "lost"}]
  /\ tag \in [Builds -> Versions \cup {None}] /\ version \in [Builds -> Versions \cup {None}]
  /\ dockerfile \in Versions /\ context \in [Builds -> Versions \cup {None}]
  /\ local \in [Versions -> Versions \cup {None}]
  /\ registry \in [Versions -> Versions \cup {None}]

(* What the lone build under way has behind it: its tag names the version  *)
(* in the Dockerfile, then the version docker has read, then the content   *)
(* of the local image.                                                     *)
AloneIsTrue ==
  \A b \in Under :
    /\ \A c \in Under : c = b
    /\ status[b] # "validating" => tag[b] \in Versions
    /\ status[b] = "building" => dockerfile = tag[b]
    /\ status[b] = "read" => context[b] = tag[b]
    /\ status[b] = "pushing" => local[tag[b]] = tag[b]

ImageInv == Types /\ (met = {} /\ dockerfile \notin Suffixed => AloneIsTrue /\ PushedIsItsTag)

(* There are no image builds at first. *)
LEMMA ImageInvInit == Init => ImageInv
<1> SUFFICES ASSUME Init
             PROVE  ImageInv
  OBVIOUS
<1>1. Types
  BY ImageBuildsAssumption DEF Init, Types, None
<1>2. AloneIsTrue
  BY DEF Init, AloneIsTrue, Under
<1>3. PushedIsItsTag
  BY DEF Init, PushedIsItsTag
<1> QED BY <1>1, <1>2, <1>3 DEF ImageInv

(* A build that starts is the only one, or has met another.                *)
LEMMA StartKeeps ==
  ASSUME ImageInv, NEW b \in Builds, NEW v \in Versions, Start(b, v)
  PROVE  ImageInv'
<1> USE DEF ImageInv
<1>1. Types'
  BY DEF Start, Becomes, Types
<1>2. ASSUME met' = {}, dockerfile' \notin Suffixed
      PROVE  AloneIsTrue' /\ PushedIsItsTag'
  <2>1. met = {} /\ Under = {}
    BY <1>2 DEF Start
  <2>2. Under' = {b}
    BY <2>1 DEF Start, Becomes, Types, Under
  <2>3. status'[b] = "validating"
    BY DEF Start, Becomes, Types
  <2>4. AloneIsTrue'
    BY <2>2, <2>3 DEF AloneIsTrue
  <2>5. PushedIsItsTag'
    BY <2>1 DEF Start, PushedIsItsTag
  <2> QED BY <2>4, <2>5
<1> QED BY <1>1, <1>2

(* Tag and Dockerfile are written in one step.                             *)
LEMMA PatchKeeps ==
  ASSUME ImageInv, NEW b \in Builds, NEW v \in Versions, Patch(b, v)
  PROVE  ImageInv'
<1> USE DEF ImageInv
<1>1. Types'
  BY DEF Patch, Rewritten, Becomes, Tag, Types
<1>2. ASSUME met' = {}, dockerfile' \notin Suffixed
      PROVE  AloneIsTrue' /\ PushedIsItsTag'
  <2>1. met = {} /\ dockerfile \notin Suffixed /\ b \in Under /\ \A c \in Under : c = b
    BY <1>2 DEF Patch, Rewritten, Under, AloneIsTrue
  <2>2. Under' = {b}
    BY <2>1 DEF Patch, Becomes, Types, Under
  <2>3. status'[b] = "building" /\ tag'[b] = v /\ dockerfile' = v
    BY <2>1 DEF Patch, Rewritten, Becomes, Tag, Types
  <2>4. AloneIsTrue'
    BY <2>2, <2>3 DEF AloneIsTrue
  <2>5. PushedIsItsTag'
    BY <2>1 DEF Patch, PushedIsItsTag
  <2> QED BY <2>4, <2>5
<1> QED BY <1>1, <1>2

(* A build that ends leaves none under way.                                *)
LEMMA EndKeeps ==
  ASSUME ImageInv, UNCHANGED <<tag, context, local, registry, met>>,
         NEW b \in Under, NEW s \in {"error", "done"}, status' = [status EXCEPT ![b] = s],
         version' \in [Builds -> Versions \cup {None}], dockerfile' \in Versions,
         dockerfile' \notin Suffixed => dockerfile \notin Suffixed
  PROVE  ImageInv'
<1> USE DEF ImageInv
<1>1. Types'
  BY DEF Types, Under
<1>2. ASSUME met' = {}, dockerfile' \notin Suffixed
      PROVE  AloneIsTrue' /\ PushedIsItsTag'
  <2>1. met = {} /\ \A c \in Under : c = b
    BY <1>2 DEF AloneIsTrue
  <2>2. Under' = {}
    BY <2>1 DEF Types, Under
  <2>3. PushedIsItsTag'
    BY <2>1 DEF PushedIsItsTag
  <2> QED BY <2>2, <2>3 DEF AloneIsTrue
<1> QED BY <1>1, <1>2

(* Nothing wrote the Dockerfile since it was patched.                      *)
LEMMA ReadKeeps ==
  ASSUME ImageInv, NEW b \in Builds, Read(b)
  PROVE  ImageInv'
<1> USE DEF ImageInv
<1>1. Types'
  BY DEF Read, Becomes, Types
<1>2. ASSUME met' = {}, dockerfile' \notin Suffixed
      PROVE  AloneIsTrue' /\ PushedIsItsTag'
  <2>1. /\ met = {} /\ b \in Under /\ \A c \in Under : c = b
        /\ dockerfile = tag[b] /\ tag[b] \in Versions
    BY <1>2 DEF Read, Under, AloneIsTrue
  <2>2. Under' = {b}
    BY <2>1 DEF Read, Becomes, Types, Under
  <2>3. status'[b] = "read" /\ context'[b] = tag[b] /\ tag' = tag
    BY <2>1 DEF Read, Becomes, Types
  <2>4. AloneIsTrue'
    BY <2>1, <2>2, <2>3 DEF AloneIsTrue
  <2>5. PushedIsItsTag'
    BY <2>1 DEF Read, PushedIsItsTag
  <2> QED BY <2>4, <2>5
<1> QED BY <1>1, <1>2

(* docker build reads the Dockerfile and names what it built. *)
LEMMA BuiltKeeps ==
  ASSUME ImageInv, NEW b \in Builds, Built(b)
  PROVE  ImageInv'
<1> USE DEF ImageInv
<1>1. Types'
  BY DEF Built, Becomes, Types
<1>2. ASSUME met' = {}, dockerfile' \notin Suffixed
      PROVE  AloneIsTrue' /\ PushedIsItsTag'
  <2>1. /\ met = {} /\ b \in Under /\ \A c \in Under : c = b
        /\ context[b] = tag[b] /\ tag[b] \in Versions
    BY <1>2 DEF Built, Under, AloneIsTrue
  <2>2. Under' = {b}
    BY <2>1 DEF Built, Becomes, Types, Under
  <2>3. status'[b] = "pushing" /\ local'[tag[b]] = tag[b] /\ tag' = tag
    BY <2>1 DEF Built, Becomes, Types
  <2>4. AloneIsTrue'
    BY <2>1, <2>2, <2>3 DEF AloneIsTrue
  <2>5. PushedIsItsTag'
    BY <2>1 DEF Built, PushedIsItsTag
  <2> QED BY <2>4, <2>5
<1> QED BY <1>1, <1>2

(* docker push sends what the local name is of then. *)
LEMMA PushedKeeps ==
  ASSUME ImageInv, NEW b \in Builds, Pushed(b)
  PROVE  ImageInv'
<1> USE DEF ImageInv
<1>1. Types'
  BY DEF Pushed, Becomes, Types
<1>2. ASSUME met' = {}, dockerfile' \notin Suffixed
      PROVE  AloneIsTrue' /\ PushedIsItsTag'
  <2>1. /\ met = {} /\ b \in Under /\ \A c \in Under : c = b
        /\ local[tag[b]] = tag[b] /\ tag[b] \in Versions
    BY <1>2 DEF Pushed, Under, AloneIsTrue
  <2>2. Under' = {}
    BY <2>1 DEF Pushed, Becomes, Types, Under
  <2>3. PushedIsItsTag'
    BY <2>1 DEF Pushed, PushedIsItsTag, Types
  <2> QED BY <2>2, <2>3 DEF AloneIsTrue
<1> QED BY <1>1, <1>2

(* A restart forgets the jobs. *)
LEMMA RestartKeeps ==
  ASSUME ImageInv, Restart
  PROVE  ImageInv'
<1> USE DEF ImageInv
<1>1. Types'
  BY DEF Restart, Types
<1>2. Under' = {}
  BY DEF Restart, Types, Under
<1> QED BY <1>1, <1>2 DEF Restart, AloneIsTrue, PushedIsItsTag

(* Every step keeps the invariant. *)
LEMMA ImageInvNext == ImageInv /\ [Next]_imageVars => ImageInv'
<1> SUFFICES ASSUME ImageInv, [Next]_imageVars
             PROVE  ImageInv'
  OBVIOUS
<1>1. ASSUME NEW b \in Builds, NEW v \in Versions, Start(b, v)
      PROVE  ImageInv'
  BY <1>1, StartKeeps
<1>2. ASSUME NEW b \in Builds, NEW v \in Versions, Patch(b, v)
      PROVE  ImageInv'
  BY <1>2, PatchKeeps
<1>3. ASSUME NEW b \in Builds, NEW v \in Versions, PatchFails(b, v)
      PROVE  ImageInv'
  <2>1. b \in Under /\ status' = [status EXCEPT ![b] = "error"]
    BY <1>3 DEF PatchFails, Becomes, Under
  <2>2. /\ version' \in [Builds -> Versions \cup {None}] /\ dockerfile' \in Versions
        /\ dockerfile' \notin Suffixed => dockerfile \notin Suffixed
    BY <1>3 DEF PatchFails, Rewritten, ImageInv, Types
  <2> QED BY <1>3, <2>1, <2>2, EndKeeps DEF PatchFails
<1>4. ASSUME NEW b \in Builds, Read(b)
      PROVE  ImageInv'
  BY <1>4, ReadKeeps
<1>5. ASSUME NEW b \in Builds, Built(b)
      PROVE  ImageInv'
  BY <1>5, BuiltKeeps
<1>6. ASSUME NEW b \in Builds, Pushed(b)
      PROVE  ImageInv'
  BY <1>6, PushedKeeps
<1>7. ASSUME NEW b \in Builds, Fails(b)
      PROVE  ImageInv'
  <2>1. b \in Under /\ status' = [status EXCEPT ![b] = "error"]
    BY <1>7 DEF Fails, Becomes
  <2>2. version' \in [Builds -> Versions \cup {None}] /\ dockerfile' \in Versions
    BY <1>7 DEF Fails, ImageInv, Types
  <2> QED BY <1>7, <2>1, <2>2, EndKeeps DEF Fails
<1>8. CASE Restart
  BY <1>8, RestartKeeps
<1>9. CASE UNCHANGED imageVars
  BY <1>9 DEF imageVars, ImageInv, Types, AloneIsTrue, PushedIsItsTag, Under
<1> QED BY <1>1, <1>2, <1>3, <1>4, <1>5, <1>6, <1>7, <1>8, <1>9 DEF Next

(* Builds of an image that never meet (run_pipeline takes no lock, so this *)
(* is up to its users) push images that are what their tags say, whatever  *)
(* version they fell back to, wherever they failed, and whatever an        *)
(* earlier build left in the Dockerfile but a version with a suffix.       *)
THEOREM LoneBuildsPushTheirTag == Spec => []PushedIsItsTag
<1>1. ImageInv /\ met = {} /\ dockerfile \notin Suffixed => PushedIsItsTag
  BY DEF ImageInv
<1>2. ImageInv => PushedIsItsTag
  BY <1>1 DEF PushedIsItsTag
<1> QED BY <1>2, ImageInvInit, ImageInvNext, PTL DEF Spec

-----------------------------------------------------------------------------
(* Accounts *)

(* A user that is added has a new id, and an email nobody has.             *)
LEMMA CreateUserKeeps ==
  ASSUME AccountsInv, NEW email \in Emails, NEW role \in Roles, CreateUser(email, role),
         command' \in [Commands -> {"unused", "counted", "done"}]
  PROVE  AccountsInv'
<1>1. CASE \E u \in users : u.email = email
  BY <1>1 DEF CreateUser, AccountsInv, AccountsTypeOK, RowsAreOneUser, AnOwnerStays
<1>2. CASE \A u \in users : u.email # email
  <2> DEFINE new == [id |-> created + 1, email |-> email, role |-> role]
  <2>1. created < MaxUsers /\ created' = created + 1 /\ users' = users \cup {new}
    BY <1>2 DEF CreateUser
  <2>2. created' \in 1..MaxUsers
    BY <2>1, AccountsAssumption DEF AccountsInv, AccountsTypeOK, AccountsAssumption
  <2>3. new \in Users
    BY <2>1, <2>2 DEF Users
  <2>3a. owned' = (owned \/ role = "OWNER")
    BY <1>2 DEF CreateUser
  <2>3b. owned' \in BOOLEAN
    BY <2>3a
  <2>3c. users' \subseteq Users /\ created' \in 0..MaxUsers
    BY <2>1, <2>2, <2>3 DEF AccountsInv, AccountsTypeOK
  <2>4. AccountsTypeOK'
    BY <2>3b, <2>3c DEF AccountsTypeOK
  <2>5. ASSUME NEW u \in users
        PROVE  u.id <= created' /\ u.id # created'
    BY <2>1 DEF AccountsInv, AccountsTypeOK, RowsAreOneUser, Users
  <2>5a. new.id = created' /\ new.email = email /\ new.role = role
    BY <2>1
  <2> HIDE DEF new
  <2>6. ASSUME NEW u \in users', NEW v \in users', u.id = v.id \/ u.email = v.email
        PROVE  u = v
    <3>1. CASE u \in users /\ v \in users
      BY <2>6, <3>1 DEF AccountsInv, RowsAreOneUser
    <3>3. CASE u = new /\ v \in users
      BY <1>2, <2>5, <2>5a, <2>6, <3>3
    <3>4. CASE u \in users /\ v = new
      BY <1>2, <2>5, <2>5a, <2>6, <3>4
    <3> QED BY <2>1, <3>1, <3>3, <3>4
  <2>6a. \A u \in users' : u.id <= created'
    BY <2>1, <2>2, <2>5, <2>5a
  <2>6b. RowsAreOneUser'
    BY <2>6, <2>6a DEF RowsAreOneUser
  <2>7. AnOwnerStays'
    <3>1. CASE owned
      BY <2>1, <3>1 DEF AccountsInv, AnOwnerStays
    <3>2. CASE role = "OWNER"
      BY <2>1, <2>5a, <3>2 DEF AnOwnerStays
    <3> QED BY <2>3a, <3>1, <3>2 DEF AnOwnerStays
  <2> QED BY <2>4, <2>6b, <2>7 DEF AccountsInv
<1> QED BY <1>1, <1>2

(* Bootstraps, creations and deletions, in any order. *)
LEMMA AccountsInvNext == AccountsInv /\ [AccountsNext]_accountVars => AccountsInv'
<1> SUFFICES ASSUME AccountsInv, [AccountsNext]_accountVars
             PROVE  AccountsInv'
  OBVIOUS
<1> USE DEF AccountsInv
<1>1. ASSUME NEW c \in Commands, CountUsers(c)
      PROVE  AccountsInv'
  BY <1>1 DEF CountUsers, AccountsTypeOK, RowsAreOneUser, AnOwnerStays
<1>2. ASSUME NEW c \in Commands, NEW email \in Emails, NEW role \in Roles,
             Bootstrap(c, email, role)
      PROVE  AccountsInv'
  <2>1. command' \in [Commands -> {"unused", "counted", "done"}]
    BY <1>2 DEF Bootstrap, AccountsTypeOK
  <2> QED BY <1>2, <2>1, CreateUserKeeps DEF Bootstrap
<1>3. ASSUME NEW u \in users, NEW email \in Emails, NEW role \in Roles,
             PostUser(u, email, role)
      PROVE  AccountsInv'
  <2>1. command' \in [Commands -> {"unused", "counted", "done"}]
    BY <1>3 DEF PostUser, AccountsTypeOK
  <2> QED BY <1>3, <2>1, CreateUserKeeps DEF PostUser
<1>4. ASSUME NEW u \in users, NEW target \in users, DeleteUser(u, target)
      PROVE  AccountsInv'
  <2>1. AnOwnerStays'
    <3>1. u \in users' /\ u.role = "OWNER"
      BY <1>4 DEF DeleteUser, MayDelete
    <3> QED BY <3>1 DEF AnOwnerStays
  <2>2. AccountsTypeOK' /\ RowsAreOneUser'
    BY <1>4 DEF DeleteUser, AccountsTypeOK, RowsAreOneUser
  <2> QED BY <2>1, <2>2
<1>5. CASE UNCHANGED accountVars
  BY <1>5 DEF accountVars, AccountsTypeOK, RowsAreOneUser, AnOwnerStays
<1> QED BY <1>1, <1>2, <1>3, <1>4, <1>5 DEF AccountsNext

(* The users keep the invariant: a row is one user, and an OWNER stays     *)
(* (bootstrap_rbac, delete_user).                                          *)
THEOREM AccountsInvHolds == AccountsSpec => []AccountsInv
<1>1. ASSUME AccountsInit
      PROVE  AccountsInv
  <2>1. 0 \in 0..MaxUsers
    BY AccountsAssumption
  <2>2. AccountsTypeOK
    BY <1>1, <2>1 DEF AccountsInit, AccountsTypeOK
  <2> QED BY <1>1, <2>2 DEF AccountsInit, AccountsInv, RowsAreOneUser, AnOwnerStays
<1> QED BY <1>1, AccountsInvNext, PTL DEF AccountsSpec

(* Once there is an OWNER there always is one, however many users there    *)
(* are and in whatever order they create and delete each other: the one    *)
(* who deletes stays (delete_rbac_user).                                   *)
THEOREM AnOwnerRemains == AccountsSpec => []AnOwnerStays
<1>1. AccountsInv => AnOwnerStays
  BY DEF AccountsInv
<1> QED BY <1>1, AccountsInvHolds, PTL

-----------------------------------------------------------------------------
(* Registries *)

(* What a step leaves of the key: once there is one it stays the one, and  *)
(* a first one may be generated.                                           *)
KeyStep ==
  /\ {fernet', env', keyFile'} \subseteq Keys /\ keyLost' \in BOOLEAN
  /\ keyLost' => keyFile' # NoKey
  /\ ~keyLost' => /\ ~keyLost /\ fernet' \in {NoKey, TheKey'}
                  /\ TheKey # NoKey => TheKey' = TheKey

(* What a step of a running server leaves of the entries.                  *)
StoreStep ==
  /\ up /\ UNCHANGED <<followed, up, starts>>
  /\ used \subseteq used' /\ used' \subseteq Ids /\ held' \subseteq used' /\ gone' \subseteq used'
  /\ DOMAIN testing' \subseteq Ids
  /\ DOMAIN store' \subseteq used'
  /\ \A i \in DOMAIN store' :
       store'[i] \in Entry /\ (~keyLost' => store'[i].key \in {NoKey, TheKey'})
  /\ file' \in {file, store'}
  /\ dirty' \in BOOLEAN /\ timer' \in BOOLEAN /\ gaveUp' \in BOOLEAN
  /\ ~dirty' /\ ~gaveUp' => file' = store'
  /\ gone' \cap (DOMAIN store' \cup DOMAIN file') = {}

(* A step of a server that is up, which has shown what it does to the two. *)
LEMMA StepKeeps ==
  ASSUME RegistryInv, KeyStep, StoreStep
  PROVE  RegistryInv'
<1> USE DEF RegistryInv
<1>1. DOMAIN file' \subseteq used' /\ \A i \in DOMAIN file' : file'[i] \in Entry
  <2>1. CASE file' = file
    BY <2>1 DEF StoreStep, RegistryTypeOK
  <2>2. CASE file' = store'
    BY <2>2 DEF StoreStep
  <2> QED BY <2>1, <2>2 DEF StoreStep
<1>2. RegistryTypeOK'
  BY <1>1 DEF StoreStep, KeyStep, RegistryTypeOK
<1>3. StoppedIsEmpty'
  BY DEF StoreStep, StoppedIsEmpty
<1>4. ThereIsOneKey'
  <2>1. ASSUME ~keyLost', NEW i \in DOMAIN file
        PROVE  file[i].key \in {NoKey, TheKey'}
    BY <2>1 DEF KeyStep, ThereIsOneKey
  <2>2. ASSUME ~keyLost', NEW i \in DOMAIN file'
        PROVE  file'[i].key \in {NoKey, TheKey'}
    <3>1. CASE file' = file
      BY <2>1, <2>2, <3>1
    <3>2. CASE file' = store'
      BY <2>2, <3>2 DEF StoreStep
    <3> QED BY <3>1, <3>2 DEF StoreStep
  <2> QED BY <2>2 DEF KeyStep, StoreStep, ThereIsOneKey
<1>5. EntriesAreKept'
  <2>1. DeletedStaysDeleted' /\ CleanIsSaved'
    BY DEF StoreStep, DeletedStaysDeleted, CleanIsSaved
  <2>2. SecretsStayReadable'
    BY <1>4 DEF ThereIsOneKey, SecretsStayReadable
  <2> QED BY <2>1, <2>2 DEF EntriesAreKept
<1> QED BY <1>2, <1>3, <1>4, <1>5

(* _get_fernet, whatever holds the key.                                    *)
LEMMA GetFernetKeepsTheKey ==
  ASSUME RegistryInv, NEW readable \in BOOLEAN, GetFernet(readable)
  PROVE  KeyStep /\ (~keyLost' => fernet' = TheKey')
<1> USE DEF RegistryInv
<1>0. /\ fernet \in Keys /\ env \in Keys /\ keyFile \in Keys /\ keyLost \in BOOLEAN
      /\ starts + 1 \in Keys /\ starts + 1 # NoKey
  BY RegistryAssumption DEF RegistryTypeOK, Keys, NoKey
<1>1. CASE fernet # NoKey
  BY <1>0, <1>1 DEF GetFernet, keyVars, KeyStep, ThereIsOneKey, TheKey
<1>2. CASE fernet = NoKey /\ env # Unset
  BY <1>0, <1>2 DEF GetFernet, KeyStep, ThereIsOneKey, TheKey
<1>3. CASE fernet = NoKey /\ env = Unset /\ keyFile # NoKey /\ readable
  BY <1>0, <1>3 DEF GetFernet, KeyStep, ThereIsOneKey, TheKey
<1>4. CASE fernet = NoKey /\ env = Unset /\ ~(keyFile # NoKey /\ readable)
  <2>1. /\ readable = (keyFile = NoKey) /\ fernet' = starts + 1 /\ keyFile' = starts + 1
        /\ keyLost' = ~readable /\ env' = env
    BY <1>4 DEF GetFernet, GeneratedKeyFile
  <2>2. TheKey = keyFile /\ TheKey' = starts + 1
    BY <1>4, <2>1 DEF TheKey
  <2>3. CASE keyFile = NoKey
    BY <1>0, <2>1, <2>2, <2>3 DEF KeyStep, ThereIsOneKey
  <2>4. CASE keyFile # NoKey
    BY <1>0, <2>1, <2>2, <2>4 DEF KeyStep
  <2> QED BY <2>3, <2>4
<1> QED BY <1>1, <1>2, <1>3, <1>4

(* What touches no key leaves one key. *)
LEMMA UntouchedKeyStep ==
  ASSUME RegistryInv, UNCHANGED keyVars
  PROVE  KeyStep
BY DEF RegistryInv, RegistryTypeOK, ThereIsOneKey, keyVars, KeyStep, TheKey

(* What a key step leaves of the entries that stay.                        *)
LEMMA EntryStays ==
  ASSUME RegistryInv, KeyStep, NEW i \in DOMAIN store
  PROVE  store[i] \in Entry /\ (~keyLost' => store[i].key \in {NoKey, TheKey'})
BY DEF RegistryInv, RegistryTypeOK, ThereIsOneKey, KeyStep

(* A forced write leaves the file equal to the memory, or is given up. *)
LEMMA PersistNowWrites ==
  ASSUME RegistryInv, NEW outcome \in Outcomes, PersistNow(outcome)
  PROVE  /\ file' \in {file, store'}
         /\ dirty' \in BOOLEAN /\ timer' \in BOOLEAN /\ gaveUp' \in BOOLEAN
         /\ ~dirty' /\ ~gaveUp' => file' = store'
         /\ outcome = "written" => file' = store'
<1>1. gaveUp' \in BOOLEAN
  BY DEF PersistNow, Write
<1> QED BY <1>1 DEF PersistNow, Write, Outcomes

(* A new entry has an id that was never given out.                         *)
LEMMA FreshKeeps ==
  ASSUME RegistryInv, KeyStep, NEW i \in Ids, NEW outcome \in Outcomes, NEW key \in Keys,
         Fresh(i, outcome), store' = With(i, [key |-> key, tested |-> FALSE]),
         ~keyLost' => key \in {NoKey, TheKey'},
         PersistNow(outcome), UNCHANGED <<followed, up, starts, testing, gone>>
  PROVE  RegistryInv'
<1>1. used' = used \cup {i} /\ i \in Ids /\ i \notin used /\ up /\ held' \subseteq used'
  BY DEF Fresh, RegistryInv, RegistryTypeOK
<1>2. DOMAIN store' = DOMAIN store \cup {i} /\ DOMAIN store' \subseteq used'
  BY <1>1 DEF With, RegistryInv, RegistryTypeOK
<1>3. ASSUME NEW j \in DOMAIN store'
      PROVE  store'[j] \in Entry /\ (~keyLost' => store'[j].key \in {NoKey, TheKey'})
  <2>1. CASE j = i
    BY <2>1 DEF With, Entry
  <2>2. CASE j # i
    <3>1. j \in DOMAIN store /\ store'[j] = store[j]
      BY <1>2, <1>3, <2>2 DEF With
    <3> QED BY <3>1, EntryStays
  <2> QED BY <2>1, <2>2
<1>4. gone' \cap (DOMAIN store' \cup DOMAIN file') = {}
  <2>1. gone' = gone /\ i \notin gone
    BY <1>1 DEF RegistryInv, RegistryTypeOK
  <2>2. gone \cap (DOMAIN store \cup DOMAIN file) = {}
    BY DEF RegistryInv, EntriesAreKept, DeletedStaysDeleted
  <2>3. file' \in {file, store'}
    BY PersistNowWrites
  <2> QED BY <1>2, <2>1, <2>2, <2>3
<1>5. StoreStep
  BY <1>1, <1>2, <1>3, <1>4, PersistNowWrites DEF StoreStep, RegistryInv, RegistryTypeOK
<1> QED BY <1>5, StepKeeps

(* delete: the entry is gone from memory and, with the forced write, from  *)
(* the file.                                                               *)
LEMMA RemoveKeeps ==
  ASSUME RegistryInv, NEW i \in Ids, NEW outcome \in Outcomes, Remove(i, outcome)
  PROVE  RegistryInv'
<1>1. KeyStep
  BY UntouchedKeyStep DEF Remove
<1>2. PersistNow(outcome)
  BY DEF Remove
<1>3. DOMAIN store' = DOMAIN store \ {i} /\ \A j \in DOMAIN store' : store'[j] = store[j]
  BY DEF Remove, Without
<1>4. \A j \in DOMAIN store' :
        store'[j] \in Entry /\ (~keyLost' => store'[j].key \in {NoKey, TheKey'})
  BY <1>1, <1>3, EntryStays
<1>5. gone' \cap (DOMAIN store' \cup DOMAIN file') = {}
  <2>1. gone \cap (DOMAIN store \cup DOMAIN file) = {}
    BY DEF RegistryInv, EntriesAreKept, DeletedStaysDeleted
  <2>2. CASE outcome = "written"
    BY <1>2, <1>3, <2>1, <2>2, PersistNowWrites DEF Remove
  <2>3. CASE outcome # "written"
    <3>1. gone' = gone /\ file' \in {file, store'}
      BY <1>2, <2>3, PersistNowWrites DEF Remove
    <3> QED BY <1>3, <2>1, <3>1
  <2> QED BY <2>2, <2>3
<1>6. /\ up /\ i \in used /\ used' = used /\ gone' \subseteq used' /\ held' \subseteq used'
      /\ UNCHANGED <<followed, up, starts, testing>>
  BY DEF Remove, RegistryInv, RegistryTypeOK
<1>7. StoreStep
  BY <1>2, <1>3, <1>4, <1>5, <1>6, PersistNowWrites DEF StoreStep, RegistryInv, RegistryTypeOK
<1> QED BY <1>1, <1>7, StepKeeps

(* The steps that leave ids alone: a timer, a test that begins or ends.    *)
LEMMA QuietKeeps ==
  ASSUME RegistryInv, KeyStep, up, UNCHANGED <<followed, up, starts, used, held, gone>>,
         DOMAIN testing' \subseteq Ids,
         DOMAIN store' = DOMAIN store,
         \A j \in DOMAIN store : store'[j] \in Entry /\ store'[j].key = store[j].key,
         file' \in {file, store'},
         dirty' \in BOOLEAN, timer' \in BOOLEAN, gaveUp' \in BOOLEAN,
         ~dirty' /\ ~gaveUp' => file' = store'
  PROVE  RegistryInv'
<1>1. \A j \in DOMAIN store' :
        store'[j] \in Entry /\ (~keyLost' => store'[j].key \in {NoKey, TheKey'})
  BY EntryStays
<1>2. gone' \cap (DOMAIN store' \cup DOMAIN file') = {}
  BY DEF RegistryInv, EntriesAreKept, DeletedStaysDeleted
<1>3. StoreStep
  BY <1>1, <1>2 DEF StoreStep, RegistryInv, RegistryTypeOK
<1> QED BY <1>3, StepKeeps

(* A test that ends writes its result into an entry that is still there. *)
LEMMA MarkTestedKeeps ==
  ASSUME RegistryInv, NEW i \in Ids, up,
         \/ MarkTested(i)
         \/ UNCHANGED <<store, file, dirty, timer, gaveUp>>,
         DOMAIN testing' \subseteq Ids,
         UNCHANGED <<followed, up, starts, keyVars, used, held, gone>>
  PROVE  RegistryInv'
<1>1. KeyStep
  BY UntouchedKeyStep
<1>2. CASE UNCHANGED <<store, file, dirty, timer, gaveUp>>
  <2>1. \A j \in DOMAIN store : store'[j] \in Entry /\ store'[j].key = store[j].key
    BY <1>2 DEF RegistryInv, RegistryTypeOK
  <2>2. ~dirty' /\ ~gaveUp' => file' = store'
    BY <1>2 DEF RegistryInv, EntriesAreKept, CleanIsSaved
  <2>3. dirty' \in BOOLEAN /\ timer' \in BOOLEAN /\ gaveUp' \in BOOLEAN
    BY <1>2 DEF RegistryInv, RegistryTypeOK
  <2> QED BY <1>1, <1>2, <2>1, <2>2, <2>3, QuietKeeps
<1>3. CASE i \in DOMAIN store /\ MarkTested(i)
  <2>1. /\ store' = [store EXCEPT ![i].tested = TRUE]
        /\ dirty' = TRUE /\ timer' = TRUE /\ UNCHANGED <<file, gaveUp>>
    BY <1>3 DEF MarkTested, Debounce
  <2>2. DOMAIN store' = DOMAIN store
    BY <2>1
  <2>3. ASSUME NEW j \in DOMAIN store
        PROVE  store'[j] \in Entry /\ store'[j].key = store[j].key
    <3>1. store[j] \in Entry
      BY DEF RegistryInv, RegistryTypeOK
    <3> QED BY <2>1, <3>1 DEF Entry
  <2>4. gaveUp' \in BOOLEAN
    BY <2>1 DEF RegistryInv, RegistryTypeOK
  <2> QED BY <1>1, <2>1, <2>2, <2>3, <2>4, QuietKeeps
<1> QED BY <1>2, <1>3 DEF MarkTested

(* A test that begins only remembers what it read, and may fetch the key.  *)
LEMMA BeginTestKeeps ==
  ASSUME RegistryInv, NEW i \in Ids, NEW readable \in BOOLEAN, BeginTest(i, readable)
  PROVE  RegistryInv'
<1>1. KeyStep
  BY GetFernetKeepsTheKey, UntouchedKeyStep DEF BeginTest
<1>2. DOMAIN testing' \subseteq Ids
  BY DEF BeginTest, RegistryInv, RegistryTypeOK
<1>3. \A j \in DOMAIN store : store'[j] \in Entry /\ store'[j].key = store[j].key
  BY DEF BeginTest, RegistryInv, RegistryTypeOK
<1>4. up /\ (~dirty' /\ ~gaveUp' => file' = store')
  BY DEF BeginTest, RegistryInv, EntriesAreKept, CleanIsSaved
<1>5. dirty' \in BOOLEAN /\ timer' \in BOOLEAN /\ gaveUp' \in BOOLEAN
  BY DEF BeginTest, RegistryInv, RegistryTypeOK
<1> QED BY <1>1, <1>2, <1>3, <1>4, <1>5, QuietKeeps DEF BeginTest

(* The timer writes. *)
LEMMA FlushKeeps ==
  ASSUME RegistryInv, NEW outcome \in Outcomes, Flush(outcome)
  PROVE  RegistryInv'
<1>1. KeyStep
  BY UntouchedKeyStep DEF Flush
<1>2. \A j \in DOMAIN store : store'[j] \in Entry /\ store'[j].key = store[j].key
  BY DEF Flush, RegistryInv, RegistryTypeOK
<1>3. dirty' \in BOOLEAN /\ gaveUp' \in BOOLEAN /\ timer' \in BOOLEAN
  BY DEF Flush, Write, RegistryInv, RegistryTypeOK
<1>4. up /\ file' \in {file, store'} /\ (~dirty' /\ ~gaveUp' => file' = store')
  BY DEF Flush, Write, Outcomes, RegistryInv, EntriesAreKept, CleanIsSaved
<1>5. DOMAIN testing' \subseteq Ids
  BY DEF Flush, RegistryInv, RegistryTypeOK
<1> QED BY <1>1, <1>2, <1>3, <1>4, <1>5, QuietKeeps DEF Flush

(* The server ends, in order or not. *)
LEMMA ExitKeeps ==
  ASSUME RegistryInv, Exit
  PROVE  RegistryInv'
<1> USE DEF RegistryInv
<1>1. DOMAIN Nothing = {} /\ NoKey \in Keys
  BY RegistryAssumption DEF Nothing, NoKey, Keys
<1>2. RegistryTypeOK'
  BY <1>1 DEF Exit, RegistryTypeOK
<1>3. StoppedIsEmpty'
  BY DEF Exit, StoppedIsEmpty
<1>4. ThereIsOneKey'
  BY <1>1 DEF Exit, ThereIsOneKey, TheKey
<1>5. EntriesAreKept'
  BY <1>1 DEF Exit, EntriesAreKept, DeletedStaysDeleted, CleanIsSaved, SecretsStayReadable
<1> QED BY <1>2, <1>3, <1>4, <1>5

(* The key stays the same when it is moved to the environment.             *)
LEMMA AdoptKeyKeeps ==
  ASSUME RegistryInv, AdoptKey
  PROVE  RegistryInv'
<1> USE DEF RegistryInv
<1>1. TheKey' = TheKey
  BY DEF AdoptKey, TheKey, NoKey, Unset
<1>2. RegistryTypeOK'
  BY DEF AdoptKey, RegistryTypeOK
<1>3. StoppedIsEmpty' /\ ThereIsOneKey'
  BY <1>1 DEF AdoptKey, StoppedIsEmpty, ThereIsOneKey
<1>4. EntriesAreKept'
  BY DEF AdoptKey, EntriesAreKept, DeletedStaysDeleted, CleanIsSaved, SecretsStayReadable
<1> QED BY <1>2, <1>3, <1>4

(* The next one loads the file. *)
LEMMA LoadKeeps ==
  ASSUME RegistryInv, Load
  PROVE  RegistryInv'
<1> USE DEF RegistryInv
<1>1. RegistryTypeOK'
  BY RegistryAssumption DEF Load, RegistryTypeOK, keyVars
<1>2. StoppedIsEmpty'
  BY DEF Load, StoppedIsEmpty
<1>3. ThereIsOneKey'
  BY DEF Load, ThereIsOneKey, TheKey, keyVars
<1>4. EntriesAreKept'
  BY DEF Load, keyVars, EntriesAreKept, DeletedStaysDeleted, CleanIsSaved,
         SecretsStayReadable, StoppedIsEmpty
<1> QED BY <1>1, <1>2, <1>3, <1>4

(* Every step keeps the invariant. *)
LEMMA RegistryInvNext == RegistryInv /\ [RegistryNext]_registryVars => RegistryInv'
<1> SUFFICES ASSUME RegistryInv, [RegistryNext]_registryVars
             PROVE  RegistryInv'
  OBVIOUS
<1>0. NoKey \in Keys
  BY RegistryAssumption DEF NoKey, Keys
<1>1. ASSUME NEW i \in Ids, NEW outcome \in Outcomes, NEW r \in BOOLEAN,
             CreateSource(i, outcome, r)
      PROVE  RegistryInv'
  <2>1. KeyStep /\ (~keyLost' => fernet' = TheKey')
    BY <1>1, GetFernetKeepsTheKey DEF CreateSource
  <2>2. fernet' \in Keys
    BY <2>1 DEF KeyStep
  <2> QED BY <1>1, <2>1, <2>2, FreshKeeps DEF CreateSource
<1>2. ASSUME NEW i \in Ids, NEW outcome \in Outcomes, NEW r \in BOOLEAN,
             NEW secret \in BOOLEAN, CreateDestination(i, outcome, r, secret)
      PROVE  RegistryInv'
  <2>1. CASE secret
    <3>1. KeyStep /\ (~keyLost' => fernet' = TheKey')
      BY <1>2, <2>1, GetFernetKeepsTheKey DEF CreateDestination
    <3>2. fernet' \in Keys
      BY <3>1 DEF KeyStep
    <3> QED BY <1>2, <2>1, <3>1, <3>2, FreshKeeps DEF CreateDestination
  <2>2. CASE ~secret
    <3>1. KeyStep
      BY <1>2, <2>2, UntouchedKeyStep DEF CreateDestination
    <3> QED BY <1>0, <1>2, <2>2, <3>1, FreshKeeps DEF CreateDestination
  <2> QED BY <2>1, <2>2
<1>3. ASSUME NEW i \in Ids, NEW outcome \in Outcomes,
             CreateCheck(i, outcome) \/ RunCheck(i, outcome)
      PROVE  RegistryInv'
  <2>1. KeyStep
    BY <1>3, UntouchedKeyStep DEF CreateCheck, RunCheck
  <2> QED BY <1>0, <1>3, <2>1, FreshKeeps DEF CreateCheck, RunCheck
<1>4. ASSUME NEW i \in Ids, NEW outcome \in Outcomes,
             \/ DeleteSource(i, outcome) \/ DeleteDestination(i, outcome)
             \/ DeleteCheck(i, outcome)
      PROVE  RegistryInv'
  BY <1>4, RemoveKeeps DEF DeleteSource, DeleteDestination, DeleteCheck
<1>5. ASSUME NEW i \in Ids, NEW b \in BOOLEAN, BeginTest(i, b)
      PROVE  RegistryInv'
  BY <1>5, BeginTestKeeps
<1>6. ASSUME NEW i \in Ids, NEW b \in BOOLEAN, TestSource(i, b) \/ TestDestination(i, b)
      PROVE  RegistryInv'
  <2>1. up
    BY <1>6 DEF TestSource, TestDestination, RegistryInv, StoppedIsEmpty, Nothing
  <2>2. DOMAIN testing' \subseteq Ids
    BY <1>6 DEF TestSource, TestDestination, RegistryInv, RegistryTypeOK
  <2>3. MarkTested(i) \/ UNCHANGED <<store, file, dirty, timer, gaveUp>>
    BY <1>6 DEF TestSource, TestDestination
  <2>4. UNCHANGED <<followed, up, starts, keyVars, used, held, gone>>
    BY <1>6 DEF TestSource, TestDestination
  <2> QED BY <2>1, <2>2, <2>3, <2>4, MarkTestedKeeps
<1>7. ASSUME NEW outcome \in Outcomes, Flush(outcome)
      PROVE  RegistryInv'
  BY <1>7, FlushKeeps
<1>8. CASE Exit
  BY <1>8, ExitKeeps
<1>9. CASE AdoptKey
  BY <1>9, AdoptKeyKeeps
<1>10. CASE Load
  BY <1>10, LoadKeeps
<1>11. CASE UNCHANGED registryVars
  BY <1>11 DEF registryVars, keyVars, RegistryInv, RegistryTypeOK, StoppedIsEmpty,
               ThereIsOneKey, TheKey, EntriesAreKept, DeletedStaysDeleted, CleanIsSaved,
               SecretsStayReadable
<1> QED BY <1>1, <1>2, <1>3, <1>4, <1>5, <1>6, <1>7, <1>8, <1>9, <1>10, <1>11
        DEF RegistryNext

(* A registry keeps its invariant through every step (data_sources.py,     *)
(* destinations.py, data_quality.py).                                      *)
THEOREM RegistryInvHolds == RegistrySpec => []RegistryInv
<1>1. ASSUME RegistryInit
      PROVE  RegistryInv
  <2>1. /\ 1 \in 1..MaxStarts /\ NoKey \in Keys /\ EnvKeys \subseteq Keys
        /\ DOMAIN Nothing = {}
    BY RegistryAssumption DEF Nothing, NoKey, Keys, Unset, GivenKey
  <2>2. RegistryTypeOK
    BY <1>1, <2>1 DEF RegistryInit, RegistryTypeOK
  <2>3. StoppedIsEmpty /\ ThereIsOneKey /\ EntriesAreKept
    BY <1>1, <2>1 DEF RegistryInit, StoppedIsEmpty, ThereIsOneKey, EntriesAreKept,
                      DeletedStaysDeleted, CleanIsSaved, SecretsStayReadable
  <2> QED BY <2>2, <2>3 DEF RegistryInv
<1> QED BY <1>1, RegistryInvNext, PTL DEF RegistrySpec

(* Whatever the timer, failing writes, tests under way and restarts do:    *)
(* what was deleted stays deleted, a registry that takes itself for saved  *)
(* is saved, and the process can read every secret (_write_now_locked,     *)
(* _mark_tested_locked, _get_fernet).                                      *)
THEOREM RegistriesKeepTheirEntries == RegistrySpec => []EntriesAreKept
<1>1. RegistryInv => EntriesAreKept
  BY DEF RegistryInv
<1> QED BY <1>1, RegistryInvHolds, PTL

(* The variables of a registry stay in their domains.                      *)
THEOREM RegistriesStayTyped == RegistrySpec => []RegistryTypeOK
<1>1. RegistryInv => RegistryTypeOK
  BY DEF RegistryInv
<1> QED BY <1>1, RegistryInvHolds, PTL

(* What the running server answers from, and while it is down what the     *)
(* next one will answer from.                                              *)
Answered == Shown(IF up THEN store ELSE file)

(* A route or a test that replaces one entry, and leaves the file alone or *)
(* writes all of the memory into it.                                       *)
LEMMA OneEntryIsOneKey ==
  ASSUME up, up', NEW i \in Ids,
         \A j \in Ids : j # i => (j \in DOMAIN store' <=> j \in DOMAIN store),
         \A j \in Ids : j # i /\ j \in DOMAIN store => store'[j] = store[j],
         file' \in {file, store'}
  PROVE  RegistryMap!Next
<1>1. Answered = Shown(store) /\ Answered' = Shown(store)'
  BY DEF Answered, Shown
<1>2. ASSUME NEW j \in Ids, j # i
      PROVE  Answered'[j] = Answered[j]
  <2>1. Answered[j] = IF j \in DOMAIN store THEN {store[j]} ELSE {}
    BY <1>1 DEF Shown
  <2>2. Answered'[j] = IF j \in DOMAIN store' THEN {store'[j]} ELSE {}
    BY <1>1 DEF Shown
  <2>3. (j \in DOMAIN store' <=> j \in DOMAIN store) /\ (j \in DOMAIN store => store'[j] = store[j])
    BY <1>2
  <2>4. CASE j \in DOMAIN store
    BY <2>1, <2>2, <2>3, <2>4
  <2>5. CASE j \notin DOMAIN store
    BY <2>1, <2>2, <2>3, <2>5
  <2> QED BY <2>4, <2>5
<1>3. RegistryMap!OneEntryChanges
  BY <1>2 DEF RegistryMap!OneEntryChanges, Answered
<1>4. CASE file' = file
  <2>1. Shown(file)' = Shown(file)
    BY <1>4 DEF Shown
  <2> QED BY <1>3, <2>1 DEF RegistryMap!Next, RegistryMap!Mutate
<1>5. CASE file' = store'
  <2>1. Shown(file)' = Answered'
    BY <1>1, <1>5 DEF Shown
  <2> QED BY <1>3, <2>1 DEF RegistryMap!Next, RegistryMap!MutateThrough, Answered
<1> QED BY <1>4, <1>5

(* What changes neither the memory of the server nor its file.             *)
LEMMA UntouchedRegistry ==
  ASSUME UNCHANGED <<up, file>>, up => store' = store
  PROVE  UNCHANGED RegistryMap!wbVars
<1>1. Shown(file)' = Shown(file)
  BY DEF Shown
<1>2. Answered' = Answered
  BY DEF Answered, Shown
<1> QED BY <1>1, <1>2 DEF RegistryMap!wbVars, Answered

(* A forced write replaces the whole file, or leaves it.                   *)
LEMMA PersistNowIsWhole ==
  ASSUME NEW outcome \in Outcomes, PersistNow(outcome)
  PROVE  file' \in {file, store'}
BY DEF PersistNow, Write, Outcomes

(* Every step of a registry is a step of the write-back map, or none.      *)
LEMMA RegistryStepsAreMapSteps ==
  RegistryInv /\ [RegistryNext]_registryVars => [RegistryMap!Next]_(RegistryMap!wbVars)
<1> SUFFICES ASSUME RegistryInv, [RegistryNext]_registryVars
             PROVE  RegistryMap!Next \/ UNCHANGED RegistryMap!wbVars
  OBVIOUS
<1>1. ASSUME NEW i \in Ids, NEW outcome \in Outcomes, NEW entry, up, up',
             store' = With(i, entry) \/ store' = Without(i), PersistNow(outcome)
      PROVE  RegistryMap!Next
  <2>1. /\ \A j \in Ids : j # i => (j \in DOMAIN store' <=> j \in DOMAIN store)
        /\ \A j \in Ids : j # i /\ j \in DOMAIN store => store'[j] = store[j]
    BY <1>1 DEF With, Without
  <2> QED BY <1>1, <2>1, PersistNowIsWhole, OneEntryIsOneKey
<1>2. ASSUME NEW i \in Ids, NEW outcome \in Outcomes, NEW r \in BOOLEAN,
             NEW secret \in BOOLEAN,
             \/ CreateSource(i, outcome, r) \/ CreateDestination(i, outcome, r, secret)
             \/ CreateCheck(i, outcome) \/ RunCheck(i, outcome)
      PROVE  RegistryMap!Next
  <2>1. up /\ up' /\ PersistNow(outcome)
    BY <1>2 DEF CreateSource, CreateDestination, CreateCheck, RunCheck, Fresh
  <2>2. \E entry : store' = With(i, entry)
    BY <1>2 DEF CreateSource, CreateDestination, CreateCheck, RunCheck
  <2> QED BY <1>1, <2>1, <2>2
<1>3. ASSUME NEW i \in Ids, NEW outcome \in Outcomes,
             \/ DeleteSource(i, outcome) \/ DeleteDestination(i, outcome)
             \/ DeleteCheck(i, outcome)
      PROVE  RegistryMap!Next
  BY <1>1, <1>3 DEF DeleteSource, DeleteDestination, DeleteCheck, Remove
<1>4. ASSUME NEW i \in Ids, NEW b \in BOOLEAN, BeginTest(i, b)
      PROVE  UNCHANGED RegistryMap!wbVars
  BY <1>4, UntouchedRegistry DEF BeginTest
<1>5. ASSUME NEW i \in Ids, NEW b \in BOOLEAN, TestSource(i, b) \/ TestDestination(i, b)
      PROVE  RegistryMap!Next \/ UNCHANGED RegistryMap!wbVars
  <2>1. up /\ up' = up
    BY <1>5 DEF TestSource, TestDestination, RegistryInv, StoppedIsEmpty, Nothing
  <2>2. MarkTested(i) \/ UNCHANGED <<store, file>>
    BY <1>5 DEF TestSource, TestDestination
  <2>3. CASE i \in DOMAIN store /\ store' = [store EXCEPT ![i].tested = TRUE] /\ file' = file
    <3>1. /\ \A j \in Ids : j # i => (j \in DOMAIN store' <=> j \in DOMAIN store)
          /\ \A j \in Ids : j # i /\ j \in DOMAIN store => store'[j] = store[j]
      BY <2>3
    <3> QED BY <2>1, <2>3, <3>1, OneEntryIsOneKey
  <2>4. CASE UNCHANGED <<store, file>>
    BY <2>1, <2>4, UntouchedRegistry
  <2> QED BY <2>2, <2>3, <2>4 DEF MarkTested, Debounce
<1>6. ASSUME NEW outcome \in Outcomes, Flush(outcome)
      PROVE  RegistryMap!Next \/ UNCHANGED RegistryMap!wbVars
  <2>1. up /\ up' = up /\ store' = store /\ file' \in {file, store'}
    BY <1>6 DEF Flush, Write, Outcomes
  <2>2. CASE file' = file
    BY <2>1, <2>2, UntouchedRegistry
  <2>3. CASE file' = store
    <3>1. Answered' = Answered /\ Shown(file)' = Answered
      BY <2>1, <2>3 DEF Answered, Shown
    <3> QED BY <3>1 DEF RegistryMap!Next, RegistryMap!Snapshot, Answered
  <2> QED BY <2>1, <2>2, <2>3
<1>7. CASE Exit
  <2>1. ~up' /\ file' = file
    BY <1>7 DEF Exit
  <2>2. Answered' = Shown(file) /\ Shown(file)' = Shown(file)
    BY <2>1 DEF Answered, Shown
  <2> QED BY <2>2 DEF RegistryMap!Next, RegistryMap!LoseVolatile, AsLoaded, Answered
<1>8. CASE AdoptKey
  BY <1>8, UntouchedRegistry DEF AdoptKey
<1>9. CASE Load
  <2>1. ~up /\ up' /\ store' = file /\ file' = file
    BY <1>9 DEF Load
  <2>2. Answered' = Answered /\ Shown(file)' = Shown(file)
    BY <2>1 DEF Answered, Shown
  <2> QED BY <2>2 DEF RegistryMap!wbVars, Answered
<1>10. CASE UNCHANGED registryVars
  BY <1>10, UntouchedRegistry DEF registryVars
<1> QED BY <1>2, <1>3, <1>4, <1>5, <1>6, <1>7, <1>8, <1>9, <1>10 DEF RegistryNext

(* A registry implements the map with whole-file snapshots: a write that   *)
(* is given up or raises, a timer, a test that ends late, a stop or a      *)
(* start never leaves a file that mixes two moments, and a start takes     *)
(* from it every entry (_write_ds_now_locked, _load_data_sources, and     *)
(* their likes in destinations.py and data_quality.py).                    *)
THEOREM RegistriesAreWriteBackMaps == RegistrySpec => RegistriesWriteBack
<1>1. RegistryInit => RegistryMap!Init
  <2> SUFFICES ASSUME RegistryInit
               PROVE  RegistryMap!Init
    OBVIOUS
  <2>1. store = Nothing /\ file = Nothing /\ DOMAIN Nothing = {}
    BY DEF RegistryInit, Nothing
  <2>2. Shown(store) = [i \in Ids |-> {}] /\ Shown(file) = [i \in Ids |-> {}]
    BY <2>1 DEF Shown
  <2> QED BY <2>2 DEF RegistryMap!Init, Shown
<1> QED
  BY <1>1, RegistryInvHolds, RegistryStepsAreMapSteps, PTL
  DEF RegistrySpec, RegistriesWriteBack, RegistryMap!Spec

-----------------------------------------------------------------------------
(* Sidecars *)

(* Every family writes and removes sequences of its files.                 *)
LEMMA WritesAreFiles ==
  ASSUME NEW f \in Overlays \cup Fragments \cup OnRequest, NEW g \in BOOLEAN
  PROVE  Writes(f, g) \in Seq(SidecarFiles) /\ Writes(f, g) # <<>>
<1> DEFINE Good(s) == s \in Seq(SidecarFiles) /\ s # <<>>
<1>1. /\ Good(WriteAirflow) /\ Good(WriteDagster) /\ Good(WriteSuperset)
      /\ Good(WriteObservability)
  BY DEF WriteAirflow, WriteDagster, WriteSuperset, WriteObservability, SidecarFiles
<1>2. /\ Good(WriteCaddy) /\ Good(EnableJdbc) /\ Good(WriteHmsFragment)
      /\ Good(WriteNessieFragment) /\ Good(GenerateSelfSigned)
  BY DEF WriteCaddy, EnableJdbc, WriteHmsFragment, WriteNessieFragment, GenerateSelfSigned,
         SidecarFiles
<1>3. Good(EnableMonitoring(g))
  <2>1. CASE g = TRUE
    <3>1. EnableMonitoring(g) = <<"prometheus", "provisioning", "dashboard", "compose", "password">>
      BY <2>1, Zenon DEF EnableMonitoring
    <3> QED  BY <3>1 DEF SidecarFiles
  <2>2. CASE g = FALSE
    <3>1. EnableMonitoring(g) = <<"prometheus", "compose">>
      BY <2>2, Zenon DEF EnableMonitoring
    <3> QED  BY <3>1 DEF SidecarFiles
  <2> QED  BY <2>1, <2>2
<1>4. Good(Writes(f, g))
  <2> HIDE DEF Good
  <2> QED  BY <1>1, <1>2, <1>3, Zenon DEF Writes, Overlays, Fragments, OnRequest
<1> QED  BY <1>4

(* A removal begins with the compose file, that of a certificate ends so.  *)
LEMMA RemovalsAreFiles ==
  ASSUME NEW f \in OnRequest
  PROVE  /\ RemovalOrder(f) \in Seq(SidecarFiles) /\ RemovalOrder(f) # <<>>
         /\ f # "certificate" => RemovalOrder(f)[1] = "compose"
         /\ f = "certificate" => RemovalOrder(f)[Len(RemovalOrder(f))] = "compose"
<1> DEFINE Good(s) == /\ s \in Seq(SidecarFiles) /\ s # <<>>
                      /\ f # "certificate" => s[1] = "compose"
                      /\ f = "certificate" => s[Len(s)] = "compose"
<1>1. ASSUME f = "monitoring" PROVE Good(RemovalOrder(f))
  <2>1. RemovalOrder(f) = <<"compose", "prometheus", "provisioning", "dashboard", "password">>
    BY <1>1, Zenon DEF RemovalOrder
  <2>2. Good(<<"compose", "prometheus", "provisioning", "dashboard", "password">>)
    BY <1>1 DEF SidecarFiles
  <2> HIDE DEF Good
  <2> QED  BY <2>1, <2>2, Zenon
<1>2. ASSUME f = "caddy" PROVE Good(RemovalOrder(f))
  <2>1. RemovalOrder(f) = <<"compose", "Caddyfile">>
    BY <1>2, Zenon DEF RemovalOrder
  <2>2. Good(<<"compose", "Caddyfile">>)
    BY <1>2 DEF SidecarFiles
  <2> HIDE DEF Good
  <2> QED  BY <2>1, <2>2, Zenon
<1>3. ASSUME f = "jdbc" PROVE Good(RemovalOrder(f))
  <2>1. RemovalOrder(f) = <<"compose">>
    BY <1>3, Zenon DEF RemovalOrder
  <2>2. Good(<<"compose">>)
    BY <1>3 DEF SidecarFiles
  <2> HIDE DEF Good
  <2> QED  BY <2>1, <2>2, Zenon
<1>4. ASSUME f = "certificate" PROVE Good(RemovalOrder(f))
  <2>1. RemovalOrder(f) = <<"crt", "key", "compose">>
    BY <1>4, Zenon DEF RemovalOrder
  <2>2. Good(<<"crt", "key", "compose">>)
    BY <1>4 DEF SidecarFiles
  <2> HIDE DEF Good
  <2> QED  BY <2>1, <2>2, Zenon
<1>5. Good(RemovalOrder(f))
  <2> HIDE DEF Good
  <2> QED  BY <1>1, <1>2, <1>3, <1>4 DEF OnRequest
<1> QED  BY <1>5

(* A sequence has n, and the compose file no earlier.                      *)
Precedes(s, n) == \E p \in 1..Len(s) : s[p] = n /\ \A q \in 1..p : s[q] # "compose"

(* In the order of a family, what the compose file mounts precedes it; the *)
(* fragments are the exception.                                            *)
LEMMA MountsPrecede ==
  ASSUME NEW f \in Overlays \cup OnRequest, NEW g \in BOOLEAN
  PROVE  \A n \in Mounts(f, g) : Precedes(Writes(f, g), n)
<1> DEFINE Before(s, M) == \A n \in M : Precedes(s, n)
<1>1. Before(WriteAirflow, AirflowMounts)
  BY DEF WriteAirflow, AirflowMounts, Precedes
<1>2. Before(WriteDagster, DagsterMounts)
  BY DEF WriteDagster, DagsterMounts, Precedes
<1>3. Before(WriteSuperset, SupersetMounts)
  BY DEF WriteSuperset, SupersetMounts, Precedes
<1>4. Before(WriteObservability, ObservabilityMounts)
  BY DEF WriteObservability, ObservabilityMounts, Precedes
<1>5. Before(WriteCaddy, CaddyMounts)
  BY DEF WriteCaddy, CaddyMounts, Precedes
<1>6. Before(EnableJdbc, JdbcMounts)
  BY DEF EnableJdbc, JdbcMounts, Precedes
<1>7. Before(GenerateSelfSigned, CertificateFiles)
  BY DEF GenerateSelfSigned, CertificateFiles, Precedes
<1>8. Before(EnableMonitoring(g), MonitoringMounts(g))
  <2>1. CASE g = TRUE
    <3>1. /\ EnableMonitoring(g)
               = <<"prometheus", "provisioning", "dashboard", "compose", "password">>
          /\ MonitoringMounts(g) = {"prometheus"} \cup {"provisioning", "dashboard"}
      BY <2>1, Zenon DEF EnableMonitoring, MonitoringMounts
    <3> QED  BY <3>1 DEF Precedes
  <2>2. CASE g = FALSE
    <3>1. /\ EnableMonitoring(g) = <<"prometheus", "compose">>
          /\ MonitoringMounts(g) = {"prometheus"} \cup {}
      BY <2>2, Zenon DEF EnableMonitoring, MonitoringMounts
    <3> QED  BY <3>1 DEF Precedes
  <2> QED  BY <2>1, <2>2
<1>9. Before(Writes(f, g), Mounts(f, g))
  <2> HIDE DEF Before
  <2> QED
    BY <1>1, <1>2, <1>3, <1>4, <1>5, <1>6, <1>7, <1>8, Zenon
    DEF Writes, Mounts, Overlays, OnRequest
<1> QED  BY <1>9

(* What is mounted is among the files.                                     *)
LEMMA MountsAreFiles ==
  ASSUME NEW f \in Overlays \cup Fragments \cup OnRequest, NEW g \in BOOLEAN
  PROVE  Mounts(f, g) \subseteq SidecarFiles
<1> DEFINE Good(M) == M \subseteq SidecarFiles
<1>1. /\ Good(AirflowMounts) /\ Good(DagsterMounts) /\ Good(SupersetMounts)
      /\ Good(ObservabilityMounts) /\ Good(CaddyMounts) /\ Good(JdbcMounts)
      /\ Good(HmsFragmentMounts) /\ Good(NessieFragmentMounts) /\ Good(CertificateFiles)
      /\ Good(MonitoringMounts(g))
  BY DEF AirflowMounts, DagsterMounts, SupersetMounts, ObservabilityMounts, CaddyMounts,
         JdbcMounts, HmsFragmentMounts, NessieFragmentMounts, CertificateFiles, MonitoringMounts,
         SidecarFiles
<1>2. Good(Mounts(f, g))
  <2> HIDE DEF Good
  <2> QED  BY <1>1, Zenon DEF Mounts, Overlays, Fragments, OnRequest
<1> QED  BY <1>2

(* What a health check of an overlay asks for is what the overlay mounts.  *)
LEMMA HealthIsOfTheMounts ==
  ASSUME NEW g \in BOOLEAN
  PROVE  /\ Mounts("airflow", g) = {"dag"}
         /\ Mounts("dagster", g) = {"definitions", "workspace", "dagster"}
         /\ Mounts("superset", g) = {"config"}
         /\ Mounts("observability", g) = {"prometheus", "datasources", "loki"}
BY Zenon DEF Mounts, AirflowMounts, DagsterMounts, SupersetMounts, ObservabilityMounts


(* The family followed is one of those above.                              *)
LEMMA FamilyIsKnown == SidecarsInv => family \in Overlays \cup Fragments \cup OnRequest
BY SidecarAssumption DEF SidecarAssumption, SidecarsInv, SidecarsTypeOK

(* Nothing is enabled on a fresh disk.                                     *)
LEMMA SidecarsStart == SidecarsInit => SidecarsInv
<1> SUFFICES ASSUME SidecarsInit PROVE SidecarsInv
  OBVIOUS
<1>1. SidecarsTypeOK
  <2>1. left \in Seq(SidecarFiles) /\ (left = <<>>) = (doing = "idle")
    BY DEF SidecarsInit
  <2>2. requests \in 0..MaxRequests /\ crashes \in 0..MaxCrashes
    <3>1. MaxRequests \in Nat /\ MaxCrashes \in Nat
      BY SidecarAssumption DEF SidecarAssumption
    <3> QED  BY <3>1 DEF SidecarsInit
  <2>4. grafana \in BOOLEAN /\ spoilt \in BOOLEAN
    BY DEF SidecarsInit
  <2>3. family \in Families /\ disk \in [SidecarFiles -> {"absent", "torn", "whole"}]
        /\ mounted \subseteq SidecarFiles /\ doing \in {"idle", "write", "remove"}
    BY DEF SidecarsInit
  <2> QED  BY <2>1, <2>2, <2>3, <2>4 DEF SidecarsTypeOK
<1>2. ~IsEnabled
  BY DEF SidecarsInit, IsEnabled, SidecarFiles
<1>3. SidecarsAreWhole
  BY <1>2 DEF SidecarsAreWhole, EnabledHasItsFiles, OverlaysAreHealthy, ValidateAirflow,
              ValidateDagster, ValidateSuperset, ValidateObservability
<1>4. FilesComeFirst /\ ComposeGoesFirst
  BY DEF SidecarsInit, FilesComeFirst, ComposeGoesFirst
<1>5. ComposeIsItsFamilys
  BY <1>2 DEF SidecarsInit, ComposeIsItsFamilys
<1> QED  BY <1>1, <1>3, <1>4, <1>5 DEF SidecarsInv

(* The health checks ask less than that mounts exist, except that of       *)
(* Superset: and what os.replace puts there is whole.                      *)
LEMMA HealthFollows ==
  ASSUME SidecarsTypeOK, EnabledHasItsFiles, ComposeIsItsFamilys
  PROVE  OverlaysAreHealthy
<1>1. ASSUME IsEnabled, family \in Overlays
      PROVE  \E g \in BOOLEAN : \A n \in Mounts(family, g) : disk[n] # "absent"
  <2>1. family \notin Fragments /\ family \notin OnRequest /\ family # "certificate"
    BY <1>1 DEF Overlays, Fragments, OnRequest
  <2>2. \A n \in mounted : disk[n] # "absent"
    BY <1>1, <2>1 DEF EnabledHasItsFiles, ComposeIsItsFamilys
  <2> QED  BY <1>1, <2>2 DEF ComposeIsItsFamilys
<1>2. family = "airflow" => ValidateAirflow
  BY <1>1, HealthIsOfTheMounts DEF Overlays, ValidateAirflow
<1>3. family = "dagster" => ValidateDagster
  BY <1>1, HealthIsOfTheMounts DEF Overlays, ValidateDagster
<1>4. family = "superset" => ValidateSuperset
  <2>1. SUFFICES ASSUME family = "superset", IsEnabled PROVE disk["config"] = "whole"
    BY DEF ValidateSuperset
  <2>2. disk["config"] # "absent"
    BY <1>1, <2>1, HealthIsOfTheMounts DEF Overlays
  <2>3. disk["config"] # "torn"
    BY <2>1 DEF ComposeIsItsFamilys, InPlace, SidecarFiles
  <2> QED  BY <2>2, <2>3 DEF SidecarsTypeOK, SidecarFiles
<1>5. family = "observability" => ValidateObservability
  BY <1>1, HealthIsOfTheMounts DEF Overlays, ValidateObservability
<1> QED  BY <1>2, <1>3, <1>4, <1>5 DEF OverlaysAreHealthy

(* What the actions say of the one file they take.                         *)
LEMMA TailFacts ==
  ASSUME SidecarsTypeOK, doing # "idle", GoesOn
  PROVE  /\ left # <<>> /\ Head(left) = left[1] /\ Head(left) \in SidecarFiles /\ Len(left) \in Nat \ {0}
         /\ left' \in Seq(SidecarFiles) /\ Len(left') = Len(left) - 1
         /\ \A p \in 1..Len(left') : left'[p] = left[p + 1]
         /\ (left' = <<>>) = (doing' = "idle")
         /\ doing' \in {"idle", doing}
         /\ doing' = "idle" <=> Len(left) = 1
<1>1. left # <<>> /\ left \in Seq(SidecarFiles)
  BY DEF SidecarsTypeOK
<1>2. Head(left) = left[1] /\ Head(left) \in SidecarFiles /\ Len(left) \in Nat \ {0}
  BY <1>1
<1>3. left' \in Seq(SidecarFiles) /\ Len(left') = Len(left) - 1
      /\ \A p \in 1..Len(left') : left'[p] = left[p + 1]
  BY <1>1 DEF GoesOn
<1>4. left' = <<>> <=> Len(left) = 1
  BY <1>2, <1>3
<1>5. doing' \in {"idle", doing} /\ (doing' = "idle" <=> Len(left) = 1)
  BY DEF GoesOn
<1> QED  BY <1>1, <1>2, <1>3, <1>4, <1>5

(* A family that is begun has all its files still to be written.           *)
LEMMA BeginWriteKeeps ==
  ASSUME SidecarsInv, NEW g \in BOOLEAN, BeginWrite(g)
  PROVE  SidecarsInv'
<1>1. family' = family /\ disk' = disk /\ mounted' = mounted /\ spoilt' = spoilt
      /\ doing' = "write" /\ grafana' = g /\ left' = Writes(family, g)
  BY DEF BeginWrite
<1>2. SidecarsTypeOK'
  BY WritesAreFiles, FamilyIsKnown, SidecarAssumption
  DEF SidecarAssumption, SidecarsInv, SidecarsTypeOK, BeginWrite
<1>3. EnabledHasItsFiles'
  <2>1. SUFFICES ASSUME IsEnabled, family \notin Fragments, ~spoilt
                 PROVE  \A n \in mounted : disk[n] # "absent"
    BY <1>1 DEF EnabledHasItsFiles, IsEnabled
  <2>2. doing # "remove"
    BY DEF BeginWrite
  <2> QED  BY <2>1, <2>2 DEF SidecarsInv, SidecarsAreWhole, EnabledHasItsFiles
<1>4. FilesComeFirst'
  <2>1. ASSUME family \notin Fragments
        PROVE  \A n \in Mounts(family, g) : Precedes(Writes(family, g), n)
    BY <2>1, FamilyIsKnown, MountsPrecede
  <2> QED  BY <1>1, <2>1 DEF FilesComeFirst, Precedes
<1>5. ComposeGoesFirst'
  BY <1>1 DEF ComposeGoesFirst
<1>6. ComposeIsItsFamilys'
  BY <1>1 DEF SidecarsInv, ComposeIsItsFamilys, IsEnabled
<1>7. OverlaysAreHealthy'
  BY <1>2, <1>3, <1>6, HealthFollows, PTL
<1> QED  BY <1>2, <1>3, <1>4, <1>5, <1>6, <1>7 DEF SidecarsInv, SidecarsAreWhole

(* Once it is the turn of the compose file, nothing it mounts is left to   *)
(* be written before it, so all of it is there.                            *)
LEMMA WriteFileKeeps ==
  ASSUME SidecarsInv, WriteFile
  PROVE  SidecarsInv'
<1> DEFINE taken == Head(left)
<1>1. /\ SidecarsTypeOK /\ doing = "write" /\ GoesOn
      /\ disk' = [disk EXCEPT ![taken] = "whole"]
      /\ family' = family /\ grafana' = grafana /\ spoilt' = spoilt
      /\ requests' = requests /\ crashes' = crashes
  BY DEF SidecarsInv, WriteFile
<1>2. /\ taken = left[1] /\ taken \in SidecarFiles /\ Len(left) \in Nat \ {0}
      /\ Len(left') = Len(left) - 1 /\ \A p \in 1..Len(left') : left'[p] = left[p + 1]
      /\ doing' \in {"idle", "write"}
  BY <1>1, TailFacts
<1>3. \A n \in SidecarFiles : disk'[n] = IF n = taken THEN "whole" ELSE disk[n]
  BY <1>1, <1>2 DEF SidecarsTypeOK
<1>4. grafana \in BOOLEAN /\ family \in Overlays \cup Fragments \cup OnRequest
  BY <1>1, FamilyIsKnown DEF SidecarsTypeOK
<1>5. mounted' = IF taken = "compose" THEN Mounts(family, grafana) ELSE mounted
  BY DEF WriteFile
<1>6. SidecarsTypeOK'
  <2>1. mounted' \subseteq SidecarFiles
    BY <1>1, <1>4, <1>5, MountsAreFiles DEF SidecarsTypeOK
  <2>2. left' \in Seq(SidecarFiles) /\ (left' = <<>>) = (doing' = "idle")
    BY <1>1, TailFacts
  <2>3. disk' \in [SidecarFiles -> {"absent", "torn", "whole"}]
    BY <1>1, <1>2 DEF SidecarsTypeOK
  <2>4. doing' \in {"idle", "write", "remove"}
    BY <1>2
  <2> QED  BY <1>1, <2>1, <2>2, <2>3, <2>4 DEF SidecarsTypeOK
<1> HIDE DEF taken
<1>7. FilesComeFirst'
  <2>1. SUFFICES ASSUME doing' = "write", family \notin Fragments, NEW n \in Mounts(family, grafana)
                 PROVE  \/ disk'[n] # "absent"
                        \/ \E p \in 1..Len(left') : left'[p] = n
                                                    /\ \A q \in 1..p : left'[q] # "compose"
    BY <1>1 DEF FilesComeFirst
  <2>2. n \in SidecarFiles
    BY <1>4, MountsAreFiles
  <2>3. CASE disk[n] # "absent" \/ n = taken
    BY <1>3, <2>2, <2>3
  <2>4. CASE disk[n] = "absent" /\ n # taken
    <3>1. PICK p \in 1..Len(left) : left[p] = n /\ \A q \in 1..p : left[q] # "compose"
      BY <1>1, <2>1, <2>4 DEF SidecarsInv, FilesComeFirst
    <3>2. p # 1
      BY <1>2, <2>4, <3>1
    <3>3. p - 1 \in 1..Len(left') /\ p \in Nat
      BY <1>2, <3>1, <3>2
    <3>4. left'[p - 1] = n
      BY <1>2, <3>1, <3>3
    <3>5. \A q \in 1..(p - 1) : left'[q] # "compose"
      <4> TAKE q \in 1..(p - 1)
      <4>1. q \in 1..Len(left') /\ q + 1 \in 1..p
        BY <1>2, <3>3
      <4> QED  BY <1>2, <3>1, <4>1
    <3> QED  BY <3>3, <3>4, <3>5
  <2> QED  BY <2>3, <2>4
<1>8. EnabledHasItsFiles'
  <2>1. SUFFICES ASSUME IsEnabled', family \notin Fragments, ~spoilt
                 PROVE  \A n \in mounted' : disk'[n] # "absent"
    BY <1>1 DEF EnabledHasItsFiles
  <2>2. CASE taken = "compose"
    <3>1. SUFFICES ASSUME NEW n \in Mounts(family, grafana) PROVE disk'[n] # "absent"
      BY <1>5, <2>2
    <3>2. n \in SidecarFiles
      BY <1>4, MountsAreFiles
    <3>3. disk[n] # "absent"
      <4>1. ASSUME NEW p \in 1..Len(left), \A q \in 1..p : left[q] # "compose" PROVE FALSE
        <5>1. 1 \in 1..p
          BY <1>2
        <5> QED  BY <1>2, <2>2, <4>1, <5>1
      <4> QED  BY <1>1, <2>1, <4>1 DEF SidecarsInv, FilesComeFirst
    <3> QED  BY <1>3, <3>2, <3>3
  <2>3. CASE taken # "compose"
    <3>1. IsEnabled
      BY <1>3, <2>1, <2>3 DEF IsEnabled, SidecarFiles
    <3>2. \A n \in mounted : disk[n] # "absent"
      BY <1>1, <2>1, <3>1 DEF SidecarsInv, SidecarsAreWhole, EnabledHasItsFiles
    <3> QED  BY <1>1, <1>3, <1>5, <2>3, <3>2 DEF SidecarsTypeOK
  <2> QED  BY <2>2, <2>3
<1>9. ComposeGoesFirst'
  BY <1>2 DEF ComposeGoesFirst
<1>10. ComposeIsItsFamilys'
  <2>1. IsEnabled' => \E g \in BOOLEAN : mounted' = Mounts(family, g)
    <3>1. CASE taken = "compose"
      BY <1>4, <1>5, <3>1
    <3>2. CASE taken # "compose"
      BY <1>3, <1>5, <3>2 DEF SidecarsInv, ComposeIsItsFamilys, IsEnabled, SidecarFiles
    <3> QED  BY <3>1, <3>2
  <2>2. family \notin InPlace => \A n \in SidecarFiles : disk'[n] # "torn"
    BY <1>3 DEF SidecarsInv, ComposeIsItsFamilys
  <2>3. doing' = "remove" \/ spoilt => family \in OnRequest
    BY <1>2 DEF SidecarsInv, ComposeIsItsFamilys
  <2> QED  BY <1>1, <2>1, <2>2, <2>3 DEF ComposeIsItsFamilys
<1>11. OverlaysAreHealthy'
  BY <1>6, <1>8, <1>10, HealthFollows, PTL
<1> QED  BY <1>6, <1>7, <1>8, <1>9, <1>10, <1>11 DEF SidecarsInv, SidecarsAreWhole

(* A file that is torn is still a file; a torn compose file is not usable. *)
LEMMA OpenInPlaceKeeps ==
  ASSUME SidecarsInv, OpenInPlace
  PROVE  SidecarsInv'
<1> DEFINE taken == Head(left)
<1>1. /\ SidecarsTypeOK /\ doing = "write" /\ family \in InPlace
      /\ disk' = [disk EXCEPT ![taken] = "torn"]
      /\ mounted' = IF taken = "compose" THEN {} ELSE mounted
      /\ UNCHANGED <<family, doing, left, grafana, requests, crashes, spoilt>>
  BY DEF SidecarsInv, OpenInPlace
<1>2. taken = left[1] /\ taken \in SidecarFiles /\ Len(left) \in Nat \ {0}
  BY <1>1 DEF SidecarsTypeOK
<1>3. \A n \in SidecarFiles : disk'[n] = IF n = taken THEN "torn" ELSE disk[n]
  BY <1>1, <1>2 DEF SidecarsTypeOK
<1> HIDE DEF taken
<1>4. SidecarsTypeOK'
  <2>1. disk' \in [SidecarFiles -> {"absent", "torn", "whole"}]
    BY <1>1, <1>2 DEF SidecarsTypeOK
  <2> QED  BY <1>1, <2>1 DEF SidecarsTypeOK
<1>5. IsEnabled' => IsEnabled /\ taken # "compose"
  BY <1>3 DEF IsEnabled, SidecarFiles
<1>6. EnabledHasItsFiles'
  <2>1. SUFFICES ASSUME IsEnabled', family \notin Fragments, ~spoilt
                 PROVE  \A n \in mounted' : disk'[n] # "absent"
    BY <1>1 DEF EnabledHasItsFiles
  <2>2. mounted' = mounted /\ \A n \in mounted : disk[n] # "absent"
    BY <1>1, <1>5, <2>1 DEF SidecarsInv, SidecarsAreWhole, EnabledHasItsFiles
  <2> QED  BY <1>1, <1>3, <2>2 DEF SidecarsTypeOK
<1>7. FilesComeFirst'
  <2>1. \A n \in SidecarFiles : disk[n] # "absent" => disk'[n] # "absent"
    BY <1>3
  <2>2. family \in Overlays \cup Fragments \cup OnRequest /\ grafana \in BOOLEAN
    BY <1>1, FamilyIsKnown DEF SidecarsTypeOK
  <2>3. Mounts(family, grafana) \subseteq SidecarFiles
    BY <2>2, MountsAreFiles
  <2> QED  BY <1>1, <2>1, <2>3 DEF SidecarsInv, FilesComeFirst
<1>8. ComposeGoesFirst'
  BY <1>1 DEF ComposeGoesFirst
<1>9. ComposeIsItsFamilys'
  BY <1>1, <1>5 DEF SidecarsInv, ComposeIsItsFamilys
<1>10. OverlaysAreHealthy'
  BY <1>4, <1>6, <1>9, HealthFollows, PTL
<1> QED  BY <1>4, <1>6, <1>7, <1>8, <1>9, <1>10 DEF SidecarsInv, SidecarsAreWhole

(* A write or a removal that is cut short leaves the files as they are.    *)
LEMMA StopKeeps ==
  ASSUME SidecarsInv, WriteRaises \/ SidecarsLost
  PROVE  SidecarsInv'
<1>1. /\ doing' = "idle" /\ left' = <<>>
      /\ UNCHANGED <<family, disk, mounted, grafana, requests>>
      /\ spoilt' = spoilt \/ (spoilt' = TRUE /\ family = "certificate")
      /\ ~spoilt' => ~(doing = "remove" /\ family = "certificate") /\ ~spoilt
  BY DEF WriteRaises, SidecarsLost, SidecarsInv, SidecarsTypeOK
<1>2. SidecarsTypeOK'
  <2>1. crashes' \in 0..MaxCrashes
    <3>1. MaxCrashes \in Nat
      BY SidecarAssumption DEF SidecarAssumption
    <3> QED  BY <3>1 DEF WriteRaises, SidecarsLost, SidecarsInv, SidecarsTypeOK
  <2>3. spoilt' \in BOOLEAN
    BY DEF WriteRaises, SidecarsLost, SidecarsInv, SidecarsTypeOK
  <2>2. left' \in Seq(SidecarFiles) /\ (left' = <<>>) = (doing' = "idle")
    BY <1>1
  <2> QED  BY <1>1, <2>1, <2>2, <2>3 DEF SidecarsInv, SidecarsTypeOK
<1>3. EnabledHasItsFiles'
  BY <1>1 DEF SidecarsInv, SidecarsAreWhole, EnabledHasItsFiles, IsEnabled
<1>4. FilesComeFirst' /\ ComposeGoesFirst'
  BY <1>1 DEF FilesComeFirst, ComposeGoesFirst
<1>5. ComposeIsItsFamilys'
  BY <1>1 DEF SidecarsInv, ComposeIsItsFamilys, IsEnabled, OnRequest
<1>6. OverlaysAreHealthy'
  BY <1>2, <1>3, <1>5, HealthFollows, PTL
<1> QED  BY <1>2, <1>3, <1>4, <1>5, <1>6 DEF SidecarsInv, SidecarsAreWhole

(* The first file to go is the compose file, or it is a certificate.       *)
LEMMA BeginRemoveKeeps ==
  ASSUME SidecarsInv, BeginRemove
  PROVE  SidecarsInv'
<1>1. /\ doing = "idle" /\ family \in OnRequest /\ doing' = "remove"
      /\ left' = RemovalOrder(family)
      /\ UNCHANGED <<family, disk, mounted, grafana, crashes, spoilt>>
  BY DEF BeginRemove
<1>2. SidecarsTypeOK'
  BY <1>1, RemovalsAreFiles, SidecarAssumption
  DEF SidecarAssumption, SidecarsInv, SidecarsTypeOK, BeginRemove
<1>3. EnabledHasItsFiles'
  BY <1>1 DEF SidecarsInv, SidecarsAreWhole, EnabledHasItsFiles, IsEnabled
<1>4. FilesComeFirst'
  BY <1>1 DEF FilesComeFirst
<1>5. ComposeGoesFirst'
  BY <1>1, RemovalsAreFiles DEF ComposeGoesFirst
<1>6. ComposeIsItsFamilys'
  BY <1>1 DEF SidecarsInv, ComposeIsItsFamilys, IsEnabled
<1>7. OverlaysAreHealthy'
  BY <1>2, <1>3, <1>6, HealthFollows, PTL
<1> QED  BY <1>2, <1>3, <1>4, <1>5, <1>6, <1>7 DEF SidecarsInv, SidecarsAreWhole

(* A removal that failed nowhere has taken the compose file before others. *)
LEMMA RemoveStepKeeps ==
  ASSUME SidecarsInv, RemoveFile \/ RemoveFails
  PROVE  SidecarsInv'
<1> DEFINE taken == Head(left)
<1>1. /\ SidecarsTypeOK /\ doing = "remove" /\ GoesOn /\ family \in OnRequest
      /\ UNCHANGED <<family, grafana, requests, crashes>>
  BY DEF SidecarsInv, RemoveFile, RemoveFails, ComposeIsItsFamilys
<1>2. /\ taken = left[1] /\ taken \in SidecarFiles /\ Len(left) \in Nat \ {0}
      /\ Len(left') = Len(left) - 1 /\ \A p \in 1..Len(left') : left'[p] = left[p + 1]
      /\ doing' \in {"idle", "remove"} /\ (doing' = "idle" <=> Len(left) = 1)
  BY <1>1, TailFacts
<1>3. \/ /\ spoilt' = TRUE /\ disk' = disk /\ mounted' = mounted
      \/ /\ RemoveFile /\ spoilt' = spoilt /\ disk' = [disk EXCEPT ![taken] = "absent"]
         /\ mounted' = IF taken = "compose" THEN {} ELSE mounted
  BY DEF RemoveFile, RemoveFails
<1>4. ~spoilt' => ~spoilt /\ disk' = [disk EXCEPT ![taken] = "absent"]
  BY <1>3
<1>5. SidecarsTypeOK'
  <2>1. left' \in Seq(SidecarFiles) /\ (left' = <<>>) = (doing' = "idle")
    BY <1>1, TailFacts
  <2>2. disk' \in [SidecarFiles -> {"absent", "torn", "whole"}] /\ mounted' \subseteq SidecarFiles
    BY <1>1, <1>2, <1>3 DEF SidecarsTypeOK
  <2>3. spoilt' \in BOOLEAN /\ doing' \in {"idle", "write", "remove"}
    BY <1>1, <1>2, <1>3 DEF SidecarsTypeOK
  <2> QED  BY <1>1, <2>1, <2>2, <2>3 DEF SidecarsTypeOK
<1>6. \A n \in SidecarFiles : disk'[n] = disk[n] \/ (n = taken /\ disk'[n] = "absent")
  BY <1>1, <1>2, <1>3 DEF SidecarsTypeOK
<1>7. IsEnabled' => IsEnabled /\ mounted' = mounted
  <2>1. "compose" \in SidecarFiles
    BY DEF SidecarFiles
  <2>2. ASSUME taken = "compose", disk' = [disk EXCEPT ![taken] = "absent"] PROVE ~IsEnabled'
    BY <1>1, <2>1, <2>2 DEF IsEnabled, SidecarsTypeOK
  <2>3. IsEnabled' => IsEnabled
    BY <1>6, <2>1 DEF IsEnabled
  <2> QED  BY <1>3, <2>2, <2>3
<1> HIDE DEF taken
<1>8. ASSUME ~spoilt', family # "certificate" PROVE ~IsEnabled'
  <2>1. taken = "compose" \/ ~IsEnabled
    BY <1>1, <1>2, <1>4, <1>8 DEF SidecarsInv, ComposeGoesFirst
  <2>2. taken = "compose" => disk'["compose"] = "absent"
    BY <1>1, <1>2, <1>4, <1>8 DEF SidecarsTypeOK
  <2> QED  BY <1>7, <2>1, <2>2 DEF IsEnabled
<1>9. ASSUME ~spoilt', family = "certificate", doing' = "idle" PROVE ~IsEnabled'
  <2>1. taken = "compose"
    BY <1>1, <1>2, <1>4, <1>9 DEF SidecarsInv, ComposeGoesFirst
  <2>2. disk'["compose"] = "absent"
    BY <1>1, <1>2, <1>4, <1>9, <2>1 DEF SidecarsTypeOK
  <2> QED  BY <2>2 DEF IsEnabled
<1>10. EnabledHasItsFiles'
  BY <1>1, <1>2, <1>8, <1>9 DEF EnabledHasItsFiles
<1>11. FilesComeFirst'
  BY <1>2 DEF FilesComeFirst
<1>12. ComposeGoesFirst'
  <2>1. ASSUME ~spoilt', family = "certificate", doing' = "remove"
        PROVE  left'[Len(left')] = "compose"
    <3>1. left[Len(left)] = "compose"
      BY <1>1, <1>4, <2>1 DEF SidecarsInv, ComposeGoesFirst
    <3>2. Len(left') \in 1..Len(left') /\ Len(left') + 1 = Len(left)
      BY <1>2, <2>1
    <3> QED  BY <1>2, <3>1, <3>2
  <2> QED  BY <1>1, <1>8, <2>1 DEF ComposeGoesFirst
<1>13. ComposeIsItsFamilys'
  <2>1. IsEnabled' => \E g \in BOOLEAN : mounted' = Mounts(family, g)
    BY <1>7 DEF SidecarsInv, ComposeIsItsFamilys
  <2>2. family \notin InPlace => \A n \in SidecarFiles : disk'[n] # "torn"
    BY <1>6 DEF SidecarsInv, ComposeIsItsFamilys
  <2> QED  BY <1>1, <2>1, <2>2 DEF ComposeIsItsFamilys
<1>14. OverlaysAreHealthy'
  BY <1>5, <1>10, <1>13, HealthFollows, PTL
<1> QED  BY <1>5, <1>10, <1>11, <1>12, <1>13, <1>14 DEF SidecarsInv, SidecarsAreWhole

(* Whatever families there are and however their requests, failures and    *)
(* losses of the server follow each other: a compose file that can be used *)
(* has what it mounts (write_airflow_overlay and its like,                 *)
(* enable_monitoring, disable_monitoring), and validate_overlay reports    *)
(* nothing.                                                                *)
THEOREM SidecarsStayWhole == SidecarsSpec => []SidecarsAreWhole
<1>1. SidecarsInv /\ SidecarsNext => SidecarsInv'
  BY BeginWriteKeeps, WriteFileKeeps, OpenInPlaceKeeps, StopKeeps, BeginRemoveKeeps,
     RemoveStepKeeps
  DEF SidecarsNext
<1>2. SidecarsInv /\ UNCHANGED sidecarVars => SidecarsInv'
  <2> SUFFICES ASSUME SidecarsInv, UNCHANGED sidecarVars PROVE SidecarsInv'
    OBVIOUS
  <2>1. SidecarsTypeOK'
    BY DEF sidecarVars, SidecarsInv, SidecarsTypeOK
  <2>2. EnabledHasItsFiles' /\ ComposeGoesFirst' /\ ComposeIsItsFamilys'
    BY DEF sidecarVars, SidecarsInv, SidecarsAreWhole, EnabledHasItsFiles, ComposeGoesFirst,
           ComposeIsItsFamilys, IsEnabled
  <2>3. FilesComeFirst'
    BY DEF sidecarVars, SidecarsInv, FilesComeFirst
  <2>4. OverlaysAreHealthy'
    BY <2>1, <2>2, HealthFollows, PTL
  <2> QED  BY <2>1, <2>2, <2>3, <2>4 DEF SidecarsInv, SidecarsAreWhole
<1>3. SidecarsInv => SidecarsAreWhole
  BY DEF SidecarsInv
<1> QED  BY SidecarsStart, <1>1, <1>2, <1>3, PTL DEF SidecarsSpec
=============================================================================
