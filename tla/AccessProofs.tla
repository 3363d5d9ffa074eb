---------------------------- MODULE AccessProofs ----------------------------
(***************************************************************************)
(* Theorems about Access, for any number of processes, clients, keys,       *)
(* accounts and places, and for any limit, window and number of buckets.    *)
(***************************************************************************)
EXTENDS Access, Induction, SequenceTheorems

-----------------------------------------------------------------------------
(* The authenticated data tells all places apart.                          *)

Groups == {"scalar", "metadata", "sections", "nested", "items", "questions", "suggestions",
           "facts", "evidence"}

\* Resource type and field name of a kind of place.
Resource(group, kind) == Tables[group][kind][1]
Field(group, kind) == Tables[group][kind][2]

LEMMA TablesOfGroups ==
  /\ DOMAIN Tables = Groups
  /\ Tables["scalar"] = Scalar /\ Tables["metadata"] = Metadata
  /\ Tables["sections"] = Sections /\ Tables["nested"] = Nested
  /\ Tables["items"] = Items /\ Tables["questions"] = Questions
  /\ Tables["suggestions"] = Suggestions /\ Tables["facts"] = Facts
  /\ Tables["evidence"] = Evidence
  BY DEF Tables, Groups

\* Within a group two kinds differ in the resource or in the field.
LEMMA KindsDiffer ==
  ASSUME NEW group \in Groups, NEW k \in DOMAIN Tables[group], NEW l \in DOMAIN Tables[group],
         Resource(group, k) = Resource(group, l), Field(group, k) = Field(group, l)
  PROVE  k = l
<1> USE TablesOfGroups DEF Resource, Field
<1>1. CASE group = "scalar"
  BY <1>1 DEF Scalar
<1>2. CASE group = "metadata"
  BY <1>2 DEF Metadata
<1>3. CASE group = "sections"
  BY <1>3 DEF Sections
<1>4. CASE group = "nested"
  BY <1>4 DEF Nested
<1>5. CASE group = "items"
  BY <1>5 DEF Items
<1>6. CASE group = "questions"
  BY <1>6 DEF Questions
<1>7. CASE group = "suggestions"
  BY <1>7 DEF Suggestions
<1>8. CASE group = "facts"
  BY <1>8 DEF Facts
<1>9. CASE group = "evidence"
  BY <1>9 DEF Evidence
<1> QED
  BY <1>1, <1>2, <1>3, <1>4, <1>5, <1>6, <1>7, <1>8, <1>9 DEF Groups

\* The groups of analysis results share a schema version, but no resource.
LEMMA ResultResources ==
  /\ \A k \in DOMAIN Tables["items"] : Resource("items", k) = "analysis_result_item"
  /\ \A k \in DOMAIN Tables["questions"] : Resource("questions", k) = "analysis_result_question"
  /\ \A k \in DOMAIN Tables["suggestions"] : Resource("suggestions", k) = "analysis_result_suggestion"
  /\ \A k \in DOMAIN Tables["facts"] : Resource("facts", k) = "analysis_result_fact"
<1> USE TablesOfGroups DEF Resource
<1>1. \A k \in DOMAIN Tables["items"] : Resource("items", k) = "analysis_result_item"
  BY DEF Items
<1>2. \A k \in DOMAIN Tables["questions"] : Resource("questions", k) = "analysis_result_question"
  BY DEF Questions
<1>3. \A k \in DOMAIN Tables["suggestions"] : Resource("suggestions", k) = "analysis_result_suggestion"
  BY DEF Suggestions
<1>4. \A k \in DOMAIN Tables["facts"] : Resource("facts", k) = "analysis_result_fact"
  BY DEF Facts
<1> QED
  BY <1>1, <1>2, <1>3, <1>4

LEMMA GroupsDiffer ==
  ASSUME NEW g \in Groups, NEW h \in Groups, Schema(g) = Schema(h),
         NEW k \in DOMAIN Tables[g], NEW l \in DOMAIN Tables[h], Resource(g, k) = Resource(h, l)
  PROVE  g = h
<1> DEFINE Results == {"items", "questions", "suggestions", "facts"}
<1>1. (g \in Results /\ h \in Results) \/ g = h
  BY DEF Schema, Groups
<1>2. ASSUME g \in Results, h \in Results PROVE g = h
  BY <1>2, ResultResources
<1> QED
  BY <1>1, <1>2

LEMMA PlaceShape ==
  ASSUME NEW p \in Places
  PROVE  /\ p.group \in Groups /\ p.kind \in DOMAIN Tables[p.group]
         /\ p = [group |-> p.group, kind |-> p.kind, owner |-> p.owner, ids |-> p.ids]
<1>1. PICK group \in DOMAIN Tables :
        p \in UNION {PlacesOf(group, kind) : kind \in DOMAIN Tables[group]}
  BY DEF Places
<1>2. PICK kind \in DOMAIN Tables[group] : p \in PlacesOf(group, kind)
  BY <1>1
<1>3. p.group = group /\ p.kind = kind
  BY <1>2 DEF PlacesOf
<1>4. p = [group |-> p.group, kind |-> p.kind, owner |-> p.owner, ids |-> p.ids]
  BY <1>2 DEF PlacesOf
<1> QED
  BY <1>3, <1>4, TablesOfGroups

\* Two places with the same authenticated data are one place: the mistake of two
\* modules that bind their values to the same type and field is not made.
THEOREM PlacesAreDistinct ==
  ASSUME NEW p \in Places, NEW q \in Places, Aad(p) = Aad(q)
  PROVE  p = q
<1>1. /\ Resource(p.group, p.kind) = Resource(q.group, q.kind)
      /\ Field(p.group, p.kind) = Field(q.group, q.kind)
      /\ p.ids = q.ids /\ p.owner = q.owner /\ Schema(p.group) = Schema(q.group)
  BY DEF Aad, Resource, Field
<1>2. p.group = q.group
  BY <1>1, PlaceShape, GroupsDiffer
<1>3. p.kind = q.kind
  BY <1>1, <1>2, PlaceShape, KindsDiffer
<1> QED
  BY <1>1, <1>2, <1>3, PlaceShape

-----------------------------------------------------------------------------
(* The invariant.                                                          *)

KeyRings == [keys : UNION {[D -> {"active", "decrypt_only"}] : D \in SUBSET KeyIds}, active : KeyIds]

Envs == [ring : KeyRings, secret : Nat]

Emails == [key : KeyIds, aad : {Aad(EmailPlace(u)) : u \in Nat}]

ClientStates ==
  [at : {"idle", "limit", "handle", "insert"}, proc : Apis \cup {None},
   what : {"none", "register", "login", "upload"}, address : Addresses \cup {None}, since : Nat,
   email : KeyRings \cup {None},
   token : [user : Nat, address : Addresses, secret : Nat] \cup {None},
   told : Addresses \cup {None}, failed : {"no", "current", "outdated"}]

\* Everything but the tables of the limiter has its type.
TypeInv ==
  /\ now \in Nat /\ env \in Envs
  /\ procs = [p \in Processes |-> procs[p]]
  /\ \A p \in Processes :
       /\ procs[p] = [up |-> procs[p].up, env |-> procs[p].env, table |-> procs[p].table]
       /\ procs[p].up \in BOOLEAN /\ procs[p].env \in Envs
  /\ users \in Seq([address : Addresses, email : Emails])
  /\ clients \in [Clients -> ClientStates]

\* The keys of the deployment open what is stored, and what processes that still
\* run with an earlier environment write.
Known == DOMAIN env.ring.keys

KeyInv ==
  /\ env.ring.active \in Known
  /\ \A p \in Processes : procs[p].up => procs[p].env.ring.active \in Known
  /\ \A p \in Apis : procs[p].up => WellFormed(procs[p].env.ring)

UserInv ==
  /\ \A u \in DOMAIN users : /\ users[u].email.key \in Known
                             /\ users[u].email.aad = Aad(EmailPlace(u))
  /\ \A u, v \in DOMAIN users : users[u].address = users[v].address => u = v

\* A job of a worker with the secrets of now finds the key of what it opens.
StoredInv ==
  /\ \A s \in stored :
       s.place \in Written /\ s.envelope.key \in Known /\ s.envelope.aad = Aad(s.place)
  /\ undone # "current"

\* A request under way is in a process that was not restarted since.
ClientInv(c) ==
  /\ clients[c].at # "idle" =>
       clients[c].proc \in Apis /\ procs[clients[c].proc].up /\ clients[c].address \in Addresses
  /\ clients[c].at = "insert" => clients[c].email = procs[clients[c].proc].env.ring
  /\ clients[c].told # None => \E u \in DOMAIN users : users[u].address = clients[c].told
  /\ clients[c].token # None =>
       /\ clients[c].token.user \in DOMAIN users
       /\ users[clients[c].token.user].address = clients[c].token.address
  /\ clients[c].failed # "current"

AccessInv == TypeInv /\ KeyInv /\ UserInv /\ StoredInv /\ \A c \in Clients : ClientInv(c)

-----------------------------------------------------------------------------
(* Steps of clients.                                                       *)

\* Processes go on with the environment they have.
ProcsGoOn ==
  /\ procs' = [p \in Processes |-> procs'[p]]
  /\ \A p \in Processes :
       /\ procs'[p] = [up |-> procs'[p].up, env |-> procs'[p].env, table |-> procs'[p].table]
       /\ procs'[p].up = procs[p].up /\ procs'[p].env = procs[p].env

\* A request makes a step and inserts no account.
LEMMA ClientStep ==
  ASSUME AccessInv, NEW c \in Clients, NEW h \in ClientStates,
         clients' = [clients EXCEPT ![c] = h],
         UNCHANGED <<now, env, users>>, UNCHANGED procs \/ ProcsGoOn, StoredInv',
         h.at # "idle" => h.proc \in Apis /\ procs[h.proc].up /\ h.address \in Addresses,
         h.at = "insert" => h.email = procs[h.proc].env.ring,
         h.told # None => \E u \in DOMAIN users : users[u].address = h.told,
         h.token # None => h.token.user \in DOMAIN users /\ users[h.token.user].address = h.token.address,
         h.failed # "current"
  PROVE  AccessInv'
<1>1. \A p \in Processes : procs'[p].up = procs[p].up /\ procs'[p].env = procs[p].env
  BY DEF ProcsGoOn
<1>2. TypeInv'
  <2>1. clients' \in [Clients -> ClientStates]
    BY DEF AccessInv, TypeInv
  <2>2. CASE UNCHANGED procs
    BY <2>1, <2>2 DEF AccessInv, TypeInv
  <2>3. CASE ProcsGoOn
    BY <2>1, <2>3 DEF AccessInv, TypeInv, ProcsGoOn
  <2> QED
    BY <2>2, <2>3
<1>3. KeyInv' /\ UserInv'
  <2>1. \A p \in Apis : procs'[p].up => WellFormed(procs'[p].env.ring)
    BY <1>1 DEF AccessInv, KeyInv, Processes
  <2> QED
    BY <1>1, <2>1 DEF AccessInv, KeyInv, UserInv, Known
<1>4. ASSUME NEW d \in Clients
      PROVE  ClientInv(d)'
  <2>1. CASE d = c
    <3>1. clients'[d] = h
      BY <2>1 DEF AccessInv, TypeInv
    <3> QED
      BY <1>1, <3>1 DEF ClientInv, Processes
  <2>2. CASE d # c
    <3>1. clients'[d] = clients[d] /\ ClientInv(d)
      BY <2>2 DEF AccessInv, TypeInv
    <3> QED
      BY <1>1, <3>1 DEF ClientInv, Processes
  <2> QED
    BY <2>1, <2>2
<1> QED
  BY <1>2, <1>3, <1>4 DEF AccessInv

\* What is left of a request that ended.
LEMMA EndedShape ==
  ASSUME AccessInv, NEW c \in Clients
  PROVE  /\ Ended(c) \in ClientStates
         /\ Ended(c) = [at |-> "idle", proc |-> None, what |-> "none", address |-> None, since |-> 0,
                        email |-> None, token |-> clients[c].token, told |-> None, failed |-> "no"]
<1>1. clients[c] \in ClientStates
  BY DEF AccessInv, TypeInv
<1> QED
  BY <1>1 DEF Ended, NewClient, Client, ClientStates

\* A token that a client has belongs to the account of its address.
LEMMA EndedKeeps ==
  ASSUME AccessInv, NEW c \in Clients, clients[c].token # None
  PROVE  /\ clients[c].token.user \in DOMAIN users
         /\ users[clients[c].token.user].address = clients[c].token.address
  BY DEF AccessInv, ClientInv

LEMMA EndsStep ==
  ASSUME AccessInv, NEW c \in Clients, Ends(c),
         UNCHANGED <<now, env, users>>, UNCHANGED procs \/ ProcsGoOn, StoredInv'
  PROVE  AccessInv'
<1> DEFINE h == Ended(c)
<1>1. /\ h \in ClientStates /\ h.at = "idle" /\ h.told = None /\ h.failed = "no"
      /\ h.token = clients[c].token
  BY EndedShape
<1>2. clients' = [clients EXCEPT ![c] = h]
  BY DEF Ends
<1> HIDE DEF h
<1> QED
  BY <1>1, <1>2, EndedKeeps, ClientStep

LEMMA ArriveStep ==
  ASSUME AccessInv, NEW c \in Clients, NEW p \in Apis, Arrive(c, p)
  PROVE  AccessInv'
<1>1. UNCHANGED <<now, env, procs, users, stored>> /\ StoredInv' /\ procs[p].up
  BY DEF Arrive, AccessInv, StoredInv, Known
<1>2. CASE Ends(c)
  BY <1>1, <1>2, EndsStep
<1>3. ASSUME NEW what \in {"register", "login", "upload"}, NEW address \in Addresses,
             clients' = [clients EXCEPT ![c] =
               [Ended(c) EXCEPT !.at = "limit", !.proc = p, !.what = what,
                                !.address = address, !.since = now]]
      PROVE  AccessInv'
  <2> DEFINE e == Ended(c)
             h == [e EXCEPT !.at = "limit", !.proc = p, !.what = what, !.address = address,
                            !.since = now]
  <2>1. /\ e \in ClientStates /\ e.told = None /\ e.failed = "no" /\ e.token = clients[c].token
    BY EndedShape
  <2>2. clients' = [clients EXCEPT ![c] = h] /\ now \in Nat
    BY <1>3 DEF AccessInv, TypeInv
  <2> HIDE DEF e
  <2>3. /\ h \in ClientStates /\ h.at = "limit" /\ h.proc = p /\ h.address = address
        /\ h.told = None /\ h.failed = "no" /\ h.token = clients[c].token
    BY <2>1, <2>2, ZenonT(40) DEF ClientStates
  <2> HIDE DEF h
  <2> QED
    BY <1>1, <2>2, <2>3, EndedKeeps, ClientStep
<1> QED
  BY <1>2, <1>3 DEF Arrive

LEMMA AdmitStep ==
  ASSUME AccessInv, NEW c \in Clients, Admit(c)
  PROVE  AccessInv'
<1>1. PICK table : procs' = [procs EXCEPT ![clients[c].proc].table = table]
  BY DEF Admit, Client
<1>2. /\ clients[c].at = "limit" /\ clients[c] \in ClientStates /\ ClientInv(c)
      /\ UNCHANGED <<now, env, users, stored>> /\ StoredInv'
  BY DEF Admit, Client, AccessInv, TypeInv, StoredInv, Known
<1>3. clients[c].proc \in Processes
  BY <1>2 DEF ClientInv, Processes
<1>4. ProcsGoOn
  <2>1. procs = [p \in Processes |-> procs[p]]
    BY DEF AccessInv, TypeInv
  <2>2. ASSUME NEW p \in Processes
        PROVE  /\ procs'[p] = [up |-> procs'[p].up, env |-> procs'[p].env, table |-> procs'[p].table]
               /\ procs'[p].up = procs[p].up /\ procs'[p].env = procs[p].env
    <3>1. procs[p] = [up |-> procs[p].up, env |-> procs[p].env, table |-> procs[p].table]
      BY DEF AccessInv, TypeInv
    <3>2. procs'[p] = procs[p] \/ procs'[p] = [procs[p] EXCEPT !.table = table]
      BY <1>1, <1>3, <2>1
    <3> QED
      BY <3>1, <3>2
  <2>3. procs' = [p \in Processes |-> procs'[p]]
    BY <1>1, <1>3, <2>1
  <2> QED
    BY <2>2, <2>3 DEF ProcsGoOn
<1>5. CASE Ends(c)
  BY <1>2, <1>4, <1>5, EndsStep
<1>6. CASE clients' = [clients EXCEPT ![c].at = "handle"]
  <2> DEFINE h == [clients[c] EXCEPT !.at = "handle"]
  <2>1. /\ h \in ClientStates /\ h.at = "handle" /\ h.proc = clients[c].proc
        /\ h.address = clients[c].address /\ h.told = clients[c].told
        /\ h.failed = clients[c].failed /\ h.token = clients[c].token
    BY <1>2 DEF ClientStates
  <2>2. clients' = [clients EXCEPT ![c] = h]
    BY <1>6
  <2> HIDE DEF h
  <2> QED
    BY <1>2, <1>4, <2>1, <2>2, ClientStep DEF ClientInv
<1> QED
  BY <1>5, <1>6 DEF Admit

\* register answers that there is an account, with one just made or found.
LEMMA HasAccountShape ==
  ASSUME AccessInv, NEW c \in Clients, clients[c].at # "idle", HasAccount(c)
  PROVE  \E h \in ClientStates :
           /\ clients' = [clients EXCEPT ![c] = h]
           /\ h.at = "idle" /\ h.told = clients[c].address /\ h.failed = "no"
           /\ h.token = clients[c].token
<1> DEFINE e == Ended(c)
           h == [e EXCEPT !.told = clients[c].address]
<1>1. e \in ClientStates /\ e.at = "idle" /\ e.failed = "no" /\ e.token = clients[c].token
  BY EndedShape
<1>2. clients[c].address \in Addresses /\ clients' = [clients EXCEPT ![c] = h]
  BY DEF AccessInv, ClientInv, HasAccount, Client
<1> HIDE DEF e
<1>3. /\ h \in ClientStates /\ h.at = "idle" /\ h.told = clients[c].address
      /\ h.failed = "no" /\ h.token = clients[c].token
  BY <1>1, <1>2 DEF ClientStates
<1> QED
  BY <1>2, <1>3

\* There is an account already.
LEMMA FoundStep ==
  ASSUME AccessInv, NEW c \in Clients, clients[c].at # "idle", HasAccount(c),
         Account(clients[c].address) # {}, UNCHANGED <<now, env, procs, users, stored, undone>>
  PROVE  AccessInv'
<1>1. PICK h \in ClientStates :
        /\ clients' = [clients EXCEPT ![c] = h]
        /\ h.at = "idle" /\ h.told = clients[c].address /\ h.failed = "no"
        /\ h.token = clients[c].token
  BY HasAccountShape
<1>2. \E u \in DOMAIN users : users[u].address = h.told
  BY <1>1 DEF Account
<1>3. StoredInv'
  BY DEF AccessInv, StoredInv, Known
<1> QED
  BY <1>1, <1>2, <1>3, EndedKeeps, ClientStep

LEMMA RegisterStep ==
  ASSUME AccessInv, NEW c \in Clients, Register(c)
  PROVE  AccessInv'
<1>1. /\ clients[c].at = "handle" /\ clients[c] \in ClientStates /\ ClientInv(c)
      /\ UNCHANGED <<now, env, procs, users, stored, undone>> /\ StoredInv'
  BY DEF Register, Client, AccessInv, TypeInv, StoredInv, Known
<1>2. CASE Account(clients[c].address) # {}
  BY <1>1, <1>2, FoundStep DEF Register, Client
<1>3. CASE Account(clients[c].address) = {}
  <2> DEFINE ring == procs[clients[c].proc].env.ring
             h == [clients[c] EXCEPT !.at = "insert", !.email = ring]
  <2>1. ring \in KeyRings
    BY <1>1 DEF ClientInv, AccessInv, TypeInv, Processes, Envs
  <2>2. clients' = [clients EXCEPT ![c] = h]
    BY <1>3 DEF Register, Client, Ring
  <2> HIDE DEF ring
  <2>3. /\ h \in ClientStates /\ h.at = "insert" /\ h.proc = clients[c].proc
        /\ h.address = clients[c].address /\ h.told = clients[c].told /\ h.email = ring
        /\ h.failed = clients[c].failed /\ h.token = clients[c].token
    BY <1>1, <2>1 DEF ClientStates
  <2> HIDE DEF h
  <2> QED
    BY <1>1, <2>2, <2>3, ClientStep DEF ClientInv, ring
<1> QED
  BY <1>2, <1>3

\* The insertion of an account, sealed with the ring of the process.
LEMMA InsertStep ==
  ASSUME AccessInv, NEW c \in Clients, Insert(c)
  PROVE  AccessInv'
<1>1. /\ clients[c].at = "insert" /\ clients[c] \in ClientStates /\ ClientInv(c) /\ HasAccount(c)
      /\ UNCHANGED <<now, env, procs, stored, undone>> /\ StoredInv'
  BY DEF Insert, Client, AccessInv, TypeInv, StoredInv, Known
<1>2. CASE Account(clients[c].address) # {}
  BY <1>1, <1>2, FoundStep DEF Insert, Client
<1>3. CASE Account(clients[c].address) = {}
  <2> DEFINE n == Len(users) + 1
  <2>1. users \in Seq([address : Addresses, email : Emails]) /\ n \in Nat
    BY DEF AccessInv, TypeInv
  <2>2. PICK user : users' = Append(users, user) /\ user = NewUser(c)
    BY <1>3 DEF Insert, Client
  <2>3. /\ user.address = clients[c].address /\ user.email.aad = Aad(EmailPlace(n))
        /\ user.email.key \in Known /\ user \in [address : Addresses, email : Emails]
    <3>1. /\ clients[c].email.active \in Known /\ clients[c].email.active \in KeyIds
          /\ clients[c].address \in Addresses
      BY <1>1 DEF ClientInv, AccessInv, KeyInv, TypeInv, Processes, Envs, KeyRings
    <3>2. user = [address |-> clients[c].address,
                  email |-> [key |-> clients[c].email.active, aad |-> Aad(EmailPlace(n))]]
      BY <2>2 DEF NewUser, Seal, Client
    <3> QED
      BY <2>1, <3>1, <3>2 DEF Emails
  <2> HIDE DEF n
  <2>4. /\ users' \in Seq([address : Addresses, email : Emails])
        /\ DOMAIN users' = DOMAIN users \cup {n} /\ n \notin DOMAIN users
        /\ users'[n] = user /\ \A u \in DOMAIN users : users'[u] = users[u]
    BY <2>1, <2>2, <2>3 DEF n
  <2>5. PICK h \in ClientStates :
          /\ clients' = [clients EXCEPT ![c] = h]
          /\ h.at = "idle" /\ h.told = clients[c].address /\ h.failed = "no"
          /\ h.token = clients[c].token
    BY <1>1, HasAccountShape
  <2>6. TypeInv' /\ KeyInv'
    BY <1>1, <2>4, <2>5 DEF AccessInv, TypeInv, KeyInv, Known
  <2>7. UserInv'
    <3>1. \A u \in DOMAIN users : users[u].address # user.address
      BY <1>3, <2>3 DEF Account
    <3> QED
      BY <1>1, <2>3, <2>4, <3>1 DEF AccessInv, UserInv, Known
  <2>8. ASSUME NEW d \in Clients
        PROVE  ClientInv(d)'
    <3>1. CASE d = c
      <4>1. clients'[d] = h
        BY <2>5, <3>1 DEF AccessInv, TypeInv
      <4> QED
        BY <2>3, <2>4, <2>5, <4>1, EndedKeeps DEF ClientInv
    <3>2. CASE d # c
      <4>1. clients'[d] = clients[d] /\ ClientInv(d)
        BY <2>5, <3>2 DEF AccessInv, TypeInv
      <4> QED
        BY <1>1, <2>4, <4>1 DEF ClientInv
    <3> QED
      BY <3>1, <3>2
  <2> QED
    BY <1>1, <2>6, <2>7, <2>8 DEF AccessInv
<1> QED
  BY <1>2, <1>3

\* A login fails for want of a key only in a process with other secrets.
LEMMA LoginStep ==
  ASSUME AccessInv, NEW c \in Clients, Login(c)
  PROVE  AccessInv'
<1>1. /\ clients[c].at = "handle" /\ clients[c] \in ClientStates /\ ClientInv(c)
      /\ UNCHANGED <<now, env, procs, users, stored>> /\ StoredInv'
  BY DEF Login, Client, AccessInv, TypeInv, StoredInv, Known
<1> DEFINE e == Ended(c)
<1>2. /\ e \in ClientStates /\ e.at = "idle" /\ e.told = None /\ e.failed = "no"
      /\ e.token = clients[c].token
  BY EndedShape
<1>3. CASE Fails(c) /\ \E u \in Account(clients[c].address) :
                          ~Opens(Ring(c), users[u].email, EmailPlace(u))
  <2>1. procs[clients[c].proc].env # env
    <3>1. WellFormed(Ring(c))
      BY <1>1 DEF ClientInv, AccessInv, KeyInv, Ring, Client
    <3>2. PICK u \in DOMAIN users : ~Opens(Ring(c), users[u].email, EmailPlace(u))
      BY <1>3 DEF Account
    <3>3. users[u].email.key \in Known /\ users[u].email.aad = Aad(EmailPlace(u))
      BY DEF AccessInv, UserInv
    <3>4. Ring(c) # env.ring
      BY <3>1, <3>2, <3>3 DEF Opens, Known
    <3> QED
      BY <3>4 DEF Ring, Client
  <2> DEFINE h == [e EXCEPT !.failed = "outdated"]
  <2>2. clients' = [clients EXCEPT ![c] = h]
    BY <1>3, <2>1 DEF Fails, Client
  <2> HIDE DEF e
  <2>3. /\ h \in ClientStates /\ h.at = "idle" /\ h.told = None /\ h.failed = "outdated"
        /\ h.token = clients[c].token
    BY <1>2 DEF ClientStates
  <2> HIDE DEF h
  <2> QED
    BY <1>1, <2>2, <2>3, EndedKeeps, ClientStep
<1>4. CASE Ends(c)
  BY <1>1, <1>4, EndsStep
<1>5. ASSUME NEW u \in Account(clients[c].address),
             clients' = [clients EXCEPT ![c] =
               [Ended(c) EXCEPT !.token =
                  [user |-> u, address |-> clients[c].address,
                   secret |-> procs[clients[c].proc].env.secret]]]
      PROVE  AccessInv'
  <2> DEFINE token == [user |-> u, address |-> clients[c].address,
                       secret |-> procs[clients[c].proc].env.secret]
             h == [e EXCEPT !.token = token]
  <2>1. u \in DOMAIN users /\ u \in Nat /\ users[u].address = clients[c].address
    BY DEF Account, AccessInv, TypeInv
  <2>2. clients[c].address \in Addresses /\ procs[clients[c].proc].env.secret \in Nat
    BY <1>1 DEF ClientInv, AccessInv, TypeInv, Processes, Envs
  <2>3. /\ token \in [user : Nat, address : Addresses, secret : Nat]
        /\ token.user = u /\ token.address = clients[c].address
    BY <2>1, <2>2
  <2>4. clients' = [clients EXCEPT ![c] = h]
    BY <1>5
  <2> HIDE DEF e, token
  <2>5. /\ h \in ClientStates /\ h.at = "idle" /\ h.told = None /\ h.failed = "no"
        /\ h.token = token
    BY <1>2, <2>3 DEF ClientStates
  <2> HIDE DEF h
  <2> QED
    BY <1>1, <2>1, <2>3, <2>4, <2>5, ClientStep
<1> QED
  BY <1>3, <1>4, <1>5 DEF Login, Client

-----------------------------------------------------------------------------
(* What is stored.                                                         *)

\* A value sealed with the ring of a process that is up.
LEMMA SealedInv ==
  ASSUME AccessInv, NEW p \in Processes, procs[p].up, NEW place \in Written, UNCHANGED env,
         stored' = stored \cup {[place |-> place, envelope |-> Seal(procs[p].env.ring, place)]},
         undone' \in {undone, "no"}
  PROVE  StoredInv'
<1> DEFINE value == [place |-> place, envelope |-> Seal(procs[p].env.ring, place)]
<1>1. /\ value.place = place /\ value.envelope.key \in Known
      /\ value.envelope.aad = Aad(place)
  BY DEF Seal, AccessInv, KeyInv
<1> HIDE DEF value
<1>2. stored' = stored \cup {value}
  BY DEF value
<1> QED
  BY <1>1, <1>2 DEF AccessInv, StoredInv, Known

LEMMA UploadStep ==
  ASSUME AccessInv, NEW c \in Clients, Upload(c)
  PROVE  AccessInv'
<1>1. /\ clients[c].at = "handle" /\ ClientInv(c) /\ Ends(c)
      /\ UNCHANGED <<now, env, procs, users, undone>>
  BY DEF Upload, Client, AccessInv
<1>2. clients[c].proc \in Processes /\ procs[clients[c].proc].up
  BY <1>1 DEF ClientInv, Processes
<1>3. StoredInv'
  BY <1>1, <1>2, SealedInv DEF Upload, Ring, Client
<1> QED
  BY <1>1, <1>3, EndsStep

LEMMA WorkStep ==
  ASSUME AccessInv, NEW w \in Workers, Work(w)
  PROVE  AccessInv'
<1>1. UNCHANGED <<now, env, procs, users, clients>> /\ procs[w].up /\ w \in Processes
  BY DEF Work, Processes
<1> DEFINE ring == procs[w].env.ring
<1>2. PICK s \in stored, place \in Written :
        IF Opens(ring, s.envelope, s.place)
        THEN /\ stored' = stored \cup {[place |-> place, envelope |-> Seal(ring, place)]}
             /\ undone' = "no"
        ELSE /\ undone' = IF ~WellFormed(ring) THEN "half"
                         ELSE IF procs[w].env = env THEN "current" ELSE "outdated"
             /\ UNCHANGED stored
  BY DEF Work
<1>5. StoredInv'
  <2>1. CASE Opens(ring, s.envelope, s.place)
    BY <1>1, <1>2, <2>1, SealedInv
  <2>2. CASE ~Opens(ring, s.envelope, s.place)
    <3>1. s.envelope.key \in Known /\ s.envelope.aad = Aad(s.place)
      BY DEF AccessInv, StoredInv
    <3>2. WellFormed(ring) => procs[w].env # env
      BY <2>2, <3>1 DEF Opens, Known
    <3>3. undone' # "current" /\ stored' = stored
      BY <1>2, <2>2, <3>2
    <3> QED
      BY <1>1, <3>3 DEF AccessInv, StoredInv, Known
  <2> QED
    BY <2>1, <2>2
<1>3. TypeInv' /\ KeyInv' /\ UserInv'
  BY <1>1 DEF AccessInv, TypeInv, KeyInv, UserInv, Known
<1>4. \A c \in Clients : ClientInv(c)'
  BY <1>1 DEF AccessInv, ClientInv
<1> QED
  BY <1>3, <1>4, <1>5 DEF AccessInv

-----------------------------------------------------------------------------
(* The operator, time, and restarts.                                       *)

\* A step of the operator keeps every key that is in use.
LEMMA OperatorStep ==
  ASSUME AccessInv, env' \in Envs, UNCHANGED <<now, procs, users, stored, undone, clients>>,
         env'.ring.active \in Known',
         \A p \in Processes : procs[p].up => procs[p].env.ring.active \in Known',
         \A u \in DOMAIN users : users[u].email.key \in Known',
         \A s \in stored : s.envelope.key \in Known'
  PROVE  AccessInv'
<1>1. TypeInv' /\ KeyInv' /\ UserInv' /\ StoredInv'
  BY DEF AccessInv, TypeInv, KeyInv, UserInv, StoredInv
<1>2. \A c \in Clients : ClientInv(c)'
  BY DEF AccessInv, ClientInv
<1> QED
  BY <1>1, <1>2 DEF AccessInv

LEMMA RingTypes ==
  ASSUME AccessInv
  PROVE  /\ env \in Envs /\ env.ring \in KeyRings
         /\ env.ring = [keys |-> env.ring.keys, active |-> env.ring.active]
         /\ env = [ring |-> env.ring, secret |-> env.secret] /\ env.secret \in Nat
         /\ env.ring.active \in KeyIds /\ Known \subseteq KeyIds
         /\ env.ring.keys \in [Known -> {"active", "decrypt_only"}]
<1>1. env \in Envs /\ env.ring \in KeyRings /\ env.secret \in Nat
      /\ env = [ring |-> env.ring, secret |-> env.secret]
  BY DEF AccessInv, TypeInv, Envs
<1>2. PICK D \in SUBSET KeyIds : env.ring.keys \in [D -> {"active", "decrypt_only"}]
  BY <1>1 DEF KeyRings
<1> QED
  BY <1>1, <1>2 DEF KeyRings, Known

LEMMA EnvShape ==
  ASSUME AccessInv, NEW ring \in KeyRings
  PROVE  [env EXCEPT !.ring = ring] \in Envs /\ [env EXCEPT !.ring = ring].ring = ring
  BY RingTypes DEF Envs

\* A new ring, made of its parts.
LEMMA RingStep ==
  ASSUME AccessInv, NEW D \in SUBSET KeyIds, NEW keys \in [D -> {"active", "decrypt_only"}],
         NEW active \in D, env' = [env EXCEPT !.ring = [keys |-> keys, active |-> active]]
  PROVE  env' \in Envs /\ Known' = D /\ env'.ring.active = active
<1> DEFINE ring == [keys |-> keys, active |-> active]
<1>1. ring \in KeyRings /\ ring.active = active /\ DOMAIN ring.keys = D
  BY DEF KeyRings
<1> HIDE DEF ring
<1>2. env' = [env EXCEPT !.ring = ring]
  BY DEF ring
<1>3. env' \in Envs /\ env'.ring = ring
  BY <1>1, <1>2, EnvShape
<1> QED
  BY <1>1, <1>3 DEF Known

LEMMA RotateKeysStep == AccessInv /\ RotateKeys => AccessInv'
<1> SUFFICES ASSUME AccessInv, RotateKeys PROVE AccessInv'
  OBVIOUS
<1>0. PICK k \in KeyIds \ Known : \E a \in {env.ring.active, k} :
        env' = [env EXCEPT !.ring = [keys |-> [x \in Known \cup {k} |->
                                       IF x = k THEN "active" ELSE "decrypt_only"], active |-> a]]
  BY DEF RotateKeys, Known
<1>1. PICK a \in {env.ring.active, k} :
        env' = [env EXCEPT !.ring = [keys |-> [x \in Known \cup {k} |->
                                       IF x = k THEN "active" ELSE "decrypt_only"], active |-> a]]
  BY <1>0
<1> DEFINE D == Known \cup {k}
           keys == [x \in D |-> IF x = k THEN "active" ELSE "decrypt_only"]
<1>2. D \in SUBSET KeyIds /\ a \in D /\ keys \in [D -> {"active", "decrypt_only"}]
  BY RingTypes DEF AccessInv, KeyInv
<1>3. env' \in Envs /\ Known' = D /\ env'.ring.active = a
  <2> HIDE DEF D, keys
  <2>1. env' = [env EXCEPT !.ring = [keys |-> keys, active |-> a]]
    BY <1>1 DEF D, keys
  <2> QED
    BY <1>2, <2>1, RingStep
<1>4. UNCHANGED <<now, procs, users, stored, undone, clients>> /\ Known \subseteq Known'
  BY <1>3 DEF RotateKeys
<1> QED
  BY <1>2, <1>3, <1>4, OperatorStep DEF AccessInv, KeyInv, UserInv, StoredInv

LEMMA SetActiveStep == AccessInv /\ SetActive => AccessInv'
<1> SUFFICES ASSUME AccessInv, SetActive PROVE AccessInv'
  OBVIOUS
<1>1. PICK k \in Known : env' = [env EXCEPT !.ring.active = k]
  BY DEF SetActive, ActiveKeys, Known
<1>2. env' = [env EXCEPT !.ring = [keys |-> env.ring.keys, active |-> k]]
  BY <1>1, RingTypes
<1>3. env' \in Envs /\ Known' = Known /\ env'.ring.active = k
  BY <1>2, RingTypes, RingStep
<1>4. UNCHANGED <<now, procs, users, stored, undone, clients>>
  BY DEF SetActive
<1> QED
  BY <1>3, <1>4, OperatorStep DEF AccessInv, KeyInv, UserInv, StoredInv

\* A retired key is the key of nothing stored, and of no process that is up.
LEMMA RetireKeyStep == AccessInv /\ RetireKey => AccessInv'
<1> SUFFICES ASSUME AccessInv, RetireKey PROVE AccessInv'
  OBVIOUS
<1>1. PICK k \in Known \ ActiveKeys(env.ring) :
        /\ \A u \in DOMAIN users : users[u].email.key # k
        /\ \A s \in stored : s.envelope.key # k
        /\ env' = [env EXCEPT !.ring.keys = Restrict(@, DOMAIN @ \ {k})]
  BY DEF RetireKey, Known
<1>2. /\ env.ring.active \in Known \ {k}
      /\ \A p \in Processes : procs[p].up => procs[p].env.ring = env.ring
      /\ UNCHANGED <<now, procs, users, stored, undone, clients>>
  BY <1>1 DEF RetireKey, WellFormed, AccessInv, KeyInv
<1> DEFINE D == Known \ {k}
           keys == [x \in D |-> env.ring.keys[x]]
<1>3. D \in SUBSET KeyIds /\ env.ring.active \in D /\ keys \in [D -> {"active", "decrypt_only"}]
  BY <1>2, RingTypes
<1>4. env' = [env EXCEPT !.ring = [keys |-> keys, active |-> env.ring.active]]
  BY <1>1, RingTypes DEF Restrict, Known
<1>5. env' \in Envs /\ Known' = D /\ env'.ring.active = env.ring.active
  <2> HIDE DEF D, keys
  <2> QED
    BY <1>3, <1>4, RingStep
<1> QED
  BY <1>1, <1>2, <1>3, <1>5, OperatorStep DEF AccessInv, KeyInv, UserInv, StoredInv

LEMMA RotateSecretStep == AccessInv /\ RotateSecret => AccessInv'
<1> SUFFICES ASSUME AccessInv, RotateSecret PROVE AccessInv'
  OBVIOUS
<1>1. env' = [ring |-> env.ring, secret |-> env.secret + 1]
      /\ UNCHANGED <<now, procs, users, stored, undone, clients>>
  BY RingTypes DEF RotateSecret
<1>2. env' \in Envs /\ Known' = Known /\ env'.ring = env.ring
  BY <1>1, RingTypes DEF Envs, Known
<1> QED
  BY <1>1, <1>2, OperatorStep DEF AccessInv, KeyInv, UserInv, StoredInv

LEMMA TickStep == AccessInv /\ Tick => AccessInv'
<1> SUFFICES ASSUME AccessInv, Tick PROVE AccessInv'
  OBVIOUS
<1>1. UNCHANGED <<env, procs, users, stored, undone, clients>> /\ now' = now + 1
  BY DEF Tick
<1>2. TypeInv'
  BY <1>1 DEF AccessInv, TypeInv
<1>4. KeyInv' /\ UserInv' /\ StoredInv'
  BY <1>1 DEF AccessInv, KeyInv, UserInv, StoredInv, Known
<1>3. \A c \in Clients : ClientInv(c)'
  BY <1>1 DEF AccessInv, ClientInv
<1> QED
  BY <1>2, <1>3, <1>4 DEF AccessInv

\* A restart ends the requests in the process.
LEMMA RestartStep ==
  ASSUME AccessInv, NEW p \in Processes, Restart(p)
  PROVE  AccessInv'
<1>1. /\ UNCHANGED <<now, env, users, stored, undone>>
      /\ procs' = [procs EXCEPT ![p] = Started(p, env)]
      /\ procs = [q \in Processes |-> procs[q]]
  BY DEF Restart, AccessInv, TypeInv
<1>2. /\ procs' = [q \in Processes |-> procs'[q]]
      /\ \A q \in Processes : procs'[q] = IF q = p THEN Started(p, env) ELSE procs[q]
  BY <1>1
<1>3. /\ Started(p, env) = [up |-> Started(p, env).up, env |-> Started(p, env).env,
                            table |-> Started(p, env).table]
      /\ Started(p, env).up \in BOOLEAN /\ Started(p, env).env = env
      /\ p \in Apis /\ Started(p, env).up => WellFormed(env.ring)
  BY AccessAssumption DEF Started, WellFormed
<1>4. clients' \in [Clients -> ClientStates]
  <2>1. clients \in [Clients -> ClientStates]
    BY DEF AccessInv, TypeInv
  <2>2. \A c \in Clients : Ended(c) \in ClientStates
    BY EndedShape
  <2> QED
    BY <2>1, <2>2 DEF Restart, Client
<1>5. TypeInv'
  <2>1. \A q \in Processes :
          /\ procs'[q] = [up |-> procs'[q].up, env |-> procs'[q].env, table |-> procs'[q].table]
          /\ procs'[q].up \in BOOLEAN /\ procs'[q].env \in Envs
    <3> TAKE q \in Processes
    <3>1. /\ procs[q] = [up |-> procs[q].up, env |-> procs[q].env, table |-> procs[q].table]
          /\ procs[q].up \in BOOLEAN /\ procs[q].env \in Envs /\ env \in Envs
      BY DEF AccessInv, TypeInv
    <3>2. CASE q = p
      BY <1>2, <1>3, <3>1, <3>2
    <3>3. CASE q # p
      BY <1>2, <3>1, <3>3
    <3> QED
      BY <3>2, <3>3
  <2> QED
    BY <1>1, <1>2, <1>4, <2>1 DEF AccessInv, TypeInv
<1>6. KeyInv' /\ UserInv' /\ StoredInv'
  <2>1. \A q \in Apis : procs'[q].up => WellFormed(procs'[q].env.ring)
    <3> TAKE q \in Apis
    <3>1. CASE q = p
      BY <1>2, <1>3, <3>1 DEF Processes
    <3>2. CASE q # p
      BY <1>2, <3>2 DEF AccessInv, KeyInv, Processes
    <3> QED
      BY <3>1, <3>2
  <2>2. \A q \in Processes : procs'[q].up => procs'[q].env.ring.active \in Known
    <3> TAKE q \in Processes
    <3>1. CASE q = p
      BY <1>2, <1>3, <3>1 DEF AccessInv, KeyInv
    <3>2. CASE q # p
      BY <1>2, <3>2 DEF AccessInv, KeyInv
    <3> QED
      BY <3>1, <3>2
  <2>3. UserInv' /\ StoredInv'
    BY <1>1 DEF AccessInv, UserInv, StoredInv, Known
  <2> QED
    BY <1>1, <2>1, <2>2, <2>3 DEF AccessInv, KeyInv, Known
<1>7. ASSUME NEW c \in Clients
      PROVE  ClientInv(c)'
  <2>1. ClientInv(c)
    BY DEF AccessInv
  <2>2. CASE clients[c].at # "idle" /\ clients[c].proc = p
    <3>1. clients'[c] = Ended(c)
      BY <2>2 DEF Restart, Client
    <3>2. /\ clients'[c].at = "idle" /\ clients'[c].told = None /\ clients'[c].failed = "no"
          /\ clients'[c].token = clients[c].token
      BY <3>1, EndedShape
    <3> QED
      BY <1>1, <2>1, <3>2 DEF ClientInv
  <2>3. CASE ~(clients[c].at # "idle" /\ clients[c].proc = p)
    <3>1. clients'[c] = clients[c]
      BY <2>3 DEF Restart, Client
    <3> QED
      BY <1>1, <1>2, <2>1, <2>3, <3>1 DEF ClientInv, Processes
  <2> QED
    BY <2>2, <2>3
<1> QED
  BY <1>5, <1>6, <1>7 DEF AccessInv

-----------------------------------------------------------------------------
(* The theorems.                                                           *)

LEMMA InitAccess == Init => AccessInv
<1> SUFFICES ASSUME Init PROVE AccessInv
  OBVIOUS
<1>1. PICK k \in KeyIds : env = FirstEnv(k)
  BY DEF Init
<1>2. env = [ring |-> [keys |-> [x \in {k} |-> "active"], active |-> k], secret |-> 1]
  BY <1>1 DEF FirstEnv
<1>3. env \in Envs /\ Known = {k} /\ env.ring.active = k
  <2>1. [x \in {k} |-> "active"] \in [{k} -> {"active", "decrypt_only"}] /\ {k} \in SUBSET KeyIds
    OBVIOUS
  <2> DEFINE ring == [keys |-> [x \in {k} |-> "active"], active |-> k]
  <2>2. ring \in KeyRings /\ ring.active = k /\ DOMAIN ring.keys = {k}
    BY <2>1 DEF KeyRings
  <2> HIDE DEF ring
  <2>3. env = [ring |-> ring, secret |-> 1]
    BY <1>2 DEF ring
  <2> QED
    BY <2>2, <2>3 DEF Envs, Known
<1>4. /\ procs = [p \in Processes |-> procs[p]]
      /\ \A p \in Processes : 
           procs[p] = [up |-> p \in Workers \/ WellFormed(env.ring), env |-> env, table |-> NoBuckets]
  BY DEF Init, Started
<1>5. NewClient \in ClientStates
  BY DEF NewClient, ClientStates
<1>6. TypeInv
  <2>1. \A p \in Processes :
          /\ procs[p] = [up |-> procs[p].up, env |-> procs[p].env, table |-> procs[p].table]
          /\ procs[p].up \in BOOLEAN /\ procs[p].env \in Envs
    <3> TAKE p \in Processes
    <3>1. PICK up \in BOOLEAN : up = (p \in Workers \/ WellFormed(env.ring))
      BY DEF WellFormed
    <3>2. procs[p] = [up |-> up, env |-> env, table |-> NoBuckets]
      BY <1>4, <3>1
    <3> QED
      BY <1>3, <3>2
  <2>2. users \in Seq([address : Addresses, email : Emails])
    BY DEF Init
  <2>3. now \in Nat /\ clients \in [Clients -> ClientStates]
    BY <1>5 DEF Init
  <2> QED
    BY <1>3, <1>4, <2>1, <2>2, <2>3 DEF TypeInv
<1>7. KeyInv /\ UserInv /\ StoredInv
  <2>1. WellFormed(env.ring)
    BY <1>2 DEF WellFormed, ActiveKeys
  <2>2. \A p \in Processes : procs[p].env = env
    BY <1>4
  <2>3. KeyInv
    BY <1>3, <2>1, <2>2 DEF KeyInv, Processes
  <2> QED
    BY <2>3 DEF Init, UserInv, StoredInv
<1>8. \A c \in Clients : ClientInv(c)
  BY DEF Init, ClientInv, NewClient
<1> QED
  BY <1>6, <1>7, <1>8 DEF AccessInv

\* The invariant holds in every reachable state.
THEOREM AccessIsInvariant == Spec => []AccessInv
<1>1. ASSUME AccessInv, [Next]_vars
      PROVE  AccessInv'
  <2>1. CASE UNCHANGED vars
    <3>1. UNCHANGED <<now, env, procs, users, stored, undone, clients>>
      BY <2>1 DEF vars
    <3>2. TypeInv' /\ KeyInv' /\ UserInv' /\ StoredInv'
      BY <1>1, <3>1 DEF AccessInv, TypeInv, KeyInv, UserInv, StoredInv, Known
    <3>3. \A c \in Clients : ClientInv(c)'
      BY <1>1, <3>1 DEF AccessInv, ClientInv
    <3> QED
      BY <3>2, <3>3 DEF AccessInv
  <2>2. ASSUME NEW c \in Clients, Handle(c) \/ \E p \in Apis : Arrive(c, p)
        PROVE  AccessInv'
    BY <1>1, <2>2, AdmitStep, RegisterStep, InsertStep, LoginStep, UploadStep, ArriveStep DEF Handle
  <2>3. ASSUME Operate \/ Tick
        PROVE  AccessInv'
    BY <1>1, <2>3, RotateKeysStep, SetActiveStep, RetireKeyStep, RotateSecretStep, TickStep
       DEF Operate
  <2>4. CASE Next
    BY <1>1, <2>2, <2>3, <2>4, WorkStep, RestartStep DEF Next
  <2> QED
    BY <1>1, <2>1, <2>4
<1> QED
  BY <1>1, InitAccess, PTL DEF Spec

\* Whatever the operator rotates, and whichever processes were not restarted yet or were
\* restarted half way through, a process with the current and complete ring opens
\* everything stored, and no login and no job fails in it for want of a key
\* (EncryptionKeyring._require_key, get_encryption_keyring).
THEOREM StoredStaysReadable == Spec => []StoredIsReadable
<1>1. AccessInv => StoredIsReadable
  BY DEF AccessInv, UserInv, StoredInv, ClientInv, StoredIsReadable, Opens, Known, Client
<1> QED
  BY <1>1, AccessIsInvariant, PTL

\* A value copied to another row, field or user does not open there
\* (build_canonical_aad).
THEOREM CopiesStayRefused == Spec => []CopiesAreRefused
<1>1. ASSUME AccessInv, NEW s \in stored
      PROVE  PlacesWith[s.envelope.aad] = {s.place}
  <2>1. s.place \in Places /\ s.envelope.aad = Aad(s.place)
    BY <1>1, AccessAssumption DEF AccessInv, StoredInv
  <2>2. PlacesWith[Aad(s.place)] = {p \in Places : Aad(p) = Aad(s.place)}
    BY <2>1 DEF PlacesWith
  <2>3. \A p \in Places : Aad(p) = Aad(s.place) => p = s.place
    BY <2>1, PlacesAreDistinct
  <2> QED
    BY <2>1, <2>2, <2>3
<1>2. AccessInv => CopiesAreRefused
  BY <1>1 DEF CopiesAreRefused
<1> QED
  BY <1>2, AccessIsInvariant, PTL

\* However registrations overlap, an address has one account, and tokens are for
\* the account they were asked for (register, authenticate_user).
THEOREM AccountsAreUnique == Spec => []OneAccountPerAddress
<1>1. ASSUME AccessInv, NEW u \in DOMAIN users
      PROVE  Account(users[u].address) = {u}
  BY <1>1 DEF AccessInv, UserInv, Account
<1>2. ASSUME AccessInv, NEW address \in Addresses
      PROVE  Cardinality(Account(address)) <= 1
  <2>1. CASE Account(address) = {}
    <3>1. Cardinality({}) = 0
      BY FS_EmptySet
    <3> QED
      BY <2>1, <3>1
  <2>2. CASE Account(address) # {}
    <3>1. PICK u \in DOMAIN users : users[u].address = address
      BY <2>2 DEF Account
    <3>2. Account(address) = {u}
      BY <1>1, <1>2, <3>1
    <3>3. Cardinality({u}) = 1
      BY FS_Singleton
    <3> QED
      BY <3>2, <3>3
  <2> QED
    BY <2>1, <2>2
<1>3. ASSUME AccessInv, NEW c \in Clients
      PROVE  /\ clients[c].told # None => Account(clients[c].told) # {}
             /\ clients[c].token # None => Account(clients[c].token.address) = {clients[c].token.user}
  <2>1. ClientInv(c)
    BY <1>3 DEF AccessInv
  <2>2. clients[c].told # None => Account(clients[c].told) # {}
    BY <2>1 DEF ClientInv, Account
  <2>3. clients[c].token # None => Account(clients[c].token.address) = {clients[c].token.user}
    BY <1>1, <1>3, <2>1 DEF ClientInv
  <2> QED
    BY <2>2, <2>3
<1>4. AccessInv => OneAccountPerAddress
  BY <1>2, <1>3 DEF OneAccountPerAddress, Client
<1> QED
  BY <1>4, AccessIsInvariant, PTL

-----------------------------------------------------------------------------
(* The window of the limiter: what its operators do to one bucket.         *)

\* The bucket has a time of its own for each of the admitted requests S.
Holds(times, S) == \E f \in [S -> DOMAIN times] :
  /\ \A a, b \in S : f[a] = f[b] => a = b
  /\ \A a \in S : times[f[a]] = a.at

LEMMA HoldsBound ==
  ASSUME NEW times \in Seq(Nat), NEW S, Holds(times, S)
  PROVE  IsFiniteSet(S) /\ Cardinality(S) <= Len(times)
<1>1. PICK f \in [S -> DOMAIN times] : \A a, b \in S : f[a] = f[b] => a = b
  BY DEF Holds
<1>2. Len(times) \in Nat /\ f \in [S -> 1 .. Len(times)]
  OBVIOUS
<1> QED
  BY <1>1, <1>2, InjectionBound

LEMMA HoldsFewer ==
  ASSUME NEW times, NEW S, NEW T \in SUBSET S, Holds(times, S)
  PROVE  Holds(times, T)
<1>1. PICK f \in [S -> DOMAIN times] : /\ \A a, b \in S : f[a] = f[b] => a = b
                                       /\ \A a \in S : times[f[a]] = a.at
  BY DEF Holds
<1> DEFINE g == [a \in T |-> f[a]]
<1>2. g \in [T -> DOMAIN times] /\ (\A a, b \in T : g[a] = g[b] => a = b)
      /\ \A a \in T : times[g[a]] = a.at
  BY <1>1
<1> QED
  BY <1>2 DEF Holds

\* The times that go come first, and none of them is after the cutoff.
LEMMA PopShape ==
  ASSUME NEW times \in Seq(Nat), NEW cutoff \in Int
  PROVE  \E n \in 0 .. Len(times) :
           /\ Pop(times, cutoff) \in Seq(Nat) /\ Len(Pop(times, cutoff)) = Len(times) - n
           /\ \A i \in 1 .. Len(times) : times[i] > cutoff =>
                i > n /\ Pop(times, cutoff)[i - n] = times[i]
<1> DEFINE live == {i \in DOMAIN times : times[i] > cutoff}
<1>1. CASE live = {}
  <2>1. Pop(times, cutoff) = <<>>
    BY <1>1 DEF Pop
  <2>2. Len(times) \in 0 .. Len(times) /\ Len(<<>>) = 0 /\ <<>> \in Seq(Nat)
    OBVIOUS
  <2>3. \A i \in 1 .. Len(times) : ~(times[i] > cutoff)
    BY <1>1
  <2> QED
    BY <2>1, <2>2, <2>3
<1>2. CASE live # {}
  <2> DEFINE m == Min(live)
  <2>1. m \in live /\ \A i \in live : m <= i
    <3>1. live \subseteq Nat
      OBVIOUS
    <3> QED
      BY <1>2, <3>1, SmallestOf
  <2>2. Pop(times, cutoff) = SubSeq(times, m, Len(times))
    BY <1>2 DEF Pop
  <2> HIDE DEF m
  <2>3. m \in 1 .. Len(times) /\ Len(times) \in Nat
    BY <2>1
  <2>4. PICK n \in 0 .. Len(times) : n = m - 1 /\ m = n + 1
    BY <2>3
  <2>5. PICK rest : rest = SubSeq(times, m, Len(times))
    OBVIOUS
  <2>6. /\ rest \in Seq(Nat) /\ Len(rest) = Len(times) - n
        /\ \A j \in 1 .. Len(times) - n : rest[j] = times[j + n]
    <3>1. m \in Int /\ Len(times) \in Int /\ \A i \in m .. Len(times) : times[i] \in Nat
      BY <2>3
    <3>2. /\ rest \in Seq(Nat)
          /\ Len(rest) = IF m <= Len(times) THEN Len(times) - m + 1 ELSE 0
          /\ \A i \in 1 .. Len(times) - m + 1 : rest[i] = times[m + i - 1]
      BY <2>5, <3>1, SubSeqProperties
    <3>3. m <= Len(times) /\ Len(times) - m + 1 = Len(times) - n
      BY <2>3, <2>4
    <3>4. \A j \in 1 .. Len(times) - n : m + j - 1 = j + n
      BY <2>3, <2>4
    <3> QED
      BY <3>2, <3>3, <3>4
  <2>7. /\ Pop(times, cutoff) \in Seq(Nat) /\ Len(Pop(times, cutoff)) = Len(times) - n
        /\ \A i \in 1 .. Len(times) : times[i] > cutoff =>
             i > n /\ Pop(times, cutoff)[i - n] = times[i]
    <3>1. ASSUME NEW i \in 1 .. Len(times), times[i] > cutoff
          PROVE  i > n /\ Pop(times, cutoff)[i - n] = times[i]
      <4>1. m <= i
        BY <2>1, <3>1
      <4>2. i > n /\ i - n \in 1 .. Len(times) - n /\ (i - n) + n = i
        BY <2>4, <4>1
      <4>3. rest[i - n] = times[(i - n) + n]
        BY <2>6, <4>2
      <4> QED
        BY <2>2, <2>5, <4>2, <4>3
    <3> QED
      BY <2>2, <2>5, <2>6, <3>1
  <2> QED
    BY <2>7
<1> QED
  BY <1>1, <1>2

\* Live requests keep their times.
LEMMA PopHolds ==
  ASSUME NEW times \in Seq(Nat), NEW cutoff \in Int, NEW S, Holds(times, S),
         \A a \in S : a.at > cutoff
  PROVE  Holds(Pop(times, cutoff), S)
<1>1. PICK f \in [S -> DOMAIN times] : /\ \A a, b \in S : f[a] = f[b] => a = b
                                       /\ \A a \in S : times[f[a]] = a.at
  BY DEF Holds
<1>2. PICK n \in 0 .. Len(times) :
        /\ Pop(times, cutoff) \in Seq(Nat) /\ Len(Pop(times, cutoff)) = Len(times) - n
        /\ \A i \in 1 .. Len(times) : times[i] > cutoff =>
             i > n /\ Pop(times, cutoff)[i - n] = times[i]
  BY PopShape
<1> DEFINE rest == Pop(times, cutoff)
           g == [a \in S |-> f[a] - n]
<1>3. \A a \in S : f[a] \in 1 .. Len(times) /\ times[f[a]] > cutoff
  BY <1>1
<1>4. \A a \in S : f[a] - n \in DOMAIN rest /\ rest[f[a] - n] = a.at
  <2> HIDE DEF rest
  <2>1. DOMAIN rest = 1 .. Len(times) - n
    BY <1>2 DEF rest
  <2> QED
    BY <1>1, <1>2, <1>3, <2>1 DEF rest
<1>5. \A a, b \in S : f[a] - n = f[b] - n => a = b
  BY <1>1, <1>3
<1> HIDE DEF rest
<1>6. g \in [S -> DOMAIN rest] /\ (\A a, b \in S : g[a] = g[b] => a = b)
      /\ \A a \in S : rest[g[a]] = a.at
  BY <1>4, <1>5
<1> QED
  BY <1>6 DEF Holds, rest

\* A request that is let in gets a time of its own.
LEMMA AppendHolds ==
  ASSUME NEW times \in Seq(Nat), NEW S, Holds(times, S), NEW e, e.at \in Nat
  PROVE  Holds(Append(times, e.at), S \cup {e})
<1>1. PICK f \in [S -> DOMAIN times] : /\ \A a, b \in S : f[a] = f[b] => a = b
                                       /\ \A a \in S : times[f[a]] = a.at
  BY DEF Holds
<1> DEFINE longer == Append(times, e.at)
           n == Len(times) + 1
           g == [a \in S \cup {e} |-> IF a \in S THEN f[a] ELSE n]
<1>2. /\ n \notin DOMAIN times /\ DOMAIN longer = DOMAIN times \cup {n} /\ longer[n] = e.at
      /\ \A i \in DOMAIN times : longer[i] = times[i]
  OBVIOUS
<1> HIDE DEF longer, n
<1>3. g \in [S \cup {e} -> DOMAIN longer] /\ (\A a, b \in S \cup {e} : g[a] = g[b] => a = b)
      /\ \A a \in S \cup {e} : longer[g[a]] = a.at
  BY <1>1, <1>2
<1> QED
  BY <1>3 DEF Holds, longer

-----------------------------------------------------------------------------
(* Tables.                                                                 *)

TableTyped(table) ==
  /\ table = [k \in DOMAIN table |-> table[k]]
  /\ \A k \in DOMAIN table : /\ table[k] = [times |-> table[k].times, older |-> table[k].older]
                             /\ table[k].times \in Seq(Nat)
                             /\ Len(table[k].times) \in 1 .. Limit

LEMMA TimesTyped ==
  ASSUME NEW table, TableTyped(table), NEW key
  PROVE  TimesOf(table, key) \in Seq(Nat) /\ Len(TimesOf(table, key)) \in 0 .. Limit
  BY LimiterAssumption DEF TableTyped, TimesOf

LEMMA PutShape ==
  ASSUME NEW table, TableTyped(table), NEW key,
         NEW times \in Seq(Nat), Len(times) \in 1 .. Limit
  PROVE  /\ TableTyped(Put(table, key, times))
         /\ TimesOf(Put(table, key, times), key) = times
         /\ \A k : k # key => TimesOf(Put(table, key, times), k) = TimesOf(table, k)
<1> DEFINE older == IF key \in DOMAIN table THEN table[key].older ELSE DOMAIN table
           put == Put(table, key, times)
<1>1. put = [k \in DOMAIN table \cup {key} |-> IF k # key THEN table[k]
                                              ELSE [times |-> times, older |-> older]]
  BY DEF Put
<1> HIDE DEF older, put
<1>2. TableTyped(put) /\ DOMAIN put = DOMAIN table \cup {key}
      /\ \A k \in DOMAIN put : put[k].times = IF k = key THEN times ELSE table[k].times
  BY <1>1 DEF TableTyped
<1>3. TimesOf(put, key) = times /\ \A k : k # key => TimesOf(put, k) = TimesOf(table, k)
  BY <1>2 DEF TimesOf
<1> QED
  BY <1>2, <1>3 DEF put

\* What _remove_expired leaves is as it was; the rest is lost or has no live times.
LEMMA ShrinkShape ==
  ASSUME NEW table, TableTyped(table), NEW cutoff \in Int
  PROVE  /\ TableTyped(Shrink(table, cutoff))
         /\ \A k \in DOMAIN Shrink(table, cutoff) :
              k \in DOMAIN table /\ Shrink(table, cutoff)[k].times = table[k].times
         /\ Cardinality(DOMAIN table) <= MaxBuckets => Shrink(table, cutoff) = table
         /\ ~(Cardinality(DOMAIN table) <= MaxBuckets) =>
              \A k \in DOMAIN table \ DOMAIN Shrink(table, cutoff) :
                \/ k \in Surplus(table, cutoff) \cup Disordered(table, cutoff)
                \/ \A i \in DOMAIN table[k].times : table[k].times[i] <= cutoff
<1> DEFINE kept == Unexpired(table, cutoff) \ Surplus(table, cutoff)
           left == [k \in kept |-> [table[k] EXCEPT !.older = @ \cap kept]]
<1>1. CASE Cardinality(DOMAIN table) <= MaxBuckets
  <2>1. Shrink(table, cutoff) = table
    BY <1>1 DEF Shrink
  <2> QED
    BY <1>1, <2>1
<1>2. CASE ~(Cardinality(DOMAIN table) <= MaxBuckets)
  <2>1. Shrink(table, cutoff) = left
    BY <1>2 DEF Shrink
  <2>2. kept \subseteq DOMAIN table
    BY DEF Unexpired
  <2>3. TableTyped(left) /\ DOMAIN left = kept /\ \A k \in kept : left[k].times = table[k].times
    <3> HIDE DEF kept
    <3>1. ASSUME NEW k \in kept
          PROVE  /\ left[k] = [times |-> left[k].times, older |-> left[k].older]
                 /\ left[k].times = table[k].times
      <4>1. table[k] = [times |-> table[k].times, older |-> table[k].older]
        BY <2>2 DEF TableTyped
      <4>2. left[k] = [times |-> table[k].times, older |-> table[k].older \cap kept]
        BY <4>1
      <4> QED
        BY <4>2
    <3>2. DOMAIN left = kept /\ left = [k \in DOMAIN left |-> left[k]]
      OBVIOUS
    <3> HIDE DEF left
    <3> QED
      BY <2>2, <3>1, <3>2 DEF TableTyped
  <2>4. ASSUME NEW k \in DOMAIN table \ kept
        PROVE  \/ k \in Surplus(table, cutoff) \cup Disordered(table, cutoff)
               \/ \A i \in DOMAIN table[k].times : table[k].times[i] <= cutoff
    <3>1. CASE k \in Surplus(table, cutoff)
      BY <3>1
    <3>2. CASE k \notin Unexpired(table, cutoff)
      <4> DEFINE times == table[k].times
      <4>1. times \in Seq(Nat) /\ times[Len(times)] <= cutoff
        BY <3>2 DEF Unexpired, Expired, TableTyped
      <4>2. CASE \E i \in DOMAIN times : times[i] > cutoff
        BY <4>1, <4>2 DEF Disordered
      <4>3. CASE \A i \in DOMAIN times : ~(times[i] > cutoff)
        BY <4>1, <4>3
      <4> QED
        BY <4>2, <4>3
    <3> QED
      BY <3>1, <3>2
  <2> HIDE DEF left, kept
  <2> QED
    BY <1>2, <2>1, <2>2, <2>3, <2>4
<1> QED
  BY <1>1, <1>2

\* A decision of the limiter: a bucket is lost, or had no live times, or has the times it
\* had, that of the key without the old ones and with the new one.
LEMMA CheckShape ==
  ASSUME NEW table, TableTyped(table), NEW key, NEW t \in Nat
  PROVE  LET check == Check(table, key, t)
             rest == Pop(TimesOf(table, key), t - Window)
             times == IF check.allowed THEN Append(rest, t) ELSE rest
             Lost(k, old) == k \in check.lost \/ \A i \in DOMAIN old : old[i] <= t - Window IN
         /\ TableTyped(check.table) /\ check.allowed \in BOOLEAN
         /\ rest \in Seq(Nat) /\ (~check.allowed => check.lost = {})
         /\ TimesOf(check.table, key) = times \/ Lost(key, times)
         /\ \A k : k # key => TimesOf(check.table, k) = TimesOf(table, k) \/ Lost(k, TimesOf(table, k))
<1> DEFINE check == Check(table, key, t)
           rest == Pop(TimesOf(table, key), t - Window)
           new == Append(rest, t)
           cutoff == t - Window
<1>1. rest \in Seq(Nat) /\ Len(rest) \in 0 .. Limit /\ cutoff \in Int
  <2>1. TimesOf(table, key) \in Seq(Nat) /\ Len(TimesOf(table, key)) \in 0 .. Limit
        /\ cutoff \in Int
    BY TimesTyped, LimiterAssumption
  <2>2. PICK n \in 0 .. Len(TimesOf(table, key)) :
          rest \in Seq(Nat) /\ Len(rest) = Len(TimesOf(table, key)) - n
    BY <2>1, PopShape
  <2> QED
    BY <2>1, <2>2, LimiterAssumption
<1>2. CASE Len(rest) >= Limit
  <2>1. check = [allowed |-> FALSE, table |-> Put(table, key, rest), lost |-> {}]
    BY <1>2 DEF Check
  <2>2. Len(rest) \in 1 .. Limit
    BY <1>1, <1>2, LimiterAssumption
  <2> HIDE DEF check, rest
  <2>3. /\ TableTyped(Put(table, key, rest)) /\ TimesOf(Put(table, key, rest), key) = rest
        /\ \A k : k # key => TimesOf(Put(table, key, rest), k) = TimesOf(table, k)
    <3>1. TableTyped(Put(table, key, rest))
      BY <1>1, <2>2, PutShape
    <3>2. TimesOf(Put(table, key, rest), key) = rest
      BY <1>1, <2>2, PutShape
    <3>3. \A k : k # key => TimesOf(Put(table, key, rest), k) = TimesOf(table, k)
      BY <1>1, <2>2, PutShape
    <3> QED
      BY <3>1, <3>2, <3>3
  <2> QED
    BY <1>1, <2>1, <2>3 DEF check, rest
<1>3. CASE ~(Len(rest) >= Limit)
  <2> DEFINE longer == Put(table, key, new)
             left == Shrink(longer, cutoff)
  <2>1. check = [allowed |-> TRUE, table |-> left,
                 lost |-> IF Cardinality(DOMAIN longer) <= MaxBuckets THEN {}
                          ELSE Surplus(longer, cutoff) \cup Disordered(longer, cutoff)]
    BY <1>3 DEF Check
  <2>2. new \in Seq(Nat) /\ Len(new) \in 1 .. Limit
    BY <1>1, <1>3, LimiterAssumption
  <2> HIDE DEF check, rest, new, cutoff
  <2>3. /\ TableTyped(longer) /\ TimesOf(longer, key) = new
        /\ \A k : k # key => TimesOf(longer, k) = TimesOf(table, k)
    <3>1. TableTyped(longer)
      BY <2>2, PutShape
    <3>2. TimesOf(longer, key) = new
      BY <2>2, PutShape
    <3>3. \A k : k # key => TimesOf(longer, k) = TimesOf(table, k)
      BY <2>2, PutShape
    <3> QED
      BY <3>1, <3>2, <3>3
  <2> HIDE DEF longer
  <2>4. /\ TableTyped(left)
        /\ \A k \in DOMAIN left : k \in DOMAIN longer /\ left[k].times = longer[k].times
        /\ Cardinality(DOMAIN longer) <= MaxBuckets => left = longer
        /\ ~(Cardinality(DOMAIN longer) <= MaxBuckets) =>
             \A k \in DOMAIN longer \ DOMAIN left :
               \/ k \in Surplus(longer, cutoff) \cup Disordered(longer, cutoff)
               \/ \A i \in DOMAIN longer[k].times : longer[k].times[i] <= cutoff
    BY <1>1, <2>3, ShrinkShape
  <2> HIDE DEF left
  <2>5. check.allowed = TRUE /\ check.table = left
    BY <2>1
  <2>6. \A k : \/ TimesOf(left, k) = TimesOf(longer, k)
               \/ k \in check.lost
               \/ \A i \in DOMAIN TimesOf(longer, k) : TimesOf(longer, k)[i] <= cutoff
    <3>1. CASE Cardinality(DOMAIN longer) <= MaxBuckets
      BY <2>4, <3>1
    <3>2. CASE ~(Cardinality(DOMAIN longer) <= MaxBuckets)
      <4>1. check.lost = Surplus(longer, cutoff) \cup Disordered(longer, cutoff)
        BY <2>1, <3>2
      <4> QED
        BY <2>4, <3>2, <4>1 DEF TimesOf
    <3> QED
      BY <3>1, <3>2
  <2>7. \/ TimesOf(left, key) = new \/ key \in check.lost
        \/ \A i \in DOMAIN new : new[i] <= cutoff
    BY <2>3, <2>6
  <2>8. \A k : k # key => \/ TimesOf(left, k) = TimesOf(table, k) \/ k \in check.lost
                          \/ \A i \in DOMAIN TimesOf(table, k) : TimesOf(table, k)[i] <= cutoff
    BY <2>3, <2>6
  <2> QED
    BY <1>1, <2>4, <2>5, <2>7, <2>8 DEF check, rest, new, cutoff
<1> QED
  BY <1>2, <1>3

\* What is left of a bucket serves what is left of its requests.
LEMMA HoldsAfter ==
  ASSUME NEW old, NEW E, Holds(old, E), NEW cutoff, \A a \in E : a.at > cutoff,
         NEW times, NEW S \in SUBSET E,
         times = old \/ S = {} \/ \A i \in DOMAIN old : ~(old[i] > cutoff)
  PROVE  Holds(times, S)
<1>1. CASE times = old
  BY <1>1, HoldsFewer
<1>2. CASE S = {}
  <2>1. [a \in S |-> 0] \in [S -> DOMAIN times]
    BY <1>2
  <2> QED
    BY <1>2, <2>1 DEF Holds
<1>3. CASE \A i \in DOMAIN old : ~(old[i] > cutoff)
  <2>1. PICK f \in [E -> DOMAIN old] : \A a \in E : old[f[a]] = a.at
    BY DEF Holds
  <2>2. S = {}
    BY <1>3, <2>1
  <2> QED
    BY <1>2, <2>2
<1> QED
  BY <1>1, <1>2, <1>3

-----------------------------------------------------------------------------
(* The windows of all processes.                                           *)

\* The requests of a key in the window of p that were let in and not lost.
Live(p, k) == {a \in admitted[p] : a.key = k /\ a.at > now - Window}

\* Requests alike are told apart, and a bucket has a time of its own for every live one.
WindowInv(p) ==
  /\ TableTyped(procs[p].table)
  /\ IsFiniteSet(admitted[p])
  /\ \A a \in admitted[p] : /\ a.at \in Nat /\ a.nth \in Nat
                            /\ a.nth <= Cardinality(Alike(p, a.key, a.at))
  /\ \A k : Holds(TimesOf(procs[p].table, k), Live(p, k))

\* No clock was read in the future.
ClockInv == \A c \in Clients : clients[c].since <= now

LimiterInv ==
  /\ AccessInv /\ ClockInv
  /\ admitted = [p \in Apis |-> admitted[p]]
  /\ \A p \in Apis : WindowInv(p)

LEMMA WindowSame ==
  ASSUME NEW p \in Apis, WindowInv(p), now' = now, procs'[p].table = procs[p].table,
         admitted'[p] = admitted[p]
  PROVE  WindowInv(p)'
<1>1. (\A k : Live(p, k)' = Live(p, k)) /\ \A k, t : Alike(p, k, t)' = Alike(p, k, t)
  BY DEF Live, Alike
<1> QED
  BY <1>1 DEF WindowInv

\* Requests go by key, or by time, and none is left of those alike one that went.
LEMMA WindowFewer ==
  ASSUME NEW p \in Apis, WindowInv(p), NEW S \in SUBSET admitted[p],
         \A a \in S : \A b \in Alike(p, a.key, a.at) : b \in S,
         admitted'[p] = S
  PROVE  /\ IsFiniteSet(admitted'[p])
         /\ \A a \in admitted'[p] : /\ a.at \in Nat /\ a.nth \in Nat
                                    /\ a.nth <= Cardinality(Alike(p, a.key, a.at)')
<1>1. IsFiniteSet(S)
  BY FS_Subset DEF WindowInv
<1>2. \A a \in S : Alike(p, a.key, a.at)' = Alike(p, a.key, a.at)
  BY DEF Alike
<1> QED
  BY <1>1, <1>2 DEF WindowInv

LEMMA TickWindow ==
  ASSUME LimiterInv, Tick, NEW p \in Apis
  PROVE  WindowInv(p)'
<1> DEFINE S == {a \in admitted[p] : a.at > now + 1 - Window}
<1>1. /\ WindowInv(p) /\ procs' = procs /\ now' = now + 1 /\ now \in Nat
      /\ admitted'[p] = S
  BY DEF LimiterInv, Tick, AccessInv, TypeInv
<1>2. \A a \in S : \A b \in Alike(p, a.key, a.at) : b \in S
  BY DEF Alike
<1>3. /\ IsFiniteSet(admitted'[p])
      /\ \A a \in admitted'[p] : /\ a.at \in Nat /\ a.nth \in Nat
                                 /\ a.nth <= Cardinality(Alike(p, a.key, a.at)')
  <2> HIDE DEF S
  <2>1. S \in SUBSET admitted[p]
    BY DEF S
  <2> QED
    BY <1>1, <1>2, <2>1, WindowFewer
<1>4. ASSUME NEW k
      PROVE  Holds(TimesOf(procs'[p].table, k), Live(p, k)')
  <2>1. Live(p, k)' \subseteq Live(p, k)
    BY <1>1, LimiterAssumption DEF Live, WindowInv
  <2>2. Holds(TimesOf(procs[p].table, k), Live(p, k))
    BY <1>1 DEF WindowInv
  <2> QED
    BY <1>1, <2>1, <2>2, HoldsFewer
<1> QED
  BY <1>1, <1>3, <1>4 DEF WindowInv

\* A process that was started has let in nothing.
LEMMA StartedWindow ==
  TableTyped(NoBuckets) /\ IsFiniteSet({}) /\ \A times : Holds(times, {})
<1>1. TableTyped(NoBuckets)
  BY DEF NoBuckets, TableTyped
<1>2. ASSUME NEW times
      PROVE  Holds(times, {})
  <2>1. [a \in {} |-> 0] \in [{} -> DOMAIN times]
    OBVIOUS
  <2> QED
    BY <2>1 DEF Holds
<1> QED
  BY <1>1, <1>2, FS_EmptySet

\* The number of a request that is let in is new.
LEMMA AdmissionIsNew ==
  ASSUME NEW c \in Clients, clients[c].proc \in Apis, WindowInv(clients[c].proc)
  PROVE  /\ Admission(c) \notin admitted[clients[c].proc]
         /\ Admission(c).nth \in Nat
         /\ IsFiniteSet(Alike(clients[c].proc, LimitKey(c), clients[c].since))
<1> DEFINE p == clients[c].proc
           alike == Alike(p, LimitKey(c), clients[c].since)
<1>1. IsFiniteSet(alike) /\ Cardinality(alike) \in Nat
  <2>1. IsFiniteSet(admitted[p]) /\ alike \in SUBSET admitted[p]
    BY DEF WindowInv, Alike
  <2> HIDE DEF alike, p
  <2> QED
    BY <2>1, FS_Subset, FS_CardinalityType
<1>2. /\ Admission(c).key = LimitKey(c) /\ Admission(c).at = clients[c].since
      /\ Admission(c).nth = Cardinality(alike) + 1
  BY DEF Admission, Client
<1>3. ASSUME Admission(c) \in admitted[p]
      PROVE  FALSE
  <2>1. Admission(c).nth <= Cardinality(alike)
    BY <1>2, <1>3 DEF WindowInv
  <2> HIDE DEF alike
  <2> QED
    BY <1>1, <1>2, <2>1
<1> HIDE DEF alike
<1> QED
  BY <1>1, <1>2, <1>3 DEF alike

\* A request is let in: what stays of those alike stays together, with one more.
LEMMA AdmitAlike ==
  ASSUME NEW c \in Clients, NEW p \in Apis, p = clients[c].proc, WindowInv(p),
         clients[c].since \in Nat, NEW lost,
         admitted'[p] = {a \in admitted[p] \cup {Admission(c)} :
                           a.key \notin lost /\ a.at > now - Window}
  PROVE  /\ IsFiniteSet(admitted'[p])
         /\ \A a \in admitted'[p] : /\ a.at \in Nat /\ a.nth \in Nat
                                    /\ a.nth <= Cardinality(Alike(p, a.key, a.at)')
<1> DEFINE e == Admission(c)
           alike == Alike(p, LimitKey(c), clients[c].since)
<1>1. /\ e \notin admitted[p] /\ e.nth \in Nat /\ IsFiniteSet(alike)
      /\ e.key = LimitKey(c) /\ e.at = clients[c].since /\ e.nth = Cardinality(alike) + 1
  BY AdmissionIsNew DEF Admission, Client
<1> HIDE DEF e
<1>2. IsFiniteSet(admitted'[p])
  <2>1. IsFiniteSet(admitted[p] \cup {e})
    BY FS_AddElement DEF WindowInv
  <2>2. admitted'[p] \in SUBSET (admitted[p] \cup {e})
    BY DEF e
  <2> QED
    BY <2>1, <2>2, FS_Subset
<1>3. ASSUME NEW a \in admitted'[p]
      PROVE  a.at \in Nat /\ a.nth \in Nat /\ a.nth <= Cardinality(Alike(p, a.key, a.at)')
  <2>1. CASE a.key = e.key /\ a.at = e.at
    <3>1. Alike(p, a.key, a.at)' = alike \cup {e}
      BY <1>1, <2>1, <1>3 DEF Alike, e
    <3>2. e \notin alike
      BY <1>1 DEF Alike
    <3>3. Cardinality(alike \cup {e}) = Cardinality(alike) + 1 /\ Cardinality(alike) \in Nat
      <4> HIDE DEF alike
      <4> QED
        BY <1>1, <3>2, FS_AddElement, FS_CardinalityType
    <3>4. a.nth \in Nat /\ a.nth <= Cardinality(alike) + 1
      <4>1. CASE a = e
        BY <1>1, <4>1
      <4>2. CASE a \in admitted[p]
        BY <1>1, <2>1, <3>3, <4>2 DEF WindowInv
      <4> QED
        BY <4>1, <4>2, <1>3 DEF e
    <3> QED
      BY <1>1, <2>1, <3>1, <3>3, <3>4
  <2>2. CASE ~(a.key = e.key /\ a.at = e.at)
    <3>1. a \in admitted[p]
      BY <1>3, <2>2 DEF e
    <3>2. Alike(p, a.key, a.at)' = Alike(p, a.key, a.at)
      BY <1>3, <2>2 DEF Alike, e
    <3> QED
      BY <3>1, <3>2 DEF WindowInv
  <2> QED
    BY <2>1, <2>2
<1> QED
  BY <1>2, <1>3

\* The limiter decides on a request.
LEMMA AdmitWindow ==
  ASSUME LimiterInv, NEW c \in Clients, Admit(c), NEW p \in Apis
  PROVE  WindowInv(p)'
<1> DEFINE q == clients[c].proc
           t == clients[c].since
           key == LimitKey(c)
           check == Check(procs[q].table, key, t)
<1>1. /\ q \in Apis /\ t \in Nat /\ t <= now /\ now \in Nat /\ now' = now /\ WindowInv(p)
      /\ procs = [r \in Processes |-> procs[r]] /\ q \in Processes /\ p \in Processes
      /\ admitted = [r \in Apis |-> admitted[r]]
  <2>1. clients[c].at = "limit" /\ ClientInv(c) /\ clients[c] \in ClientStates /\ now' = now
    BY DEF Admit, Client, LimiterInv, AccessInv, TypeInv
  <2> QED
    BY <2>1 DEF LimiterInv, AccessInv, TypeInv, ClientInv, ClientStates, Processes, ClockInv
<1>2. /\ procs' = [procs EXCEPT ![q].table = check.table]
      /\ \/ check.allowed /\ admitted' = [admitted EXCEPT ![q] =
              {a \in @ \cup {Admission(c)} : a.key \notin check.lost /\ a.at > now - Window}]
         \/ ~check.allowed /\ admitted' = admitted
  BY DEF Admit, Client
<1> HIDE DEF check
<1>3. CASE p # q
  <2>1. procs'[p] = procs[p] /\ admitted'[p] = admitted[p]
    BY <1>1, <1>2, <1>3
  <2> QED
    BY <1>1, <2>1, WindowSame
<1>4. CASE p = q
  <2> DEFINE table == procs[q].table
             cutoff == t - Window
             rest == Pop(TimesOf(table, key), cutoff)
             times == IF check.allowed THEN Append(rest, t) ELSE rest
             Lost(k, old) == k \in check.lost \/ \A i \in DOMAIN old : old[i] <= cutoff
  <2>1. /\ TableTyped(check.table) /\ check.allowed \in BOOLEAN
        /\ TimesOf(check.table, key) = times \/ Lost(key, times)
        /\ \A k : k # key => TimesOf(check.table, k) = TimesOf(table, k)
                             \/ Lost(k, TimesOf(table, k))
    <3>1. TableTyped(table)
      BY <1>1, <1>4 DEF WindowInv
    <3> HIDE DEF table, key, t
    <3> QED
      BY <1>1, <3>1, CheckShape DEF check, table, key, t
  <2>6. rest \in Seq(Nat) /\ (~check.allowed => check.lost = {})
    <3>1. TableTyped(table)
      BY <1>1, <1>4 DEF WindowInv
    <3> HIDE DEF table, key, t
    <3> QED
      BY <1>1, <3>1, CheckShape DEF check, table, key, t
  <2>2. /\ procs'[p].table = check.table /\ cutoff \in Int
        /\ cutoff <= now - Window
    <3>1. procs'[q] = [procs[q] EXCEPT !.table = check.table]
      BY <1>1, <1>2
    <3>2. procs[q] = [up |-> procs[q].up, env |-> procs[q].env, table |-> procs[q].table]
      BY <1>1 DEF LimiterInv, AccessInv, TypeInv
    <3> QED
      BY <1>1, <1>4, <3>1, <3>2, LimiterAssumption
  <2> DEFINE E(k) == IF k = key /\ check.allowed THEN Live(p, k) \cup {Admission(c)} ELSE Live(p, k)
  <2>3. /\ \A k : Live(p, k)' \subseteq E(k)
        /\ \A k : k \in check.lost => Live(p, k)' = {}
        /\ \A k : \A a \in E(k) : a.at > cutoff
    <3>1. Admission(c).key = key /\ Admission(c).at = t /\ t > cutoff
      BY <1>1, LimiterAssumption DEF Admission, Client
    <3>2. \A a \in admitted[p] : a.at \in Nat
      BY <1>1 DEF WindowInv
    <3>3. \A k : \A a \in E(k) : a.at > cutoff
      BY <1>1, <2>2, <3>1, <3>2, LimiterAssumption DEF Live
    <3>4. CASE check.allowed
      <4>1. admitted'[p] = {a \in admitted[p] \cup {Admission(c)} :
                              a.key \notin check.lost /\ a.at > now - Window}
        BY <1>1, <1>2, <1>4, <3>4
      <4>2. (\A k : Live(p, k)' \subseteq E(k)) /\ \A k : k \in check.lost => Live(p, k)' = {}
        <5> HIDE DEF key
        <5> QED
          BY <1>1, <3>1, <3>4, <4>1 DEF Live
      <4> QED
        BY <3>3, <4>2
    <3>5. CASE ~check.allowed
      <4>1. \A k : Live(p, k)' = Live(p, k)
        BY <1>1, <1>2, <3>5 DEF Live
      <4> QED
        BY <2>6, <3>3, <3>5, <4>1
    <3> QED
      BY <3>4, <3>5
  <2>4. ASSUME NEW k
        PROVE  Holds(TimesOf(check.table, k), Live(p, k)')
    <3>1. Holds(TimesOf(table, k), Live(p, k)) /\ TimesOf(table, k) \in Seq(Nat)
      <4>1. TableTyped(table)
        BY <1>1, <1>4 DEF WindowInv
      <4> QED
        BY <1>1, <1>4, <4>1, TimesTyped DEF WindowInv
    <3>2. \A a \in Live(p, k) : a.at > cutoff
      BY <2>3
    <3> DEFINE old == IF k = key THEN times ELSE TimesOf(table, k)
    <3>3. Holds(old, E(k)) /\ old \in Seq(Nat)
      <4>1. CASE k # key
        BY <3>1, <4>1
      <4>2. CASE k = key
        <5> HIDE DEF cutoff, table
        <5>1. Holds(rest, Live(p, k))
          BY <2>2, <3>1, <3>2, <4>2, PopHolds
        <5>2. Admission(c).at = t
          BY DEF Admission, Client
        <5> HIDE DEF rest
        <5>3. Holds(Append(rest, t), Live(p, k) \cup {Admission(c)}) /\ Append(rest, t) \in Seq(Nat)
          <6>1. Admission(c).at \in Nat
            BY <1>1, <5>2
          <6>2. Holds(Append(rest, Admission(c).at), Live(p, k) \cup {Admission(c)})
            BY <2>6, <5>1, <6>1, AppendHolds
          <6> QED
            BY <1>1, <2>6, <5>2, <6>2
        <5>4. CASE check.allowed
          BY <4>2, <5>3, <5>4
        <5>5. CASE ~check.allowed
          BY <2>6, <4>2, <5>1, <5>5
        <5> QED
          BY <5>4, <5>5
      <4> QED
        BY <4>1, <4>2
    <3>4. \/ TimesOf(check.table, k) = old \/ Live(p, k)' = {}
          \/ \A i \in DOMAIN old : ~(old[i] > cutoff)
      <4>1. TimesOf(check.table, k) = old \/ Lost(k, old)
        <5>1. CASE k = key
          BY <2>1, <5>1
        <5>2. CASE k # key
          BY <2>1, <5>2
        <5> QED
          BY <5>1, <5>2
      <4> HIDE DEF old, cutoff
      <4>2. \A i \in DOMAIN old : old[i] <= cutoff => ~(old[i] > cutoff)
        BY <2>2, <3>3
      <4> QED
        BY <2>3, <4>1, <4>2
    <3>5. Live(p, k)' \in SUBSET E(k) /\ \A a \in E(k) : a.at > cutoff
      BY <2>3
    <3> HIDE DEF old, E, cutoff
    <3> QED
      BY <3>3, <3>4, <3>5, HoldsAfter
  <2>5. /\ IsFiniteSet(admitted'[p])
        /\ \A a \in admitted'[p] : /\ a.at \in Nat /\ a.nth \in Nat
                                   /\ a.nth <= Cardinality(Alike(p, a.key, a.at)')
    <3>1. CASE check.allowed
      <4>1. admitted'[p] = {a \in admitted[p] \cup {Admission(c)} :
                              a.key \notin check.lost /\ a.at > now - Window}
        BY <1>1, <1>2, <1>4, <3>1
      <4> QED
        BY <1>1, <1>4, <4>1, AdmitAlike, ZenonT(40)
    <3>2. CASE ~check.allowed
      <4>1. admitted' = admitted /\ \A k, u : Alike(p, k, u)' = Alike(p, k, u)
        BY <1>2, <3>2 DEF Alike
      <4> QED
        BY <1>1, <4>1 DEF WindowInv
    <3> QED
      BY <3>1, <3>2
  <2> QED
    BY <2>1, <2>2, <2>4, <2>5, SMTT(30) DEF WindowInv
<1> QED
  BY <1>3, <1>4

-----------------------------------------------------------------------------
(* The clock is read at most now, and the theorem.                         *)

\* A client whose clock was read at most now, if it was read at all.
Reads(c) == clients'[c].since \in {0, now, clients[c].since}

LEMMA EndsReads ==
  ASSUME AccessInv, NEW c \in Clients, NEW h, clients' = [clients EXCEPT ![c] = h],
         h.since \in {0, now, clients[c].since}
  PROVE  \A d \in Clients : Reads(d)
<1>1. \A d \in Clients : clients'[d] = IF d = c THEN h ELSE clients[d]
  BY DEF AccessInv, TypeInv
<1> QED
  BY <1>1 DEF Reads

LEMMA RequestReads ==
  ASSUME AccessInv, NEW c \in Clients, Handle(c) \/ \E p \in Apis : Arrive(c, p)
  PROVE  \A d \in Clients : Reads(d)
<1> DEFINE e == Ended(c)
           r == clients[c]
<1>1. /\ e = [at |-> "idle", proc |-> None, what |-> "none", address |-> None, since |-> 0,
              email |-> None, token |-> clients[c].token, told |-> None, failed |-> "no"]
      /\ r \in ClientStates
  BY EndedShape DEF AccessInv, TypeInv
<1>2. /\ \A x, y, z, u : [e EXCEPT !.at = x, !.proc = y, !.what = z, !.address = u, !.since = now].since = now
      /\ e.since = 0 /\ \A x : [e EXCEPT !.told = x].since = 0 /\ [e EXCEPT !.failed = x].since = 0
                               /\ [e EXCEPT !.token = x].since = 0
      /\ \A x, y : [r EXCEPT !.at = x].since = r.since /\ [r EXCEPT !.at = x, !.email = y].since = r.since
  BY <1>1 DEF ClientStates
<1> HIDE DEF e
<1>3. CASE Ends(c)
  BY <1>2, <1>3, EndsReads DEF Ends, e
<1>4. CASE HasAccount(c)
  BY <1>2, <1>4, EndsReads DEF HasAccount, e
<1>5. CASE Fails(c)
  BY <1>2, <1>5, EndsReads DEF Fails, e
<1>6. CASE \E p \in Apis : Arrive(c, p)
  <2>1. PICK p \in Apis : Arrive(c, p)
    BY <1>6
  <2>2. CASE ~Ends(c)
    <3>1. PICK what \in {"register", "login", "upload"}, address \in Addresses :
            clients' = [clients EXCEPT ![c] =
              [e EXCEPT !.at = "limit", !.proc = p, !.what = what,
                        !.address = address, !.since = now]]
      BY <2>1, <2>2 DEF Arrive, e
    <3> DEFINE h == [e EXCEPT !.at = "limit", !.proc = p, !.what = what,
                              !.address = address, !.since = now]
    <3>2. h.since = now
      BY <1>2
    <3> HIDE DEF h
    <3>3. clients' = [clients EXCEPT ![c] = h]
      BY <3>1 DEF h
    <3> QED
      BY <3>2, <3>3, EndsReads
  <2> QED
    BY <1>3, <2>2
<1>7. CASE Admit(c)
  <2>1. CASE ~Ends(c)
    <3>1. clients' = [clients EXCEPT ![c] = [r EXCEPT !.at = "handle"]]
      BY <1>7, <2>1 DEF Admit
    <3> QED
      BY <1>2, <3>1, EndsReads
  <2> QED
    BY <1>3, <2>1
<1>8. CASE Register(c)
  <2>1. CASE ~HasAccount(c)
    <3>1. clients' = [clients EXCEPT ![c] = [r EXCEPT !.at = "insert", !.email = Ring(c)]]
      BY <1>8, <2>1 DEF Register
    <3> QED
      BY <1>2, <3>1, EndsReads
  <2> QED
    BY <1>4, <2>1
<1>9. CASE Insert(c) \/ Upload(c)
  BY <1>3, <1>4, <1>9 DEF Insert, Upload
<1>10. CASE Login(c)
  <2>1. CASE ~Ends(c) /\ ~Fails(c)
    <3>1. PICK u : clients' = [clients EXCEPT ![c] = [e EXCEPT !.token = u]]
      BY <1>10, <2>1 DEF Login, e
    <3> QED
      BY <1>2, <3>1, EndsReads
  <2> QED
    BY <1>3, <1>5, <2>1
<1> QED
  BY <1>6, <1>7, <1>8, <1>9, <1>10 DEF Handle

LEMMA RestartReads ==
  ASSUME AccessInv, NEW p \in Processes, Restart(p)
  PROVE  \A d \in Clients : Reads(d)
<1>1. \A d \in Clients : clients'[d] \in {Ended(d), clients[d]}
  BY DEF Restart, Client
<1>2. \A d \in Clients : Ended(d).since = 0
  BY EndedShape
<1> QED
  BY <1>1, <1>2 DEF Reads

\* A request reads the clock at most now.
LEMMA ClockStep ==
  ASSUME AccessInv, ClockInv, [Next]_vars
  PROVE  ClockInv'
<1>1. now \in Nat /\ now' \in Nat /\ now <= now'
  <2>1. now' = now \/ Tick
    BY DEF Next, vars, Handle, Operate, Arrive, Admit, Register, Insert, Login, Upload, Work,
           Restart, RotateKeys, SetActive, RetireKey, RotateSecret
  <2>2. now \in Nat /\ (now' = now \/ now' = now + 1)
    BY <2>1 DEF AccessInv, TypeInv, Tick
  <2> QED
    BY <2>2, SMTT(30)
<1>2. (\A d \in Clients : Reads(d)) \/ UNCHANGED clients
  <2>1. CASE \E c \in Clients : Handle(c) \/ \E p \in Apis : Arrive(c, p)
    BY <2>1, RequestReads
  <2>2. CASE \E p \in Processes : Restart(p)
    BY <2>2, RestartReads
  <2> QED
    BY <2>1, <2>2 DEF Next, vars, Work, Operate, RotateKeys, SetActive, RetireKey, RotateSecret, Tick
<1>3. \A d \in Clients : clients[d].since \in Nat /\ clients[d].since <= now
  BY DEF AccessInv, TypeInv, ClientStates, ClockInv
<1>4. ASSUME NEW d \in Clients PROVE clients'[d].since <= now'
  <2>1. clients'[d].since \in {0, now, clients[d].since}
    BY <1>2 DEF Reads
  <2> QED
    BY <1>1, <1>3, <2>1
<1> QED
  BY <1>4 DEF ClockInv

LEMMA InitWindow == Init => LimiterInv
<1> SUFFICES ASSUME Init PROVE LimiterInv
  OBVIOUS
<1>1. AccessInv
  BY InitAccess
<1>2. ClockInv /\ admitted = [p \in Apis |-> admitted[p]]
  BY DEF Init, ClockInv, NewClient
<1>3. ASSUME NEW p \in Apis
      PROVE  WindowInv(p)
  <2>1. procs[p].table = NoBuckets /\ admitted[p] = {}
    BY DEF Init, Started, Processes
  <2>2. \A k : Live(p, k) = {}
    BY <2>1 DEF Live
  <2> QED
    BY <2>1, <2>2, StartedWindow DEF WindowInv
<1> QED
  BY <1>1, <1>2, <1>3 DEF LimiterInv

LEMMA RestartWindow ==
  ASSUME LimiterInv, NEW p \in Processes, Restart(p), NEW q \in Apis
  PROVE  WindowInv(q)'
<1>1. /\ procs = [r \in Processes |-> procs[r]] /\ procs' = [procs EXCEPT ![p] = Started(p, env)]
      /\ admitted'[q] = (IF q = p THEN {} ELSE admitted[q]) /\ now' = now /\ WindowInv(q)
      /\ q \in Processes
  BY DEF Restart, LimiterInv, AccessInv, TypeInv, Processes
<1>2. CASE q = p
  <2>1. procs'[q].table = NoBuckets /\ admitted'[q] = {}
    BY <1>1, <1>2 DEF Started
  <2>2. \A k : Live(q, k)' = {}
    BY <2>1 DEF Live
  <2> QED
    BY <2>1, <2>2, StartedWindow DEF WindowInv
<1>3. CASE q # p
  BY <1>1, <1>3, WindowSame
<1> QED
  BY <1>2, <1>3

LEMMA LimiterStep ==
  ASSUME LimiterInv, AccessInv', [Next]_vars
  PROVE  LimiterInv'
<1>1. ClockInv'
  BY ClockStep, SMTT(30) DEF LimiterInv
<1>2. admitted' = [p \in Apis |-> admitted'[p]]
  BY DEF LimiterInv, Next, vars, Handle, Operate, Arrive, Admit, Register, Insert, Login,
         Upload, Work, Restart, RotateKeys, SetActive, RetireKey, RotateSecret, Tick
<1>3. ASSUME NEW p \in Apis
      PROVE  WindowInv(p)'
  <2>1. CASE UNCHANGED <<now, procs, admitted>>
    BY <2>1, WindowSame DEF LimiterInv
  <2>2. CASE \E c \in Clients : Admit(c)
    BY <2>2, AdmitWindow
  <2>3. CASE Tick
    BY <2>3, TickWindow
  <2>4. CASE \E q \in Processes : Restart(q)
    BY <2>4, RestartWindow
  <2> QED
    BY <2>1, <2>2, <2>3, <2>4 DEF Next, vars, Handle, Operate, Arrive, Register, Insert, Login,
         Upload, Work, RotateKeys, SetActive, RetireKey, RotateSecret
<1> QED
  BY <1>1, <1>2, <1>3 DEF LimiterInv

\* No key has more than its limit of requests in a window of a process, of those whose
\* bucket was not lost, for any limit, window and number of buckets, and however
\* requests overlap between the clock and the lock (InMemoryRateLimiter.check).
THEOREM WindowsStayBounded == Spec => []WindowIsBounded
<1>1. LimiterInv => WindowIsBounded
  <2> SUFFICES ASSUME LimiterInv, NEW p \in Apis, NEW a \in admitted[p]
               PROVE  Cardinality(Live(p, a.key)) <= Limit
    BY DEF WindowIsBounded, Live
  <2>1. TableTyped(procs[p].table) /\ Holds(TimesOf(procs[p].table, a.key), Live(p, a.key))
    BY DEF LimiterInv, WindowInv
  <2> DEFINE times == TimesOf(procs[p].table, a.key)
  <2>2. times \in Seq(Nat) /\ Len(times) \in 0 .. Limit
    BY <2>1, TimesTyped
  <2> HIDE DEF times
  <2>3. IsFiniteSet(Live(p, a.key)) /\ Cardinality(Live(p, a.key)) <= Len(times)
    BY <2>1, <2>2, HoldsBound DEF times
  <2> QED
    BY <2>2, <2>3, FS_CardinalityType, LimiterAssumption
<1> QED
  BY <1>1, InitWindow, LimiterStep, AccessIsInvariant, PTL DEF Spec
=============================================================================
