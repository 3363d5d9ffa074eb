------------------------------- MODULE Access -------------------------------
(***************************************************************************)
(* Accounts, tokens, rate limits and the keys of stored values              *)
(* (api/auth.py, core/auth.py, core/rate_limit.py, core/crypto.py), in       *)
(* several processes whose secrets an operator rotates                      *)
(* (docs/deployment/secret-lifecycle-runbook.md).                           *)
(*                                                                          *)
(* A process reads its secrets from its environment, which is that of the    *)
(* deployment at the time it was started.  Each has a limiter of its own.    *)
(* Nothing in the repository changes is_active or auth_version of a user, so *)
(* these checks of a token always pass and are left out, as is its expiry.   *)
(***************************************************************************)
EXTENDS Envelopes, RateLimiter

CONSTANTS
  Apis, Workers,  \* processes
  Clients, Addresses,
  Network,        \* client -> the network address its requests come from
  KeyIds,         \* keys the operator may provide
  Written,        \* places that uploads and their results are stored in
  MaxTime, MaxUsers, MaxStored, MaxSecret,  \* bounds of the model
  None

ASSUME AccessAssumption ==
  /\ Apis # {} /\ Apis \cap Workers = {}
  /\ KeyIds # {} /\ Written \subseteq Places
  /\ 1 .. MaxUsers \subseteq Owners /\ 1 .. MaxUsers \subseteq Ids

VARIABLES
  now,       \* the clock
  env,       \* the environment of the deployment: [ring, secret]
  procs,     \* process -> [up, env, table]
  users,     \* rows of accounts, in the order they were inserted: [address, email]
  stored,    \* values stored for users: [place, envelope]
  undone,    \* why the last job of a worker could not be done for want of a key, "no"
             \* if it could: the worker's ring was half rotated, outdated or current
  clients,   \* client -> its request under way and what it knows
  admitted   \* history: api -> [key, at, nth] of the requests in the window that were let
             \* in and whose bucket was not lost since; nth: of those of that key and time

vars == <<now, env, procs, users, stored, undone, clients, admitted>>

Processes == Apis \cup Workers

FirstEnv(k) == [ring |-> [keys |-> [x \in {k} |-> "active"], active |-> k], secret |-> 1]

\* An API does not start when the key ring is not well formed; a worker starts with any.
Started(p, e) == [up |-> p \in Workers \/ WellFormed(e.ring), env |-> e, table |-> NoBuckets]

\* told: the address it was told to have an account since its last request arrived;
\* failed: whether a login ended with 500 in a process with the secrets of now, or not.
NewClient == [at |-> "idle", proc |-> None, what |-> "none", address |-> None, since |-> 0,
              email |-> None, token |-> None, told |-> None, failed |-> "no"]

Init ==
  /\ now = 1
  /\ \E k \in KeyIds : env = FirstEnv(k)
  /\ procs = [p \in Processes |-> Started(p, env)]
  /\ users = <<>>
  /\ stored = {}
  /\ undone = "no"
  /\ clients = [c \in Clients |-> NewClient]
  /\ admitted = [p \in Apis |-> {}]

-----------------------------------------------------------------------------
(* Places of values.                                                       *)

\* The user id is the record id and the owner.
EmailPlace(u) == [group |-> "metadata", kind |-> "user_email", owner |-> u,
                  ids |-> [k \in {"id"} |-> u]]

IsResult(place) == place.kind = "item_summary"

Account(address) == {u \in DOMAIN users : users[u].address = address}

-----------------------------------------------------------------------------
(* Requests.                                                               *)

Client(c) == clients[c]

Ring(c) == procs[Client(c).proc].env.ring

\* A request ends, and nothing but the token and what it was told outlives it.
Ended(c) == [NewClient EXCEPT !.token = Client(c).token]

Ends(c) == clients' = [clients EXCEPT ![c] = Ended(c)]

\* register answers 200 or 409.
HasAccount(c) == clients' = [clients EXCEPT ![c] = [Ended(c) EXCEPT !.told = Client(c).address]]

\* login answers 500.
Fails(c) == clients' = [clients EXCEPT ![c] = [Ended(c) EXCEPT !.failed =
              IF procs[Client(c).proc].env = env THEN "current" ELSE "outdated"]]

\* The key of a request: clients of public requests are told apart by their
\* network address, others by their account.
LimitKey(c) == IF Client(c).what = "upload" THEN <<"upload", Client(c).token.user>>
               ELSE <<Client(c).what, Network[c]>>

\* A request arrives and reads the clock of the limiter; a token that was signed
\* with another secret is refused first.
Arrive(c, p) ==
  /\ Client(c).at = "idle"
  /\ procs[p].up
  /\ \E what \in {"register", "login", "upload"}, address \in Addresses :
       /\ what = "upload" => Client(c).token # None /\ Client(c).token.address = address
       /\ IF what = "upload" /\ Client(c).token.secret # procs[p].env.secret
          THEN Ends(c)
          ELSE clients' = [clients EXCEPT ![c] =
                 [Ended(c) EXCEPT !.at = "limit", !.proc = p, !.what = what,
                                  !.address = address, !.since = now]]
  /\ UNCHANGED <<now, env, procs, users, stored, undone, admitted>>

\* Requests of a key that were let in and read the clock at one time, and one more of them.
Alike(p, key, at) == {a \in admitted[p] : a.key = key /\ a.at = at}

Admission(c) ==
  [key |-> LimitKey(c), at |-> Client(c).since,
   nth |-> Cardinality(Alike(Client(c).proc, LimitKey(c), Client(c).since)) + 1]

\* The limiter takes its lock and decides.
Admit(c) ==
  LET p == Client(c).proc
      check == Check(procs[p].table, LimitKey(c), Client(c).since) IN
  /\ Client(c).at = "limit"
  /\ procs' = [procs EXCEPT ![p].table = check.table]
  /\ IF check.allowed
     THEN /\ clients' = [clients EXCEPT ![c].at = "handle"]
          /\ admitted' = [admitted EXCEPT ![p] =
               {a \in @ \cup {Admission(c)} : a.key \notin check.lost /\ a.at > now - Window}]
     ELSE Ends(c) /\ UNCHANGED admitted
  /\ UNCHANGED <<now, env, users, stored, undone>>

\* register up to the INSERT: the address is free, the e-mail is sealed.  The id is
\* made anew; the model takes the one that the row will have when it is inserted next.
Register(c) ==
  /\ Client(c).at = "handle" /\ Client(c).what = "register"
  /\ IF Account(Client(c).address) # {}
     THEN HasAccount(c)
     ELSE clients' = [clients EXCEPT ![c].at = "insert", ![c].email = Ring(c)]
  /\ UNCHANGED <<now, env, procs, users, stored, undone, admitted>>

NewUser(c) ==
  [address |-> Client(c).address, email |-> Seal(Client(c).email, EmailPlace(Len(users) + 1))]

\* A wrong version: the column is not unique.
SlipInsert(c) ==
  /\ Client(c).at = "insert"
  /\ Len(users) < MaxUsers
  /\ users' = Append(users, NewUser(c))
  /\ HasAccount(c)
  /\ UNCHANGED <<now, env, procs, stored, undone, admitted>>

\* The INSERT: email_lookup_hash is unique.
Insert(c) ==
  /\ Client(c).at = "insert"
  /\ IF Account(Client(c).address) # {}
     THEN UNCHANGED users
     ELSE /\ Len(users) < MaxUsers
          /\ users' = Append(users, NewUser(c))
  /\ HasAccount(c)
  /\ UNCHANGED <<now, env, procs, stored, undone, admitted>>

\* login: without an account, or with another password, it is refused; the stored
\* e-mail is opened before the password is compared.
Login(c) ==
  /\ Client(c).at = "handle" /\ Client(c).what = "login"
  /\ IF \E u \in Account(Client(c).address) : ~Opens(Ring(c), users[u].email, EmailPlace(u))
     THEN Fails(c)
     ELSE \/ Ends(c)
          \/ \E u \in Account(Client(c).address) :
               clients' = [clients EXCEPT ![c] =
                 [Ended(c) EXCEPT !.token =
                    [user |-> u, address |-> Client(c).address,
                     secret |-> procs[Client(c).proc].env.secret]]]
  /\ UNCHANGED <<now, env, procs, users, stored, undone, admitted>>

\* An upload stores a value of its user.
Upload(c) ==
  /\ Client(c).at = "handle" /\ Client(c).what = "upload"
  /\ Cardinality(stored) < MaxStored
  /\ \E place \in Written :
       /\ place.owner = Client(c).token.user /\ ~IsResult(place)
       /\ \A s \in stored : s.place # place
       /\ stored' = stored \cup {[place |-> place, envelope |-> Seal(Ring(c), place)]}
  /\ Ends(c)
  /\ UNCHANGED <<now, env, procs, users, undone, admitted>>

\* A worker opens what was uploaded and stores a result for the same user; when it
\* does not open, its job fails.
Work(w) ==
  LET e == procs[w].env IN
  /\ procs[w].up
  /\ \E s \in stored, place \in Written :
       /\ ~IsResult(s.place) /\ IsResult(place) /\ place.owner = s.place.owner
       /\ \A t \in stored : t.place # place
       /\ IF Opens(e.ring, s.envelope, s.place)
          THEN /\ Cardinality(stored) < MaxStored
               /\ stored' = stored \cup {[place |-> place, envelope |-> Seal(e.ring, place)]}
               /\ undone' = "no"
          ELSE /\ undone' = IF ~WellFormed(e.ring) THEN "half" ELSE IF e = env THEN "current" ELSE "outdated"
               /\ UNCHANGED stored
  /\ UNCHANGED <<now, env, procs, users, clients, admitted>>

-----------------------------------------------------------------------------
(* The operator, time, and restarts.                                       *)

\* The runbook, steps 1 to 3: the new key is active, the old one decrypt-only; the
\* id of the active key is a variable of its own and may be set later.
RotateKeys ==
  /\ WellFormed(env.ring)
  /\ \E k \in KeyIds \ DOMAIN env.ring.keys : \E a \in {env.ring.active, k} :
       env' = [env EXCEPT !.ring =
                 [keys |-> [x \in DOMAIN env.ring.keys \cup {k} |->
                              IF x = k THEN "active" ELSE "decrypt_only"],
                  active |-> a]]
  /\ UNCHANGED <<now, procs, users, stored, undone, clients, admitted>>

SetActive ==
  /\ ~WellFormed(env.ring)
  /\ \E k \in ActiveKeys(env.ring) : env' = [env EXCEPT !.ring.active = k]
  /\ UNCHANGED <<now, procs, users, stored, undone, clients, admitted>>

\* Step 5: a key goes when nothing stored needs it and no process writes with it.
RetireKey ==
  /\ WellFormed(env.ring)
  /\ \A p \in Processes : procs[p].up => procs[p].env.ring = env.ring
  /\ \E k \in DOMAIN env.ring.keys \ ActiveKeys(env.ring) :
       /\ \A u \in DOMAIN users : users[u].email.key # k
       /\ \A s \in stored : s.envelope.key # k
       /\ env' = [env EXCEPT !.ring.keys = Restrict(@, DOMAIN @ \ {k})]
  /\ UNCHANGED <<now, procs, users, stored, undone, clients, admitted>>

\* Tokens signed with the old secret are no longer accepted.
RotateSecret ==
  /\ env.secret < MaxSecret
  /\ env' = [env EXCEPT !.secret = @ + 1]
  /\ UNCHANGED <<now, procs, users, stored, undone, clients, admitted>>

Tick ==
  /\ now < MaxTime
  /\ now' = now + 1
  /\ admitted' = [p \in Apis |-> {a \in admitted[p] : a.at > now + 1 - Window}]
  /\ UNCHANGED <<env, procs, users, stored, undone, clients>>

\* A process ends, with its requests and its limiter, and starts with the
\* environment of now.
Restart(p) ==
  /\ procs' = [procs EXCEPT ![p] = Started(p, env)]
  /\ clients' = [c \in Clients |->
       IF Client(c).at # "idle" /\ Client(c).proc = p
       THEN Ended(c)
       ELSE Client(c)]
  /\ admitted' = [q \in Apis |-> IF q = p THEN {} ELSE admitted[q]]
  /\ UNCHANGED <<now, env, users, stored, undone>>

Handle(c) == Admit(c) \/ Register(c) \/ Insert(c) \/ Login(c) \/ Upload(c)

Operate == RotateKeys \/ SetActive \/ RetireKey \/ RotateSecret

Next ==
  \/ \E c \in Clients : Handle(c) \/ \E p \in Apis : Arrive(c, p)
  \/ \E w \in Workers : Work(w)
  \/ \E p \in Processes : Restart(p)
  \/ Operate \/ Tick

Spec == Init /\ [][Next]_vars

-----------------------------------------------------------------------------
(* Properties.                                                             *)

\* No key gets more than its limit of requests into a window of a process, however
\* requests overlap between reading the clock and taking the lock, unless the table was
\* too long and the bucket of the key went, as the oldest of the live ones or with its
\* times out of order (InMemoryRateLimiter.check, _remove_expired).
WindowIsBounded == \A p \in Apis : \A a \in admitted[p] :
  Cardinality({b \in admitted[p] : b.key = a.key /\ b.at > now - Window}) <= Limit

\* Registrations of one address, in whatever processes, make one account; who is
\* told that they succeeded or came too late finds it, and a token belongs to the
\* account of the address it was asked for (register, authenticate_user).
OneAccountPerAddress ==
  /\ \A address \in Addresses : Cardinality(Account(address)) <= 1
  /\ \A c \in Clients :
       /\ Client(c).told # None => Account(Client(c).told) # {}
       /\ Client(c).token # None => Account(Client(c).token.address) = {Client(c).token.user}

\* Through rotations, half-done rotations, restarts and retirements a process that was
\* started with the current secrets, once their rotation is complete, opens everything
\* that is stored, whoever wrote it with whatever key; a login fails for want of a key
\* only in a process that was not restarted yet, and a job only in such a worker or one
\* that was started half way through a rotation (EncryptionKeyring._require_key,
\* get_encryption_keyring).
StoredIsReadable ==
  /\ WellFormed(env.ring) =>
       \A p \in Processes : procs[p].up /\ procs[p].env = env =>
         /\ \A u \in DOMAIN users : Opens(procs[p].env.ring, users[u].email, EmailPlace(u))
         /\ \A s \in stored : Opens(procs[p].env.ring, s.envelope, s.place)
  /\ \A c \in Clients : Client(c).failed # "current"
  /\ undone # "current"

\* What is stored in one place is of no use in any other
\* (_snapshot_block_aad: "fails to decrypt in the other context").
CopiesAreRefused == \A s \in stored : PlacesWith[s.envelope.aad] = {s.place}
=============================================================================
