------------------------------- MODULE Server -------------------------------
(***************************************************************************)
(* The processes around the key endpoints of ApiKeys: cmd/api connects,    *)
(* brings the schema up to date under an advisory lock, serves, stops      *)
(* listening on a signal and drains, and may die at any instant; several   *)
(* such processes share the database.  Inside a process every statement    *)
(* needs a connection of a bounded pool, and a transaction keeps its own;  *)
(* one of the pool stays with the migrations' driver as long as the        *)
(* process lives.                                                          *)
(***************************************************************************)
EXTENDS ApiKeys, FiniteSets

CONSTANTS
    Servers,    \* processes of cmd/api
    Latest,     \* number of migrations
    MaxOpen,    \* DB_MAX_OPEN_CONNS of each process
    Loads       \* bound: which requests come, and how often each process is started

ASSUME ServerAssumption ==
    /\ None \notin Servers
    /\ Latest \in Nat
    /\ MaxOpen \in [Servers -> Nat \ {0}]
    /\ Loads \subseteq [requests : SUBSET Requests, starts : [Servers -> Nat]]

VARIABLES
    load,       \* the load of this behaviour, chosen at the start
    phase,      \* where main is in each process
    starts,     \* how often each process may still be started
    migrator,   \* the process that holds the migrations' advisory lock
    next,       \* the migration each migrating process is at
    version,    \* schema_migrations.version
    dirty,      \* schema_migrations.dirty
    schema,     \* the migrations that have run
    broken,     \* history: a process ended in the middle of a migration
    driver,     \* processes whose migration driver holds a connection of their pool
    at,         \* the process that serves each request
    conn        \* requests that hold a connection of their process's pool

database == <<migrator, version, dirty, schema>>
serverVars == <<load, phase, starts, next, broken, driver, at, conn, database>>
allVars == <<vars, serverVars>>

Stages == {"down", "connect", "driver", "lock", "check", "mark", "apply", "clear",
           "serve", "drain"}

Served(s) == {r \in Pending : at[r] = s}

\* The connections of a process's pool: its requests' and its migration driver's.
Connections(s) == {r \in conn : at[r] = s}
InUse(s) == Cardinality(Connections(s)) + (IF s \in driver THEN 1 ELSE 0)

ServerInit ==
    /\ Init
    /\ load \in Loads
    /\ phase = [s \in Servers |-> "down"]
    /\ starts = load.starts
    /\ migrator = None
    /\ next = [s \in Servers |-> 0]
    /\ version = 0
    /\ dirty = FALSE
    /\ schema = {}
    /\ broken = FALSE
    /\ driver = {}
    /\ at = [r \in Requests |-> None]
    /\ conn = {}

Enter(s, p) == phase' = [phase EXCEPT ![s] = p]

-----------------------------------------------------------------------------
(* Connect and Migrate                                                     *)

Start(s) ==
    /\ phase[s] = "down"
    /\ starts[s] > 0
    /\ Enter(s, "connect")
    /\ starts' = [starts EXCEPT ![s] = @ - 1]
    /\ UNCHANGED <<vars, load, next, broken, driver, at, conn, database>>

Connect(s) ==
    /\ phase[s] = "connect"
    /\ Enter(s, "driver")
    /\ UNCHANGED <<vars, load, starts, next, broken, driver, at, conn, database>>

\* The migrations' driver takes a connection out of the pool, and nobody closes it.
WithInstance(s) ==
    /\ phase[s] = "driver"
    /\ InUse(s) < MaxOpen[s]
    /\ driver' = driver \cup {s}
    /\ Enter(s, "lock")
    /\ UNCHANGED <<vars, load, starts, next, broken, at, conn, database>>

\* Faulty variant: the migrations run without the lock.
LockNothing(s) ==
    /\ phase[s] = "lock"
    /\ Enter(s, "check")
    /\ UNCHANGED <<vars, load, starts, next, broken, driver, at, conn, database>>

Lock(s) ==
    /\ phase[s] = "lock"
    /\ migrator = None
    /\ migrator' = s
    /\ Enter(s, "check")
    /\ UNCHANGED <<vars, load, starts, next, broken, driver, at, conn, version, dirty, schema>>

Unlocked(s) == IF migrator = s THEN None ELSE migrator

\* Faulty variant: the error of Up is ignored.
CheckIgnoringDirty(s) ==
    /\ phase[s] = "check"
    /\ next' = [next EXCEPT ![s] = version + 1]
    /\ IF dirty \/ version = Latest
       THEN Enter(s, "serve") /\ migrator' = Unlocked(s)
       ELSE Enter(s, "mark") /\ UNCHANGED migrator
    /\ UNCHANGED <<vars, load, starts, broken, driver, at, conn, version, dirty, schema>>

\* A version that is not dirty: nothing to do, or the first migration after it.
\* On a dirty one Migrate fails, which leaves only Exit.
Check(s) ==
    /\ phase[s] = "check"
    /\ ~dirty
    /\ next' = [next EXCEPT ![s] = version + 1]
    /\ IF version = Latest
       THEN Enter(s, "serve") /\ migrator' = Unlocked(s)
       ELSE Enter(s, "mark") /\ UNCHANGED migrator
    /\ UNCHANGED <<vars, load, starts, broken, driver, at, conn, version, dirty, schema>>

Mark(s) ==
    /\ phase[s] = "mark"
    /\ version' = next[s]
    /\ dirty' = TRUE
    /\ Enter(s, "apply")
    /\ UNCHANGED <<vars, load, starts, next, broken, driver, at, conn, migrator, schema>>

\* One implicit transaction; on a schema that has the migration already it fails.
Apply(s) ==
    /\ phase[s] = "apply"
    /\ next[s] \notin schema
    /\ schema' = schema \cup {next[s]}
    /\ Enter(s, "clear")
    /\ UNCHANGED <<vars, load, starts, next, broken, driver, at, conn, migrator, version, dirty>>

Clear(s) ==
    /\ phase[s] = "clear"
    /\ version' = next[s]
    /\ dirty' = FALSE
    /\ IF next[s] = Latest
       THEN Enter(s, "serve") /\ migrator' = Unlocked(s) /\ UNCHANGED next
       ELSE Enter(s, "mark") /\ next' = [next EXCEPT ![s] = @ + 1] /\ UNCHANGED migrator
    /\ UNCHANGED <<vars, load, starts, broken, driver, at, conn, schema>>

Migrate(s) == WithInstance(s) \/ Lock(s) \/ Check(s) \/ Mark(s) \/ Apply(s) \/ Clear(s)

-----------------------------------------------------------------------------
(* Serving                                                                 *)

\* A process that listens accepts a request.
Accept(s, r) ==
    /\ phase[s] = "serve"
    /\ r \in load.requests
    /\ \/ \E email \in Emails : r \in Registrations /\ BeginRegister(r, email)
       \/ \E k \in Registrations, p \in {"write", "revoke"} : r \in Uses /\ BeginUse(r, k, p)
    /\ at' = [at EXCEPT ![r] = s]
    /\ UNCHANGED <<load, phase, starts, next, broken, driver, conn, database>>

\* A statement is next and the pool has a connection for it.
Acquire(r) ==
    /\ pc[r] \in {"lookup", "insert", "auth", "revoke"}
    /\ r \notin conn
    /\ InUse(at[r]) < MaxOpen[at[r]]
    /\ conn' = conn \cup {r}
    /\ UNCHANGED <<vars, load, phase, starts, next, broken, driver, at, database>>

\* Faulty variant: a statement that decides the answer keeps its connection.
KeptAfter(r) == IF pc'[r] = "reply" THEN conn ELSE conn \ {r}

\* The connection goes back after the statement, or after the transaction's last.
KeptBy(r) == IF pc'[r] \in {"inserted", "revoking"} THEN conn ELSE conn \ {r}

Works(r) == (r \in Registrations /\ RegisterStep(r)) \/ (r \in Uses /\ UseStep(r))

Statement(r) ==
    /\ r \in conn
    /\ Works(r)
    /\ conn' = KeptBy(r)
    /\ UNCHANGED <<load, phase, starts, next, broken, driver, at, database>>

Serve(r) ==
    \/ Acquire(r)
    \/ Statement(r)
    \/ (Limit(r) \/ Reply(r)) /\ UNCHANGED serverVars

\* A statement fails, also while it waits for a row.
Breaks(r) ==
    /\ r \in conn
    /\ Fail(r) \/ CommitUnseen(r)
    /\ conn' = KeptBy(r)
    /\ UNCHANGED <<load, phase, starts, next, broken, driver, at, database>>

\* WriteTimeout, or the client is gone: the handler returns and nobody hears it.
Unheard(r) ==
    /\ pc[r] = "reply"
    /\ Crash({r})
    /\ UNCHANGED serverVars

-----------------------------------------------------------------------------
(* The end of a process                                                    *)

\* SIGINT or SIGTERM while serving: Shutdown closes the listeners.
Signal(s) ==
    /\ phase[s] = "serve"
    /\ Enter(s, "drain")
    /\ UNCHANGED <<vars, load, starts, next, broken, driver, at, conn, database>>

\* Every request has been answered within the 30 s.
Drained(s) ==
    /\ phase[s] = "drain"
    /\ Served(s) = {}
    /\ Enter(s, "down")
    /\ driver' = driver \ {s}
    /\ UNCHANGED <<vars, load, starts, next, broken, at, conn, database>>

\* Connect or Migrate fails, the 30 s are over, a signal before or after the
\* handler for it, or a crash: the process ends where it is.  PostgreSQL ends its
\* sessions, their transactions and locks.
Exit(s) ==
    /\ phase[s] # "down"
    /\ Enter(s, "down")
    /\ Crash(Served(s))
    /\ conn' = conn \ Connections(s)
    /\ driver' = driver \ {s}
    /\ migrator' = Unlocked(s)
    /\ broken' = (broken \/ phase[s] \in {"apply", "clear"})
    /\ UNCHANGED <<load, starts, next, at, version, dirty, schema>>

\* Nothing more is asked and no process is between two states of rest.
Rest ==
    /\ Pending = {}
    /\ \A s \in Servers : phase[s] \in {"down", "serve"}
    /\ UNCHANGED allVars

ServerNext ==
    \/ \E s \in Servers :
          \/ Start(s) \/ Connect(s) \/ Migrate(s) \/ Signal(s) \/ Drained(s) \/ Exit(s)
          \/ \E r \in Requests : Accept(s, r)
    \/ \E r \in Requests : Serve(r) \/ Breaks(r) \/ Unheard(r)
    \/ Rest

ServerSpec == ServerInit /\ [][ServerNext]_allVars

\* A goroutine per request, which goes on when it can; nothing arrives, fails or
\* ends of necessity, so no wait is over because a statement fails.
ServerFairSpec ==
    /\ ServerSpec
    /\ \A r \in Requests : WF_allVars(Serve(r))

-----------------------------------------------------------------------------
(* Properties                                                              *)

ServerTypeOK ==
    /\ TypeOK
    /\ load \in Loads
    /\ phase \in [Servers -> Stages]
    /\ starts \in [Servers -> Nat]
    /\ migrator \in Servers \cup {None}
    /\ next \in [Servers -> Nat]
    /\ version \in 0..Latest
    /\ dirty \in BOOLEAN
    /\ schema \subseteq 1..Latest
    /\ broken \in BOOLEAN
    /\ driver \subseteq Servers
    /\ at \in [Requests -> Servers \cup {None}]
    /\ conn \subseteq Requests

\* A process that accepts requests does so on a schema all of whose migrations
\* have run, whoever ran them, whoever died on the way and however often.
ServesOnlyMigrated ==
    \A s \in Servers :
        phase[s] \in {"serve", "drain"} => schema = 1..Latest /\ ~dirty

\* Processes that start together do not break each other's migrations: the schema
\* is dirty with nobody at work on it only if one ended inside a migration.
DirtyOnlyByAccident == dirty /\ migrator = None => broken

\* Every request that was accepted comes to an end, answered or lost: none waits
\* for ever for a connection or for the row another one holds.  So it is with pools
\* of two or more connections; of a pool of one the migrations' driver leaves nothing.
RequestsEnd ==
    \A r \in Requests : r \in Pending ~> r \notin Pending
=============================================================================
