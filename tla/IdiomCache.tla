----------------------------- MODULE IdiomCache -----------------------------
(***************************************************************************)
(* The idiom library that translation threads share: a module-level cache  *)
(* filled by double-checked locking (app/translate/idioms.py), and the     *)
(* admin requests that write the idiom tables and drop the cache           *)
(* (app/idioms/admin_routes.py).                                           *)
(*                                                                         *)
(* The content of the tables is the set of admin writes committed so far,  *)
(* a loaded library the set its query saw.  A database connection is taken *)
(* from a bounded pool; an admin request keeps one until its transaction   *)
(* ends, a loader needs one while it holds the cache lock.                 *)
(***************************************************************************)
EXTENDS FiniteSets, Naturals

CONSTANTS
    Writers,     \* admin write requests, each sent at most once
    Scanners,    \* translation threads
    Empty,       \* the value None of _cache
    Free,        \* nobody holds the cache lock
    PoolSize     \* connections the engine's pool hands out

ASSUME EmptyNotLibrary == \A L \in SUBSET Writers : L # Empty
ASSUME FreeNotScanner == Free \notin Scanners
ASSUME PoolSizePos == PoolSize \in Nat \ {0}

VARIABLES
    db,        \* the writes committed so far
    cache,     \* _cache
    lock,      \* the holder of _cache_lock
    writer,    \* progress of each admin request
    scanner,   \* progress of each thread's call of _library()
    read,      \* what the query of a loading thread returned
    lib,       \* the library each thread's last finished call returned
    window     \* history: the requests between reset and commit when the
               \* cached (or being built) library was queried

cacheVars == <<db, cache, lock, writer, scanner, read, lib, window>>

Library == SUBSET Writers
WriterSteps == {"idle", "open", "flushed", "reset", "done", "failed"}
ScannerSteps == {"idle", "check", "want", "locked", "queried", "return", "broken"}

CacheTypeOK ==
    /\ db \in Library
    /\ cache \in Library \cup {Empty}
    /\ lock \in Scanners \cup {Free}
    /\ writer \in [Writers -> WriterSteps]
    /\ scanner \in [Scanners -> ScannerSteps]
    /\ read \in [Scanners -> Library]
    /\ \A s \in Scanners : lib[s] # Empty
    /\ lib \in [Scanners -> Library]
    /\ window \in Library

CacheInit ==
    /\ db = {}
    /\ cache = Empty
    /\ lock = Free
    /\ writer = [w \in Writers |-> "idle"]
    /\ scanner = [s \in Scanners |-> "idle"]
    /\ read = [s \in Scanners |-> {}]
    /\ lib = [s \in Scanners |-> {}]
    /\ window = {}

InTransaction(w) == writer[w] \in {"open", "flushed", "reset"}

\* Requests hold their connection for the whole transaction.
ConnectionFree == Cardinality({w \in Writers : InTransaction(w)}) < PoolSize

-----------------------------------------------------------------------------
(* Admin requests: create, update and delete of idioms and translations    *)
(* share one shape: checks and flush, reset_cache(), and the commit of     *)
(* db_session_dep after the handler has returned.                          *)

AdminOpen(w) ==
    /\ writer[w] = "idle"
    /\ ConnectionFree
    /\ writer' = [writer EXCEPT ![w] = "open"]
    /\ UNCHANGED <<db, cache, lock, scanner, read, lib, window>>

AdminFlush(w) ==
    /\ writer[w] = "open"
    /\ writer' = [writer EXCEPT ![w] = "flushed"]
    /\ UNCHANGED <<db, cache, lock, scanner, read, lib, window>>

\* Mutated form: reset_cache() assigns without taking the lock.
ResetWithoutLock(w) ==
    /\ writer[w] = "flushed"
    /\ cache' = Empty
    /\ writer' = [writer EXCEPT ![w] = "reset"]
    /\ UNCHANGED <<db, lock, scanner, read, lib, window>>

\* reset_cache(): the lock is held for the assignment only.
ResetCache(w) ==
    /\ writer[w] = "flushed"
    /\ lock = Free
    /\ cache' = Empty
    /\ writer' = [writer EXCEPT ![w] = "reset"]
    /\ UNCHANGED <<db, lock, scanner, read, lib, window>>

AdminCommit(w) ==
    /\ writer[w] = "reset"
    /\ db' = db \cup {w}
    /\ writer' = [writer EXCEPT ![w] = "done"]
    /\ UNCHANGED <<cache, lock, scanner, read, lib, window>>

\* 404, 409 or 400 before the flush is through, a database error when the
\* response is built or at the commit, or no connection within the pool's
\* timeout: the request rolls back. Nothing fails while it waits for the lock.
AdminFails(w) ==
    /\ writer[w] \in {"idle", "open", "reset"}
    /\ writer' = [writer EXCEPT ![w] = "failed"]
    /\ UNCHANGED <<db, cache, lock, scanner, read, lib, window>>

Admin(w) ==
    \/ AdminOpen(w)
    \/ AdminFlush(w)
    \/ ResetCache(w)
    \/ AdminCommit(w)
    \/ AdminFails(w)

-----------------------------------------------------------------------------
(* A call of _library() by a translation thread.                           *)

Go(s, step) == scanner' = [scanner EXCEPT ![s] = step]

Call(s) ==
    /\ scanner[s] = "idle"
    /\ Go(s, "check")
    /\ UNCHANGED <<db, cache, lock, writer, read, lib, window>>

\* The unlocked check.
Check(s) ==
    /\ scanner[s] = "check"
    /\ Go(s, IF cache = Empty THEN "want" ELSE "return")
    /\ UNCHANGED <<db, cache, lock, writer, read, lib, window>>

Acquire(s) ==
    /\ scanner[s] = "want"
    /\ lock = Free
    /\ lock' = s
    /\ Go(s, "locked")
    /\ UNCHANGED <<db, cache, writer, read, lib, window>>

\* The second check finds what another thread loaded meanwhile.
AlreadyLoaded(s) ==
    /\ scanner[s] = "locked"
    /\ cache # Empty
    /\ lock' = Free
    /\ Go(s, "return")
    /\ UNCHANGED <<db, cache, writer, read, lib, window>>

\* Mutated form: the rows are read before the reset requests are kept out,
\* so the lock protects the assignment only.
QueryUnlocked(s) ==
    /\ scanner[s] = "locked"
    /\ cache = Empty
    /\ ConnectionFree
    /\ read' = [read EXCEPT ![s] = db]
    /\ window' = {w \in Writers : writer[w] = "reset"}
    /\ lock' = Free
    /\ Go(s, "queried")
    /\ UNCHANGED <<db, cache, writer, lib>>

\* Mutated form: the query also sees what is flushed and not committed.
QueryDirty(s) ==
    /\ scanner[s] = "locked"
    /\ cache = Empty
    /\ ConnectionFree
    /\ read' = [read EXCEPT ![s] = db \cup {w \in Writers : writer[w] \in {"flushed", "reset"}}]
    /\ window' = {w \in Writers : writer[w] = "reset"}
    /\ Go(s, "queried")
    /\ UNCHANGED <<db, cache, lock, writer, lib>>

\* _load(): the query sees the committed rows.
Query(s) ==
    /\ scanner[s] = "locked"
    /\ cache = Empty
    /\ ConnectionFree
    /\ read' = [read EXCEPT ![s] = db]
    /\ window' = {w \in Writers : writer[w] = "reset"}
    /\ Go(s, "queried")
    /\ UNCHANGED <<db, cache, lock, writer, lib>>

\* The query fails: the exception leaves the with block and the call.
QueryFails(s) ==
    /\ scanner[s] = "locked"
    /\ cache = Empty
    /\ ConnectionFree
    /\ lock' = Free
    /\ Go(s, "idle")
    /\ UNCHANGED <<db, cache, writer, read, lib, window>>

\* Mutated form: a pool that lets its callers wait for ever.
PoolWithoutTimeout(s) == FALSE /\ Go(s, "idle") /\ UNCHANGED cacheVars

\* The pool gives no connection within its timeout: the way out when every
\* connection is held by requests that wait for the lock this loader holds.
PoolTimesOut(s) ==
    /\ scanner[s] = "locked"
    /\ cache = Empty
    /\ ~ConnectionFree
    /\ lock' = Free
    /\ Go(s, "idle")
    /\ UNCHANGED <<db, cache, writer, read, lib, window>>

\* The finished automaton is assigned in one step, then the lock released.
Publish(s) ==
    /\ scanner[s] = "queried"
    /\ cache' = read[s]
    /\ lock' = Free
    /\ Go(s, "return")
    /\ UNCHANGED <<db, writer, read, lib, window>>

\* `return _cache` reads the global again, without the lock.
Return(s) ==
    /\ scanner[s] = "return"
    /\ IF cache = Empty
         THEN Go(s, "broken") /\ UNCHANGED lib
         ELSE Go(s, "idle") /\ lib' = [lib EXCEPT ![s] = cache]
    /\ UNCHANGED <<db, cache, lock, writer, read, window>>

\* The AttributeError of a None library ends the translation's attempt; the
\* thread goes on to its next text.
Recover(s) ==
    /\ scanner[s] = "broken"
    /\ Go(s, "idle")
    /\ UNCHANGED <<db, cache, lock, writer, read, lib, window>>

Scan(s) ==
    \/ Check(s)
    \/ Acquire(s)
    \/ AlreadyLoaded(s)
    \/ Query(s)
    \/ QueryFails(s)
    \/ PoolTimesOut(s)
    \/ Publish(s)
    \/ Return(s)
    \/ Recover(s)

CacheNext ==
    \/ \E w \in Writers : Admin(w)
    \/ \E s \in Scanners : Call(s) \/ Scan(s)

CacheSpec == CacheInit /\ [][CacheNext]_cacheVars

\* Requests and calls under way go on; nobody is obliged to start one. A
\* thread that waits for the lock gets it if it is released again and again.
Fairness ==
    /\ \A w \in Writers : /\ WF_cacheVars(writer[w] # "idle" /\ Admin(w))
                         /\ SF_cacheVars(ResetCache(w))
    /\ \A s \in Scanners : WF_cacheVars(Scan(s)) /\ SF_cacheVars(Acquire(s))

FairSpec == CacheSpec /\ Fairness

-----------------------------------------------------------------------------
(* Properties.                                                             *)

\* Only the lock's holder is between the second check and the assignment:
\* two threads never build the library at once.
OneLoader ==
    \A s \in Scanners : scanner[s] \in {"locked", "queried"} => lock = s

\* No translation uses an idiom of a request that rolled back or has not
\* committed: what is cached, and what a call returned, was committed.
OnlyCommittedIdioms ==
    /\ cache # Empty => cache \subseteq db
    /\ \A s \in Scanners : lib[s] \subseteq db

\* The lock keeps every stale load out except one: a cached library lacks a
\* committed write only when it was queried between that request's
\* reset_cache() and its commit.
StaleOnlyFromWindow ==
    cache # Empty => db \ cache \subseteq window

\* Requests never wait for one another or for a scanner for ever, although a
\* loader holds the lock while it waits for a connection and requests hold
\* connections while they wait for the lock.
RequestsEnd ==
    \A w \in Writers : InTransaction(w) ~> writer[w] \in {"done", "failed"}

=============================================================================
