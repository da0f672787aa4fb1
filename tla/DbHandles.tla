----------------------------- MODULE DbHandles ------------------------------
(***************************************************************************)
(* The objects that own connections, statements, backups and open blobs:   *)
(* SqliteDatabaseOwned, SqliteStatement, SqliteCachedStatement,            *)
(* SqliteBackup and SqliteBlobStream.  They may be moved, emptied, used    *)
(* again and destroyed in any order.  SQLite closes a connection for good  *)
(* when it was closed and the last thing opened on it is gone.             *)
(*                                                                         *)
(* A statement of the cache is leased by one object at a time, and not     *)
(* prepared or finalized through it: the code trusts its callers with that.*)
(***************************************************************************)
EXTENDS Integers, FiniteSets

CONSTANTS
  Databases,    \* sqlite3 connections that may be opened
  Things,       \* statements, backups and blob handles that may be opened
  Owners,       \* C++ objects
  ClassOf,      \* the class of each: "database", "statement", "lease", "backup" or "blob"
  Null,
  MayFail       \* whether SQLite may refuse what it is asked for

VARIABLES
  conn,     \* each connection: "unborn", "open", "closed" (but in use) or "freed"
  thing,    \* each thing: Null, or its class, its connection, its bindings and where it stands
  holds,    \* the connection or thing each object holds
  loose,    \* statements that were released to the caller
  cached    \* statements of a cache

handleVars == <<conn, thing, holds, loose, cached>>

HandlesInit ==
  /\ conn = [d \in Databases |-> "unborn"]
  /\ thing = [x \in Things |-> Null]
  /\ holds = [o \in Owners |-> Null]
  /\ loose = {} /\ cached = {}

Of(class) == {o \in Owners : ClassOf[o] = class}

\* The class of the things an object of a class holds.
Sort(class) == IF class = "lease" THEN "statement" ELSE class

Fresh(class, d) == [class |-> class, db |-> d, bound |-> FALSE, at |-> "ready"]

\* The connections after the things in "gone" are closed: one that was closed and has
\* nothing open left is freed.
ConnsWithout(gone, conns) ==
  [d \in Databases |->
     IF conns[d] = "closed" /\ \A x \in Things \ gone : thing[x] # Null => thing[x].db # d
     THEN "freed" ELSE conns[d]]

\* sqlite3_finalize, sqlite3_backup_finish, sqlite3_blob_close.
Closes(gone) ==
  /\ thing' = [x \in Things |-> IF x \in gone THEN Null ELSE thing[x]]
  /\ conn' = ConnsWithout(gone, conn)

Holding(o) == {holds[o]} \ {Null}

-----------------------------------------------------------------------------
(* Connections *)

\* The constructor.  A connection that could not be opened is a handle all the same.
Open(o) ==
  /\ ClassOf[o] = "database" /\ holds[o] = Null
  /\ \E d \in Databases :
       /\ conn[d] = "unborn"
       /\ conn' = [conn EXCEPT ![d] = "open"]
       /\ holds' = [holds EXCEPT ![o] = d]
  /\ UNCHANGED <<thing, loose, cached>>

\* sqlite3_close_v2.
Closed(ds) == ConnsWithout({}, [d \in Databases |-> IF d \in ds THEN "closed" ELSE conn[d]])

CloseDatabase(o) ==
  /\ ClassOf[o] = "database" /\ holds[o] # Null
  /\ conn' = Closed({holds[o]})
  /\ holds' = [holds EXCEPT ![o] = Null]
  /\ UNCHANGED <<thing, loose, cached>>

\* Mutant of MoveDatabase: the connection that is replaced stays open.
MoveDatabaseKeeps(o, from) ==
  /\ ClassOf[o] = "database" /\ ClassOf[from] = "database" /\ o # from
  /\ holds' = [holds EXCEPT ![o] = holds[from], ![from] = Null]
  /\ UNCHANGED <<conn, thing, loose, cached>>

MoveDatabase(o, from) ==
  /\ ClassOf[o] = "database" /\ ClassOf[from] = "database" /\ o # from
  /\ conn' = Closed(Holding(o))
  /\ holds' = [holds EXCEPT ![o] = holds[from], ![from] = Null]
  /\ UNCHANGED <<thing, loose, cached>>

-----------------------------------------------------------------------------
(* Statements, backups and blobs *)

\* What o holds is closed, and a thing of its class is opened in its place, or nothing is.
Reopens(o, class) ==
  /\ \/ \E x \in Things, d \in Databases :
          /\ thing[x] = Null /\ conn[d] = "open"
          /\ thing' = [y \in Things |->
               IF y = x THEN Fresh(class, d) ELSE IF y \in Holding(o) THEN Null ELSE thing[y]]
          /\ holds' = [holds EXCEPT ![o] = x]
          /\ conn' = ConnsWithout(Holding(o), conn)
     \/ /\ MayFail /\ Closes(Holding(o))
        /\ holds' = [holds EXCEPT ![o] = Null]
  /\ UNCHANGED <<loose, cached>>

\* Mutant of Prepare: the statement that is replaced is forgotten.
PrepareForgets(o) ==
  /\ ClassOf[o] = "statement"
  /\ \E x \in Things, d \in Databases :
       /\ thing[x] = Null /\ conn[d] = "open"
       /\ thing' = [thing EXCEPT ![x] = Fresh("statement", d)]
       /\ holds' = [holds EXCEPT ![o] = x]
  /\ UNCHANGED <<conn, loose, cached>>

\* prepare, with the old statement finalized first.
Prepare(o) == ClassOf[o] = "statement" /\ Reopens(o, "statement")

\* The constructors of the other two classes.
StartBackup(o) == ClassOf[o] = "backup" /\ holds[o] = Null /\ Reopens(o, "backup")
OpenBlob(o) == ClassOf[o] = "blob" /\ holds[o] = Null /\ Reopens(o, "blob")

Closing(o, class) ==
  /\ ClassOf[o] = class /\ holds[o] # Null
  /\ Closes({holds[o]})
  /\ holds' = [holds EXCEPT ![o] = Null]
  /\ UNCHANGED <<loose, cached>>

\* finalize, finish and close, which the destructors call.
Finalize(o) == Closing(o, "statement")
Finish(o) == Closing(o, "backup")
CloseBlob(o) == Closing(o, "blob")

\* The move assignments.
Moving(o, from, class) ==
  /\ ClassOf[o] = class /\ ClassOf[from] = class /\ o # from
  /\ Closes(Holding(o))
  /\ holds' = [holds EXCEPT ![o] = holds[from], ![from] = Null]
  /\ UNCHANGED <<loose, cached>>

MoveStatement(o, from) == Moving(o, from, "statement")
MoveBackup(o, from) == Moving(o, from, "backup")
MoveBlob(o, from) == Moving(o, from, "blob")

\* release, and the constructor that takes a statement.
Release(o) ==
  /\ ClassOf[o] = "statement" /\ holds[o] # Null
  /\ loose' = loose \cup {holds[o]}
  /\ holds' = [holds EXCEPT ![o] = Null]
  /\ UNCHANGED <<conn, thing, cached>>

Adopt(o) ==
  /\ ClassOf[o] = "statement" /\ holds[o] = Null
  /\ \E x \in loose : loose' = loose \ {x} /\ holds' = [holds EXCEPT ![o] = x]
  /\ UNCHANGED <<conn, thing, cached>>

\* The application keeps a released statement in a cache, clean, or finalizes one of the cache.
Keep ==
  /\ \E x \in loose :
       /\ loose' = loose \ {x} /\ cached' = cached \cup {x}
       /\ thing' = [thing EXCEPT ![x].bound = FALSE, ![x].at = "ready"]
  /\ UNCHANGED <<conn, holds>>

Evict ==
  /\ \E x \in cached :
       /\ \A o \in Owners : holds[o] # x
       /\ cached' = cached \ {x} /\ Closes({x})
  /\ UNCHANGED <<holds, loose>>

Uses(o) == Sort(ClassOf[o]) = "statement" /\ holds[o] # Null

Stands(x, bound, at) ==
  /\ thing' = [thing EXCEPT ![x].bound = bound, ![x].at = at]
  /\ UNCHANGED <<conn, holds, loose, cached>>

\* bind, refused while the statement stands on a row.
Bind(o) == Uses(o) /\ thing[holds[o]].at = "ready" /\ Stands(holds[o], TRUE, "ready")

\* bind by name, which finds no parameter or binds it.
BindByName(o) == Uses(o) /\ (Bind(o) \/ UNCHANGED handleVars)

ClearBindings(o) == Uses(o) /\ Stands(holds[o], FALSE, thing[holds[o]].at)

\* step gives a row or ends; reset; execute, which steps and resets whatever step gave.
Step(o) == Uses(o) /\ \E at \in {"row", "ended"} : Stands(holds[o], thing[holds[o]].bound, at)
Reset(o) == Uses(o) /\ Stands(holds[o], thing[holds[o]].bound, "ready")
Execute(o) == Uses(o) /\ Stands(holds[o], thing[holds[o]].bound, "ready")

\* SqliteBackup::step and SqliteBlobStream::reopen, after which there is no more to do,
\* or nothing that can be read.
StepBackup(o) ==
  /\ ClassOf[o] = "backup" /\ holds[o] # Null
  /\ \E at \in {"ready", "ended"} : Stands(holds[o], FALSE, at)

ReopenBlob(o) ==
  /\ ClassOf[o] = "blob" /\ holds[o] # Null
  /\ \E at \in {"ready", "ended"} : Stands(holds[o], FALSE, at)

\* A lease of a statement of the cache.
Lease(o) ==
  /\ ClassOf[o] = "lease" /\ holds[o] = Null
  /\ \E x \in cached :
       /\ \A other \in Owners : holds[other] # x
       /\ holds' = [holds EXCEPT ![o] = x]
  /\ UNCHANGED <<conn, thing, loose, cached>>

\* Mutant of Cleaned: the statement is not reset.
CleanedButNotReset(xs) == [x \in Things |-> IF x \in xs THEN [thing[x] EXCEPT !.bound = FALSE] ELSE thing[x]]

Cleaned(xs) ==
  [x \in Things |-> IF x \in xs THEN [thing[x] EXCEPT !.bound = FALSE, !.at = "ready"] ELSE thing[x]]

\* release_to_cache, in the destructor and in the move assignment.
ReleaseToCache(o) ==
  /\ ClassOf[o] = "lease" /\ holds[o] # Null
  /\ thing' = Cleaned({holds[o]})
  /\ holds' = [holds EXCEPT ![o] = Null]
  /\ UNCHANGED <<conn, loose, cached>>

MoveLease(o, from) ==
  /\ ClassOf[o] = "lease" /\ ClassOf[from] = "lease" /\ o # from
  /\ thing' = Cleaned(Holding(o))
  /\ holds' = [holds EXCEPT ![o] = holds[from], ![from] = Null]
  /\ UNCHANGED <<conn, loose, cached>>

HandlesNext ==
  \/ Keep \/ Evict
  \/ \E o \in Owners :
       \/ Open(o) \/ CloseDatabase(o)
       \/ Prepare(o) \/ Finalize(o) \/ Release(o) \/ Adopt(o)
       \/ Bind(o) \/ BindByName(o) \/ ClearBindings(o) \/ Step(o) \/ Reset(o) \/ Execute(o)
       \/ Lease(o) \/ ReleaseToCache(o) \/ StepBackup(o) \/ ReopenBlob(o)
       \/ StartBackup(o) \/ Finish(o) \/ OpenBlob(o) \/ CloseBlob(o)
       \/ \E from \in Owners :
            \/ MoveDatabase(o, from) \/ MoveStatement(o, from) \/ MoveLease(o, from)
            \/ MoveBackup(o, from) \/ MoveBlob(o, from)

HandlesSpec == HandlesInit /\ [][HandlesNext]_handleVars

-----------------------------------------------------------------------------
\* What an object holds is open, and its connection's memory with it, also when the
\* connection's owner is gone; and nothing has two owners.
NothingDangles ==
  /\ \A o \in Owners : holds[o] # Null =>
       IF ClassOf[o] = "database" THEN conn[holds[o]] = "open"
       ELSE thing[holds[o]] # Null /\ thing[holds[o]].class = Sort(ClassOf[o])
  /\ \A x \in Things : thing[x] # Null => conn[thing[x].db] \in {"open", "closed"}
  /\ \A o, p \in Owners : holds[o] = holds[p] /\ holds[o] # Null => o = p

\* Whatever is open has an owner, and a connection that was closed goes with the last
\* thing opened on it.
NothingForgotten ==
  /\ \A x \in Things : thing[x] # Null =>
       x \in loose \cup cached \/ \E o \in Owners : holds[o] = x
  /\ \A d \in Databases :
       /\ conn[d] = "open" => \E o \in Of("database") : holds[o] = d
       /\ conn[d] = "closed" => \E x \in Things : thing[x] # Null /\ thing[x].db = d

\* A statement of the cache that nobody leases is reset and has no bindings, however
\* its last lease ended.
CacheIsClean ==
  \A x \in cached :
    \/ thing[x] = Fresh("statement", thing[x].db)
    \/ \E o \in Of("lease") : holds[o] = x

HandlesSafe == NothingDangles /\ NothingForgotten /\ CacheIsClean
=============================================================================
