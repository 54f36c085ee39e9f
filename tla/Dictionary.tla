----------------------------- MODULE Dictionary -----------------------------
(***************************************************************************)
(* The dictionaries that give routes numeric ids: Compressor, RouterTable  *)
(* and RouteManager of route/route.go, and Manager of schema/schema.go.    *)
(* An id is an uint16; IdSpace stands for 2^16.                            *)
(***************************************************************************)
EXTENDS Integers, FiniteSets, Functions

CONSTANTS
    IdSpace,        \* number of ids
    DictRoutes,     \* routes of the stand-alone compressor and of the schemas
    TableRoutes,    \* routes of the router tables
    TableTypes      \* server types that may have a router table

ASSUME DictionaryAssumption == IdSpace \in Nat \ {0}

VARIABLES
    compressor,     \* a Compressor of its own: [routes, ids, nextID]
    tables          \* m.tables: server type -> RouterTable, only the types that have one

dictionaryVars == <<compressor, tables>>

EmptyCompressor == [routes |-> <<>>, ids |-> <<>>, nextID |-> 0]

DictionaryInit == compressor = EmptyCompressor /\ tables = <<>>

\* A map with one entry stored, and with the entries of a map stored.
Entered(f, x, y) == [z \in DOMAIN f \cup {x} |-> IF z = x THEN y ELSE f[z]]
Joined(f, g) == [z \in DOMAIN f \cup DOMAIN g |-> IF z \in DOMAIN g THEN g[z] ELSE f[z]]

\* Fault: nextID is advanced after it was used.
RegisterBefore(c, r) ==
    IF r \in DOMAIN c.routes THEN c
    ELSE [routes |-> Entered(c.routes, r, c.nextID), ids |-> Entered(c.ids, c.nextID, r),
          nextID |-> (c.nextID + 1) % IdSpace]

\* Register and Compress: a new route gets the next id, which wraps around and then
\* takes the id of an older route.
Register(c, r) ==
    IF r \in DOMAIN c.routes THEN c
    ELSE LET id == (c.nextID + 1) % IdSpace
         IN  [routes |-> Entered(c.routes, r, id), ids |-> Entered(c.ids, id, r), nextID |-> id]

\* GetRouteID and GetRoute, for a key that is there.
RouteID(c, r) == c.routes[r]
RouteOf(c, id) == c.ids[id]

CompressRoute(r) == compressor' = Register(compressor, r) /\ UNCHANGED tables

ClearCompressor == compressor' = EmptyCompressor /\ UNCHANGED tables

\* GetOrCreateTable.
TableFor(type) ==
    IF type \in DOMAIN tables THEN tables[type]
    ELSE [compressor |-> EmptyCompressor, handlers |-> {}]

\* RouteManager.Register and RegisterWithID: the table's compressor and its handlers.
RegisterHandler(type, r) ==
    /\ tables' = Entered(tables, type, [compressor |-> Register(TableFor(type).compressor, r),
                                    handlers |-> TableFor(type).handlers \cup {r}])
    /\ UNCHANGED compressor

\* RouteManager.Compress: it makes no table, but may enter a route without a handler.
CompressFor(type, r) ==
    /\ type \in DOMAIN tables
    /\ tables' = [tables EXCEPT ![type].compressor = Register(@, r)]
    /\ UNCHANGED compressor

\* RouterTable.GetHandlerByID: the route that has a handler, if there is one.
HandlerByID(t, id) ==
    {r \in t.handlers : id \in DOMAIN t.compressor.ids /\ r = RouteOf(t.compressor, id)}

DictionaryNext ==
    \/ \E r \in DictRoutes : CompressRoute(r)
    \/ ClearCompressor
    \/ \E type \in TableTypes, r \in TableRoutes : RegisterHandler(type, r) \/ CompressFor(type, r)

\* As long as fewer routes than ids are registered, an id leads back to the route
\* that was compressed to it, and 0, which Compress returns for a server type without
\* a table, is no route's id.
RoundTrip(c) ==
    Cardinality(DOMAIN c.routes) < IdSpace =>
        /\ \A r \in DOMAIN c.routes : RouteOf(c, RouteID(c, r)) = r
        /\ 0 \notin DOMAIN c.ids

\* Routes survive compression, and a handler is found by the id of its route.
DictionariesInvert ==
    /\ RoundTrip(compressor)
    /\ \A type \in DOMAIN tables : LET t == tables[type] IN
           /\ RoundTrip(t.compressor)
           /\ t.handlers \subseteq DOMAIN t.compressor.routes
           /\ Cardinality(DOMAIN t.compressor.routes) < IdSpace =>
                \A r \in t.handlers : HandlerByID(t, RouteID(t.compressor, r)) = {r}

-----------------------------------------------------------------------------
(* schema.Manager: the two maps of one manager, and another one that is    *)
(* merged into it.                                                         *)

VARIABLES
    mine,       \* [routes, routeIDs] of the manager
    other       \* the same of the other manager

schemaVars == <<mine, other>>

NoSchema == [routes |-> <<>>, routeIDs |-> <<>>]

SchemaInit == mine = NoSchema /\ other = NoSchema

Ids == 0 .. IdSpace - 1

\* Fault: an id that is taken is not refused.
AcceptsAnyId(s, r, id) == id # 0 /\ r \notin DOMAIN s.routes

\* RegisterRoute returns no error; routes are not empty here.
Accepts(s, r, id) == id # 0 /\ r \notin DOMAIN s.routes /\ id \notin DOMAIN s.routeIDs

\* RegisterRoute; an error leaves the maps alone.
RegisterRoute(s, r, id) ==
    IF Accepts(s, r, id) THEN [routes |-> Entered(s.routes, r, id), routeIDs |-> Entered(s.routeIDs, id, r)]
                         ELSE s

RegisterMine(r, id) == mine' = RegisterRoute(mine, r, id) /\ UNCHANGED other
RegisterOther(r, id) == other' = RegisterRoute(other, r, id) /\ UNCHANGED mine

\* RegisterFromServerSchema with two routes of a message: the first error ends it and
\* what was registered stays.
RegisterFromServerSchema(r1, id1, r2, id2) ==
    /\ mine' = IF Accepts(mine, r1, id1) THEN RegisterRoute(RegisterRoute(mine, r1, id1), r2, id2)
                                         ELSE mine
    /\ UNCHANGED other

\* Merge: routes and ids already registered are skipped.  The others' routes and ids
\* differ from each other, so the order of the map does not matter.
Merge ==
    LET new == {r \in DOMAIN other.routes : Accepts(mine, r, other.routes[r])}
    IN  /\ mine' = [routes |-> Joined(mine.routes, Restrict(other.routes, new)),
                    routeIDs |-> Joined(mine.routeIDs,
                                        Restrict(other.routeIDs, {other.routes[r] : r \in new}))]
        /\ UNCHANGED other

ClearSchema == mine' = NoSchema /\ UNCHANGED other

SchemaNext ==
    \/ \E r \in DictRoutes, id \in Ids : RegisterMine(r, id) \/ RegisterOther(r, id)
    \/ \E r1, r2 \in DictRoutes, id1, id2 \in Ids : RegisterFromServerSchema(r1, id1, r2, id2)
    \/ Merge \/ ClearSchema

\* Whatever was registered, merged or left behind by a failing call, the two maps are
\* each other's inverse, and no route has the id 0.
SchemasInvert ==
    \A s \in {mine, other} :
        /\ \A r \in DOMAIN s.routes : s.routes[r] # 0 /\ s.routes[r] \in DOMAIN s.routeIDs
        /\ \A r \in DOMAIN s.routes, id \in DOMAIN s.routeIDs : s.routes[r] = id <=> s.routeIDs[id] = r
=============================================================================
