--------------------------- MODULE HandlerLoader ---------------------------
(***************************************************************************)
(* Loader of loader/loader.go: for every server type it resets the tables  *)
(* of handlers, remotes, filters and crons and lets the registered         *)
(* functions fill them.  The lock is only held for a reset or for one      *)
(* registration, so several calls may overlap.                             *)
(***************************************************************************)
EXTENDS Integers, Sequences, FiniteSets, Functions

CONSTANTS
    LoadTypes,  \* what discoverServerTypes returns: a sequence of server types
    Funcs,      \* <<server type, kind>> -> sequence of what its functions register
    Reloaders,  \* goroutines that call Load and Reload
    MaxReloads  \* bound on the calls of Reload

Kinds == <<"handlers", "remotes", "filters", "crons">>

Cells == {LoadTypes[t] : t \in DOMAIN LoadTypes} \X {Kinds[k] : k \in DOMAIN Kinds}

\* What the functions of one kind register has names apart.
ASSUME HandlerLoaderAssumption ==
    /\ MaxReloads \in Nat /\ LoadTypes \in Seq(Range(LoadTypes))
    /\ \A c \in Cells : Funcs[c] \in Seq(Range(Funcs[c])) /\ IsInjective(Funcs[c])

VARIABLES
    isLoaded,   \* l.loaded
    registered, \* <<server type, kind>> -> what is registered, with duplicates, in order
    loading,    \* goroutine -> Load: [at, stage, left]
    reloads,    \* number of calls of Reload
    overlapped  \* history: two calls have filled the tables at the same time

loaderVars == <<isLoaded, registered, loading, reloads, overlapped>>

NotLoading == [at |-> "no", stage |-> 0, left |-> <<>>]

\* NewLoader.
LoaderInit ==
    /\ isLoaded = FALSE /\ registered = [c \in Cells |-> <<>>]
    /\ loading = [g \in Reloaders |-> NotLoading] /\ reloads = 0 /\ overlapped = FALSE

\* Stages of Load: the four kinds of each server type, one type after the other.
Stages == 4 * Len(LoadTypes)
Cell(stage) == <<LoadTypes[(stage - 1) \div 4 + 1], Kinds[((stage - 1) % 4) + 1]>>

\* Fault: l.loaded stays set.
ReloadKeepsLoaded(g) ==
    /\ loading[g].at = "no" /\ reloads < MaxReloads /\ reloads' = reloads + 1
    /\ registered' = [c \in Cells |-> <<>>] /\ loading' = [loading EXCEPT ![g].at = "cleared"]
    /\ UNCHANGED <<isLoaded, overlapped>>

\* Reload empties the tables and calls Load.  Load never returns an error, so the
\* restoring of the old tables is not reached.
Reload(g) ==
    /\ loading[g].at = "no" /\ reloads < MaxReloads /\ reloads' = reloads + 1
    /\ isLoaded' = FALSE /\ registered' = [c \in Cells |-> <<>>]
    /\ loading' = [loading EXCEPT ![g].at = "cleared"]
    /\ UNCHANGED overlapped

\* Where a call is when it has ended a stage.
After(stage) ==
    IF stage = Stages THEN NotLoading ELSE [at |-> "stage", stage |-> stage + 1, left |-> <<>>]

\* Load, called by itself or by Reload: it returns at once when somebody has loaded
\* or is loading.
LoadAll(g) ==
    /\ loading[g].at \in {"no", "cleared"} /\ isLoaded' = TRUE
    /\ loading' = [loading EXCEPT ![g] = IF isLoaded THEN NotLoading ELSE After(0)]
    /\ overlapped' = (overlapped \/ (~isLoaded /\ \E h \in Reloaders : loading[h].at \in {"stage", "calls"}))
    /\ UNCHANGED <<registered, reloads>>

\* loadHandlers, loadRemotes, loadFilters, loadCrons: the table of the type is reset
\* and the functions are collected; without files the table is left alone.
LoadStage(g) ==
    LET s == loading[g].stage
        c == Cell(s)
    IN  /\ loading[g].at = "stage"
        /\ IF Funcs[c] = <<>>
             THEN loading' = [loading EXCEPT ![g] = After(s)] /\ UNCHANGED registered
             ELSE /\ loading' = [loading EXCEPT ![g] = [at |-> "calls", stage |-> s, left |-> Funcs[c]]]
                  /\ registered' = [registered EXCEPT ![c] = <<>>]
        /\ UNCHANGED <<isLoaded, reloads, overlapped>>

\* RegisterHandlerMethod, RegisterRemoteMethod and RegisterCronMethod replace what has
\* the same name, RegisterFilter appends.
Registered(list, kind, name) ==
    IF kind # "filters" /\ \E k \in DOMAIN list : list[k] = name THEN list ELSE Append(list, name)

\* A function registers what it has to; the last one ends the stage.
CallFunc(g) ==
    LET s == loading[g].stage
        left == Tail(loading[g].left)
    IN  /\ loading[g].at = "calls"
        /\ registered' = [registered EXCEPT ![Cell(s)] = Registered(@, Cell(s)[2], Head(loading[g].left))]
        /\ loading' = [loading EXCEPT ![g] = IF left = <<>> THEN After(s) ELSE [@ EXCEPT !.left = left]]
        /\ UNCHANGED <<isLoaded, reloads, overlapped>>

LoaderNext == \E g \in Reloaders : Reload(g) \/ LoadAll(g) \/ LoadStage(g) \/ CallFunc(g)

\* What GetHandler, GetRemote, GetFilters, GetCron and the GetAll functions find: how
\* often a name is in a table.
Found(c, name) == Cardinality({k \in DOMAIN registered[c] : registered[c][k] = name})

\* Once every Load has returned, everything is registered, however the calls have
\* overlapped: a call that found the flag set relied on one that began after the
\* tables were last emptied.  Nothing is registered twice, save filters of calls
\* that overlapped.
TablesWhole ==
    isLoaded /\ (\A g \in Reloaders : loading[g].at = "no") =>
        \A c \in Cells : \A k \in DOMAIN Funcs[c] :
            LET n == Found(c, Funcs[c][k])
            IN  n >= 1 /\ (n = 1 \/ (c[2] = "filters" /\ overlapped))
=============================================================================
