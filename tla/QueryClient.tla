---------------------------- MODULE QueryClient ----------------------------
(***************************************************************************)
(* The browser's copy of the server's lists and the requests of its        *)
(* buttons: the part of TanStack Query that the hooks of                   *)
(* web/src/presentation/hooks use.  A query keeps the last answer of its   *)
(* key; a mutation hook of a component observes the last request it sent,  *)
(* and isPending and error are the status of that request.  The library is *)
(* not in the repository: the definitions follow how the hooks use it.     *)
(***************************************************************************)
EXTENDS Naturals, Sequences

CONSTANTS
    Keys,      \* query keys
    Hooks,     \* mutation hooks of the component
    NoData,    \* the data of a query that was never answered
    MaxCalls   \* bound: requests sent by mutation hooks in a behaviour

VARIABLES
    cache,     \* what the client keeps of each query
    calls,     \* the mutations sent, in order
    observed   \* the call each hook observes, 0 when it observes none

clientVars == <<cache, calls, observed>>

NoEntry == [data |-> NoData, valid |-> FALSE, fetch |-> "idle", answer |-> NoData,
            late |-> FALSE]

\* valid: neither invalidated nor older than staleTime.  late: a change was
\* answered while this load was under way, and the load was not started again.
EntriesOver(Data) ==
    [data   : Data \cup {NoData},
     valid  : BOOLEAN,
     fetch  : {"idle", "asked", "answered"},
     answer : Data \cup {NoData},
     late   : BOOLEAN]

Refetched(e) ==
    [e EXCEPT !.valid = FALSE, !.fetch = "asked", !.answer = NoData, !.late = FALSE]

\* A component that uses the keys is mounted.
Mounted(c, keys) ==
    [k \in Keys |-> IF k \in keys /\ ~c[k].valid /\ c[k].fetch = "idle"
                    THEN Refetched(c[k]) ELSE c[k]]

\* invalidateQueries: queries in use are fetched again at once, which cancels a
\* fetch under way unless it is the first one of its key.
Invalidated(c, keys, active) ==
    [k \in Keys |->
        IF k \notin keys THEN c[k]
        ELSE IF k \in active /\ (c[k].fetch = "idle" \/ c[k].data # NoData)
        THEN Refetched(c[k])
        ELSE [c[k] EXCEPT !.valid = FALSE, !.late = c[k].fetch # "idle"]]

\* The server reads the rows of a query, and later the answer arrives.
Serve(k, rows) ==
    /\ cache[k].fetch = "asked"
    /\ cache' = [cache EXCEPT ![k].fetch = "answered", ![k].answer = rows]

Deliver(k) ==
    /\ cache[k].fetch = "answered"
    /\ cache' = [cache EXCEPT ![k] = [@ EXCEPT !.data = cache[k].answer, !.valid = TRUE,
                                               !.fetch = "idle", !.answer = NoData]]

\* A fetch that failed leaves the data of the last one.
FetchFails(k) ==
    /\ cache[k].fetch # "idle"
    /\ cache' = [cache EXCEPT ![k].fetch = "idle", ![k].answer = NoData]

CallIds == 1..Len(calls)
InFlight(i) == calls[i].status \in {"sent", "applied"}
IsPending(h) == observed[h] # 0 /\ InFlight(observed[h])
HasError(h) == observed[h] # 0 /\ calls[observed[h]].status \in {"failed", "lost"}

\* mutate: the hook observes the new call and no longer the one before.
Send(call) ==
    /\ Len(calls) < MaxCalls
    /\ calls' = Append(calls, call)
    /\ observed' = [observed EXCEPT ![call.hook] = Len(calls) + 1]

\* A slip: the hook is not reset.
Forget_Never(h) == observed' = [observed EXCEPT ![h] = @]

\* reset: the hook observes nothing; a call in flight goes on.
Forget(h) == observed' = [observed EXCEPT ![h] = 0]

\* The effect of call i is in the tables of the server.
Applied(i) == calls' = [calls EXCEPT ![i].status = "applied"]

Succeeded(i) ==
    /\ calls[i].status = "applied"
    /\ calls' = [calls EXCEPT ![i].status = "succeeded"]

\* The server refused, or its answer did not arrive.
NotSucceeded(i) ==
    /\ InFlight(i)
    /\ calls' = [calls EXCEPT ![i].status = IF @ = "applied" THEN "lost" ELSE "failed"]
=============================================================================
