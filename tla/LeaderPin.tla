------------------------------ MODULE LeaderPin ------------------------------
(***************************************************************************)
(* What the Leader Resolver promises (spec sections 4.3 and 5), with no    *)
(* probes, goroutines, deadlines or service nodes: a client is built from  *)
(* a list of candidate endpoints; with none it uses the base URL, with one *)
(* it uses that one, and with several it pins an endpoint that has been    *)
(* confirmed (answered a leadership or routing probe affirmatively), or    *)
(* construction fails with "no leader found".  A built client re-resolves *)
(* only to a confirmed endpoint and never to an arbitrary one.             *)
(*                                                                         *)
(* LeaderResolver implements this specification (see its refinement       *)
(* PinSpec and LeaderResolverProofs).                                      *)
(***************************************************************************)
EXTENDS Naturals, Sequences

CONSTANTS
    Nodes,      \* candidate endpoints
    BaseURL,    \* the base URL used when no endpoint is configured
    None        \* no leader pinned yet

VARIABLES
    endpoints,  \* the configured candidate list
    client,     \* "new", "ready" or "failed"
    pinned,     \* the pinned leader
    confirmed   \* endpoints that have answered a probe affirmatively

vars == <<endpoints, client, pinned, confirmed>>

Candidates == {endpoints[i] : i \in 1 .. Len(endpoints)}

Init ==
    /\ endpoints \in Seq(Nodes)
    /\ client = "new"
    /\ pinned = None
    /\ confirmed = {}

(* A candidate answers a leadership or routing probe affirmatively. *)
Confirm(e) ==
    /\ e \in Candidates
    /\ confirmed' = confirmed \cup {e}
    /\ UNCHANGED <<endpoints, client, pinned>>

(* Construction succeeds: the base URL, the only endpoint, or a confirmed  *)
(* one of several.                                                         *)
Construct ==
    /\ client = "new"
    /\ client' = "ready"
    /\ \/ Len(endpoints) = 0 /\ pinned' = BaseURL
       \/ Len(endpoints) = 1 /\ pinned' = endpoints[1]
       \/ Len(endpoints) > 1 /\ pinned' \in confirmed
    /\ UNCHANGED <<endpoints, confirmed>>

(* Construction fails: several candidates and none was chosen. *)
FailConstruct ==
    /\ client = "new"
    /\ Len(endpoints) > 1
    /\ client' = "failed"
    /\ UNCHANGED <<endpoints, pinned, confirmed>>

(* An explicit re-resolution pins a confirmed endpoint. *)
Resolve ==
    /\ client = "ready"
    /\ Len(endpoints) > 1
    /\ pinned' \in confirmed
    /\ UNCHANGED <<endpoints, client, confirmed>>

Next ==
    \/ \E e \in Nodes : Confirm(e)
    \/ Construct
    \/ FailConstruct
    \/ Resolve

Spec == Init /\ [][Next]_vars
=============================================================================
