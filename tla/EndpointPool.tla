---------------------------- MODULE EndpointPool ----------------------------
(***************************************************************************)
(* The in-flight counts by which concurrent LLM calls, of one process or   *)
(* of several, share the endpoints: EndpointPool (gigaevo/infra/           *)
(* endpoint_pool.py) as BalancedChatOpenAI and _BalancedStructuredOutput   *)
(* call it (infra/balanced_chat.py). Request and latency statistics, which *)
(* no choice reads, are left out.                                          *)
(***************************************************************************)
EXTENDS Integers, FiniteSets

CONSTANTS
  Endpoints,   \* _endpoints
  Calls,       \* LLM calls
  Nowhere      \* the endpoint of a call that has none yet

\* What the constants must satisfy.
PoolAssumption ==
  Endpoints # {} /\ IsFiniteSet(Calls) /\ Nowhere \notin Endpoints

VARIABLES
  inflight,  \* inflight[e]: the count in Redis, which may become negative
  cooling,   \* the endpoints whose cooldown key exists
  at,        \* at[c]: where call c stands
  endpoint,  \* endpoint[c]: what the call counts on
  twice      \* a release was executed by Redis and yet raised

vars == <<inflight, cooling, at, endpoint, twice>>

TypeOK ==
  /\ inflight \in [Endpoints -> Int]
  /\ cooling \in SUBSET Endpoints
  /\ at \in [Calls -> {"new", "open", "answered", "failed", "leaked", "over"}]
  /\ endpoint \in [Calls -> Endpoints \cup {Nowhere}]
  /\ twice \in BOOLEAN

Init ==
  /\ inflight = [e \in Endpoints |-> 0]
  /\ cooling = {}
  /\ at = [c \in Calls |-> "new"]
  /\ endpoint = [c \in Calls |-> Nowhere]
  /\ twice = FALSE

Add(e, n) == inflight' = [inflight EXCEPT ![e] = @ + n]
Move(c, s) == at' = [at EXCEPT ![c] = s]

\* _LUA_ACQUIRE: the least loaded of those not in cooldown, or of all of them
\* when every one is.
Candidates ==
  LET eligible == IF cooling = Endpoints THEN Endpoints
                                         ELSE Endpoints \ cooling
  IN {e \in eligible : \A other \in eligible : inflight[e] <= inflight[other]}

\* acquire. Where the script has run and its answer is lost, the call fails
\* and the count stays.
Acquire(c) ==
  /\ at[c] = "new"
  /\ \E e \in Candidates :
       /\ Add(e, 1)
       /\ endpoint' = [endpoint EXCEPT ![c] = e]
  /\ \/ Move(c, "open")
     \/ Move(c, "leaked")
  /\ UNCHANGED <<cooling, twice>>

\* The endpoint answers; or it raises, and the except branch is entered.
Answer(c) ==
  /\ at[c] = "open"
  /\ Move(c, "answered") \/ Move(c, "failed")
  /\ UNCHANGED <<inflight, cooling, endpoint, twice>>

\* CancelledError and GeneratorExit are no Exception: nothing is released,
\* unless Redis executes the decrement whose answer is not waited for.
Cancel(c) ==
  /\ at[c] \in {"open", "answered", "failed"}
  /\ \/ Move(c, "leaked") /\ UNCHANGED inflight
     \/ at[c] # "open" /\ Move(c, "over") /\ Add(endpoint[c], -1)
  /\ UNCHANGED <<cooling, endpoint, twice>>

\* release.
Release(c) ==
  /\ at[c] = "answered"
  /\ Move(c, "over")
  /\ Add(endpoint[c], -1)
  /\ UNCHANGED <<cooling, endpoint, twice>>

\* release raises inside the try: the call goes on to mark_unhealthy.
ReleaseFails(c) ==
  /\ at[c] = "answered"
  /\ Move(c, "failed")
  /\ \/ UNCHANGED <<inflight, twice>>
     \/ Add(endpoint[c], -1) /\ twice' = TRUE
  /\ UNCHANGED <<cooling, endpoint>>

\* Seeded bug: a finally clause releases the endpoint once more.
MarkAndRelease(c) ==
  /\ at[c] = "failed"
  /\ Move(c, "over")
  /\ Add(endpoint[c], -2)
  /\ cooling' = cooling \cup {endpoint[c]}
  /\ UNCHANGED <<endpoint, twice>>

\* mark_unhealthy.
MarkUnhealthy(c) ==
  /\ at[c] = "failed"
  /\ Move(c, "over")
  /\ Add(endpoint[c], -1)
  /\ cooling' = cooling \cup {endpoint[c]}
  /\ UNCHANGED <<endpoint, twice>>

\* mark_unhealthy raises. Its pipeline is no transaction: Redis may have
\* executed all of it, the decrement alone, or nothing.
MarkFails(c) ==
  /\ at[c] = "failed"
  /\ \/ Move(c, "leaked") /\ UNCHANGED <<inflight, cooling>>
     \/ /\ Move(c, "over")
        /\ Add(endpoint[c], -1)
        /\ cooling' \in {cooling, cooling \cup {endpoint[c]}}
  /\ UNCHANGED <<endpoint, twice>>

\* The cooldown key expires.
CooldownEnds(e) ==
  /\ e \in cooling
  /\ cooling' = cooling \ {e}
  /\ UNCHANGED <<inflight, at, endpoint, twice>>

Next ==
  \/ \E c \in Calls :
       \/ Acquire(c) \/ Answer(c) \/ Cancel(c) \/ Release(c)
       \/ ReleaseFails(c) \/ MarkUnhealthy(c) \/ MarkFails(c)
  \/ \E e \in Endpoints : CooldownEnds(e)

Spec == Init /\ [][Next]_vars

-----------------------------------------------------------------------------
(* Properties. *)

\* The calls an endpoint's count should count: those at work on it, and those
\* that ended without giving it back.
Counted(e) ==
  {c \in Calls : endpoint[c] = e /\
                 at[c] \in {"open", "answered", "failed", "leaked"}}

\* Over any interleaving of calls that fail, are cancelled or meet Redis
\* errors anywhere, a count is exactly the number of calls at work plus those
\* cut off before their decrement, which no later call ever takes back; it
\* goes wrong otherwise only by a release that Redis executed and that raised
\* all the same, after which mark_unhealthy decrements again.
LoadExact ==
  ~twice => \A e \in Endpoints : inflight[e] = Cardinality(Counted(e))
=============================================================================
