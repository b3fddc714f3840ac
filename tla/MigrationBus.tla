---------------------------- MODULE MigrationBus ----------------------------
(***************************************************************************)
(* Programs that one run publishes and another imports, over a Redis       *)
(* stream (gigaevo/evolution/bus): RedisStreamTransport (transport.py),    *)
(* MigrationNode (node.py), the topologies (topology.py) and the drain     *)
(* loop of BusedSteadyStateEvolutionEngine (engine.py). A message is its   *)
(* position in the stream; what a run does with a drained program is in    *)
(* Islands. The stream is not trimmed (MAXLEN 1000, approximate), and a    *)
(* publication that fails leaves nothing behind.                           *)
(***************************************************************************)
EXTENDS Integers, Sequences, FiniteSets

CONSTANTS
  Order,          \* the runs, in the order of the ring
  PollCount,      \* max_consume_per_poll
  BufferSize,     \* max_buffer_size
  DrainCount,     \* max_imports_per_generation
  Nobody,         \* the claim key does not exist
  MaxPublished,   \* bound: messages published
  MaxTroubles     \* bound: stops, crashes, poll errors, expired claims

Runs == {Order[i] : i \in DOMAIN Order}

\* What the constants must satisfy.
BusAssumption ==
  /\ Cardinality(Runs) = Len(Order) /\ Len(Order) >= 2
  /\ {PollCount, BufferSize, DrainCount} \subseteq Nat \ {0}
  /\ {MaxPublished, MaxTroubles} \subseteq Nat
  /\ Nobody \notin Runs

VARIABLES
  topology,  \* "bus" or "ring", the same in every run
  stream,    \* stream[m]: the run that published message m
  claim,     \* claim[m]: the run in the claim key of m
  lapsed,    \* the messages whose claim key has expired
  phase,     \* phase[r]: "off"; "up"; "finished", its engine has ended while
             \* its node still polls; "stopped", its node has stopped
             \* while its engine still drains; or "ended", neither runs
  cursor,    \* cursor[r]: _last_id
  saved,     \* saved[r]: the cursor in Redis
  polled,    \* polled[r]: the last message of the response being worked on
  won,       \* won[r]: the messages claimed out of it so far
  buffer,    \* buffer[r]: _buffer
  arrivals,  \* arrivals[r]: what the drain loop has popped and not imported
  imports,   \* imports[m]: the runs that have imported m, in order
  troubles,  \* counter for the bound
  calm       \* nothing has been stopped, lost, dropped or expired

vars == <<topology, stream, claim, lapsed, phase, cursor, saved, polled, won,
          buffer, arrivals, imports, troubles, calm>>

Messages == 1..MaxPublished
Published == 1..Len(stream)

Init ==
  /\ topology \in {"bus", "ring"}
  /\ stream = <<>>
  /\ claim = [m \in Messages |-> Nobody]
  /\ lapsed = {}
  /\ phase = [r \in Runs |-> "off"]
  /\ cursor = [r \in Runs |-> 0]
  /\ saved = cursor
  /\ polled = cursor
  /\ won = [r \in Runs |-> <<>>]
  /\ buffer = won
  /\ arrivals = won
  /\ imports = [m \in Messages |-> <<>>]
  /\ troubles = 0
  /\ calm = TRUE

\* _predecessor: run_ids[i - 1], the last one's for the first.
Predecessor(r) ==
  LET i == CHOOSE k \in DOMAIN Order : Order[k] = r
  IN IF i = 1 THEN Order[Len(Order)] ELSE Order[i - 1]

\* should_accept.
Accepts(r, source) ==
  IF topology = "ring" THEN source = Predecessor(r) ELSE source # r

Polling(r) == phase[r] \in {"up", "finished"}
Draining(r) == phase[r] \in {"up", "stopped"}

Trouble ==
  /\ troubles < MaxTroubles
  /\ troubles' = troubles + 1
  /\ calm' = FALSE

-----------------------------------------------------------------------------
(* Publication, and the poll loop of a node. *)

\* _notify_hook: a valid program that the strategy has rejected.
Publish(r) ==
  /\ phase[r] = "up" /\ Len(stream) < MaxPublished
  /\ stream' = Append(stream, r)
  /\ UNCHANGED <<topology, claim, lapsed, phase, cursor, saved, polled, won,
                 buffer, arrivals, imports, troubles, calm>>

\* XREAD after the cursor.
Read(r) ==
  /\ Polling(r) /\ won[r] = <<>> /\ polled[r] = cursor[r]
  /\ cursor[r] < Len(stream)
  /\ polled' = [polled EXCEPT ![r] =
                  IF cursor[r] + PollCount < Len(stream)
                    THEN cursor[r] + PollCount ELSE Len(stream)]
  /\ UNCHANGED <<topology, stream, claim, lapsed, phase, cursor, saved, won,
                 buffer, arrivals, imports, troubles, calm>>

\* Seeded bug: the claim is taken before the topology is asked.
ClaimUnfiltered(r) ==
  /\ Polling(r) /\ cursor[r] < polled[r]
  /\ LET m == cursor[r] + 1 IN
     /\ cursor' = [cursor EXCEPT ![r] = m]
     /\ IF stream[m] # r /\ claim[m] = Nobody
          THEN /\ claim' = [claim EXCEPT ![m] = r]
               /\ won' = IF Accepts(r, stream[m])
                           THEN [won EXCEPT ![r] = Append(@, m)] ELSE won
          ELSE UNCHANGED <<claim, won>>
  /\ UNCHANGED <<topology, stream, lapsed, phase, saved, polled, buffer,
                 arrivals, imports, troubles, calm>>

\* Seeded bug: every run has a claim key of its own.
ClaimForSelf(r) ==
  /\ Polling(r) /\ cursor[r] < polled[r]
  /\ LET m == cursor[r] + 1 IN
     /\ cursor' = [cursor EXCEPT ![r] = m]
     /\ IF stream[m] # r /\ Accepts(r, stream[m]) /\ claim[m] # r
          THEN /\ claim' = [claim EXCEPT ![m] = r]
               /\ won' = [won EXCEPT ![r] = Append(@, m)]
          ELSE UNCHANGED <<claim, won>>
  /\ UNCHANGED <<topology, stream, lapsed, phase, saved, polled, buffer,
                 arrivals, imports, troubles, calm>>

\* One message of the response: the cursor moves first, then SET NX claims
\* the message if it is not the run's own and the topology accepts it.
Claim(r) ==
  /\ Polling(r) /\ cursor[r] < polled[r]
  /\ LET m == cursor[r] + 1 IN
     /\ cursor' = [cursor EXCEPT ![r] = m]
     /\ IF stream[m] # r /\ Accepts(r, stream[m]) /\ claim[m] = Nobody
          THEN /\ claim' = [claim EXCEPT ![m] = r]
               /\ won' = [won EXCEPT ![r] = Append(@, m)]
          ELSE UNCHANGED <<claim, won>>
  /\ UNCHANGED <<topology, stream, lapsed, phase, saved, polled, buffer,
                 arrivals, imports, troubles, calm>>

\* consume returns: into the buffer as far as it has room, the rest dropped.
Deliver(r) ==
  /\ Polling(r) /\ cursor[r] = polled[r] /\ won[r] # <<>>
  /\ LET room == BufferSize - Len(buffer[r])
         kept == IF Len(won[r]) < room THEN Len(won[r]) ELSE room
     IN
     /\ buffer' = [buffer EXCEPT ![r] = @ \o SubSeq(won[r], 1, kept)]
     /\ calm' = (calm /\ kept = Len(won[r]))
  /\ won' = [won EXCEPT ![r] = <<>>]
  /\ UNCHANGED <<topology, stream, claim, lapsed, phase, cursor, saved, polled,
                 arrivals, imports, troubles>>

\* The poll loop waits for the SET NX of the next message.
Claiming(r) ==
  cursor[r] < polled[r] /\ Accepts(r, stream[cursor[r] + 1])

\* It gets no answer, whether or not Redis executes the claim.
CutOff(r) ==
  /\ cursor' = [cursor EXCEPT ![r] = @ + 1]
  /\ \/ /\ claim[cursor'[r]] = Nobody
        /\ claim' = [claim EXCEPT ![cursor'[r]] = r]
     \/ UNCHANGED claim
  /\ won' = [won EXCEPT ![r] = <<>>]

\* A claim raises: the rest of the response is read again, what was claimed
\* out of it is lost.
PollError(r) ==
  /\ Polling(r) /\ Claiming(r)
  /\ Trouble
  /\ CutOff(r)
  /\ polled' = [polled EXCEPT ![r] = cursor'[r]]
  /\ UNCHANGED <<topology, stream, lapsed, phase, saved, buffer, arrivals,
                 imports>>

\* Claim keys live for claim_ttl seconds.
ClaimExpires(m) ==
  /\ claim[m] # Nobody
  /\ Trouble
  /\ claim' = [claim EXCEPT ![m] = Nobody]
  /\ lapsed' = lapsed \cup {m}
  /\ UNCHANGED <<topology, stream, phase, cursor, saved, polled, won, buffer,
                 arrivals, imports>>

-----------------------------------------------------------------------------
(* The drain loop of the engine. *)

\* drain_received.
Drain(r) ==
  /\ Draining(r) /\ arrivals[r] = <<>> /\ buffer[r] # <<>>
  /\ LET n == IF Len(buffer[r]) < DrainCount THEN Len(buffer[r])
                                             ELSE DrainCount
     IN
     /\ arrivals' = [arrivals EXCEPT ![r] = SubSeq(buffer[r], 1, n)]
     /\ buffer' = [buffer EXCEPT ![r] = SubSeq(@, n + 1, Len(@))]
  /\ UNCHANGED <<topology, stream, claim, lapsed, phase, cursor, saved, polled,
                 won, imports, troubles, calm>>

\* The next arrival is judged and offered to the strategy under a new id.
Import(r) ==
  /\ Draining(r) /\ arrivals[r] # <<>>
  /\ imports' = [imports EXCEPT ![Head(arrivals[r])] = Append(@, r)]
  /\ arrivals' = [arrivals EXCEPT ![r] = Tail(@)]
  /\ UNCHANGED <<topology, stream, claim, lapsed, phase, cursor, saved, polled,
                 won, buffer, troubles, calm>>

-----------------------------------------------------------------------------
(* The life of a run. *)

\* MigrationNode.start: a new node, whose cursor is the saved one.
Start(r) ==
  /\ phase[r] = "off"
  /\ phase' = [phase EXCEPT ![r] = "up"]
  /\ cursor' = [cursor EXCEPT ![r] = saved[r]]
  /\ polled' = [polled EXCEPT ![r] = saved[r]]
  /\ UNCHANGED <<topology, stream, claim, lapsed, saved, won, buffer, arrivals,
                 imports, troubles, calm>>

\* The process of the run ends, with all it holds; its Redis keys stay.
Vanish(r) ==
  /\ phase' = [phase EXCEPT ![r] = "off"]
  /\ won' = [won EXCEPT ![r] = <<>>]
  /\ buffer' = [buffer EXCEPT ![r] = <<>>]
  /\ arrivals' = [arrivals EXCEPT ![r] = <<>>]

\* MigrationNode.stop: the poll is cancelled where it waits and the cursor
\* saved. The drain loop, if it still runs, goes on until run() is cancelled.
StopNode(r) ==
  /\ Polling(r)
  /\ Trouble
  /\ \/ cursor[r] = polled[r] /\ won' = [won EXCEPT ![r] = <<>>]
        /\ UNCHANGED <<cursor, claim>>
     \/ Claiming(r) /\ CutOff(r)
  /\ saved' = [saved EXCEPT ![r] = cursor'[r]]
  /\ phase' = [phase EXCEPT ![r] = IF @ = "up" THEN "stopped" ELSE "ended"]
  /\ UNCHANGED <<topology, stream, lapsed, polled, buffer, arrivals, imports>>

\* run() returns by itself; its node polls on until stop is called.
Finish(r) ==
  /\ phase[r] = "up"
  /\ Trouble
  /\ phase' = [phase EXCEPT ![r] = "finished"]
  /\ arrivals' = [arrivals EXCEPT ![r] = <<>>]
  /\ UNCHANGED <<topology, stream, claim, lapsed, cursor, saved, polled, won,
                 buffer, imports>>

\* Then run() is cancelled with the drain loop, and the process ends.
Exit(r) ==
  /\ phase[r] \in {"stopped", "ended"}
  /\ Vanish(r)
  /\ UNCHANGED <<topology, stream, claim, lapsed, cursor, saved, polled,
                 imports, troubles, calm>>

Crash(r) ==
  /\ phase[r] # "off"
  /\ Trouble
  /\ Vanish(r)
  /\ UNCHANGED <<topology, stream, claim, lapsed, cursor, saved, polled,
                 imports>>

Poll(r) == Read(r) \/ Claim(r) \/ Deliver(r)
DrainStep(r) == Drain(r) \/ Import(r)

Next ==
  \/ \E r \in Runs :
       \/ Publish(r) \/ Poll(r) \/ PollError(r) \/ DrainStep(r)
       \/ Start(r) \/ StopNode(r) \/ Finish(r) \/ Exit(r) \/ Crash(r)
  \/ \E m \in Messages : ClaimExpires(m)

Spec == Init /\ [][Next]_vars

-----------------------------------------------------------------------------
(* Properties. *)

\* A migrant is imported at most once over all runs, by a run that its
\* publisher's topology neighbours include and never by the publisher, as long
\* as its claim key has not expired: over nodes that read the same message at
\* the same time, poll errors, stops, crashes, and restarts that read the
\* stream again from an old cursor.
TakenOnce ==
  \A m \in Published \ lapsed :
    /\ Len(imports[m]) <= 1
    /\ \A i \in DOMAIN imports[m] : Accepts(imports[m][i], stream[m])

\* As long as no run stops or crashes and nothing is dropped or expires, a
\* published program whose neighbours include a running one is imported: no
\* run that must not import it takes it away from those that may.
MigrantsLand ==
  \A m \in Messages :
    (m \in Published /\ \E r \in Runs : phase[r] = "up" /\ Accepts(r, stream[m]))
      ~> (imports[m] # <<>> \/ ~calm)
=============================================================================
